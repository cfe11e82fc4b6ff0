---------------------- MODULE EmbeddingCallbackProofs ----------------------
(***************************************************************************)
(* Theorems about EmbeddingCallback: what IngestPipelineProofs shows of    *)
(* the ingest tasks also holds with callback tasks running next to them,   *)
(* every vector in a graph comes from a message sent for its owner, and    *)
(* with one task of each kind the vectors follow the edits.                *)
(***************************************************************************)
EXTENDS EmbeddingCallback, IngestSequentialProofs

(* A running callback task handles a message that was sent. *)
AnswersOK ==
    \A c \in Callbacks :
        cb_pc[c] # "idle" =>
            /\ \E n \in DOMAIN chunks_raw : cb_event[c] = chunks_raw[n]
            /\ cb_left[c] \subseteq cb_event[c].sent

EmbTypeInv == TypeInv /\ EmbTypeOK /\ AnswersOK

-----------------------------------------------------------------------------
LEMMA MessageChunks ==
    ASSUME NEW m \in Message, NEW i \in m.sent
    PROVE  /\ m.user \in Users
           /\ m.chunks[i].key \in Keys /\ m.chunks[i].hash \in Hashes
           /\ m.chunks[i] = [key |-> m.chunks[i].key, hash |-> m.chunks[i].hash]
           /\ IdOf(m.chunks[i]) \in Ids
           /\ KeyOf(IdOf(m.chunks[i])) = m.chunks[i].key
  <1>1. m.user \in Users /\ m.chunks \in Versions \cup {<<>>} /\ i \in DOMAIN m.chunks
    BY DEF Message
  <1>2. m.chunks \in Seq(Chunk)
    BY <1>1, ConstantsAssumption
  <1>3. m.chunks[i] \in Chunk
    BY <1>1, <1>2
  <1> QED
    BY <1>1, <1>3 DEF Chunk, IdOf, KeyOf, Ids

(* Messages are only ever appended. *)
LEMMA MessagesGrow ==
    ASSUME TypeInv, [Next]_vars
    PROVE  \A n \in DOMAIN chunks_raw :
              n \in DOMAIN chunks_raw' /\ chunks_raw'[n] = chunks_raw[n]
  <1>1. CASE UNCHANGED chunks_raw
    BY <1>1
  <1>2. ASSUME NEW t \in Handlers, Publish(t)
        PROVE  \A n \in DOMAIN chunks_raw :
                  n \in DOMAIN chunks_raw' /\ chunks_raw'[n] = chunks_raw[n]
    <2>1. PICK m : chunks_raw' = chunks_raw \/ chunks_raw' = Append(chunks_raw, m)
      BY <1>2 DEF Publish
    <2>2. chunks_raw \in Seq(Message)
      BY DEF TypeInv, TypeOK
    <2> QED
      BY <2>1, <2>2
  <1>3. ASSUME NEW t \in Handlers, Step(t), ~Publish(t)
        PROVE  UNCHANGED chunks_raw
    BY <1>3 DEF Step, FirstDiff, MarkDeleted, DeleteOrphans, SecondDiff, Replace,
                CacheChunks, StoreNode, StoreLink, StoreMetadata, DeleteNodes,
                DeleteMetadata
  <1>4. ASSUME NEW t \in Handlers, NEW e \in Job, Deliver(t, e)
        PROVE  UNCHANGED chunks_raw
    BY <1>4 DEF Deliver
  <1>5. Crash \/ CrowdOut \/ UNCHANGED vars => UNCHANGED chunks_raw
    BY DEF Crash, CrowdOut, vars
  <1> QED
    BY <1>1, <1>2, <1>3, <1>4, <1>5 DEF Next

(* What the task of a callback step holds. *)
LEMMA Answering ==
    ASSUME EmbTypeInv, NEW c \in Callbacks, NEW i \in First(cb_left[c]), cb_pc[c] # "idle"
    PROVE  /\ cb_event[c] \in Message
           /\ CallbackGraph(c) \in Users
           /\ \A j \in cb_left[c] :
                 /\ j \in cb_event[c].sent
                 /\ ChunkAt(c, j) = cb_event[c].chunks[j]
                 /\ ChunkAt(c, j).key \in Keys /\ ChunkAt(c, j).hash \in Hashes
           /\ i \in cb_left[c]
           /\ \E n \in DOMAIN chunks_raw : cb_event[c] = chunks_raw[n]
  <1>1. PICK n \in DOMAIN chunks_raw : cb_event[c] = chunks_raw[n]
    BY DEF EmbTypeInv, AnswersOK
  <1>2. cb_event[c] \in Message
    BY <1>1 DEF EmbTypeInv, TypeInv, TypeOK
  <1>3. cb_left[c] \subseteq cb_event[c].sent
    BY DEF EmbTypeInv, AnswersOK
  <1> QED
    BY <1>1, <1>2, <1>3, MessageChunks DEF First, ChunkAt, CallbackGraph

(* A callback step moves on in its event, and changes a node, an edge or   *)
(* a cache entry at most.                                                  *)
LEMMA CallbackTasks ==
    ASSUME EmbTypeInv, NEW c \in Callbacks, NEW i \in First(cb_left[c]),
           Proceed(c, i) \/ \E p \in CallbackPCs : CallbackGoto(c, p),
           cb_pc[c] # "idle", UNCHANGED <<chunks_raw, answered>>,
           skipped' \subseteq skipped \cup {<<CallbackGraph(c), ChunkAt(c, i).key>>}
    PROVE  /\ cb_pc' \in [Callbacks -> CallbackPCs]
           /\ cb_event' \in [Callbacks -> Message \cup {NoEvent}]
           /\ cb_left' \in [Callbacks -> SUBSET Nat]
           /\ answered' \in Seq(Nat)
           /\ skipped' \in SUBSET (Users \X Keys)
           /\ AnswersOK'
  <1>1. /\ cb_pc \in [Callbacks -> CallbackPCs]
        /\ cb_event \in [Callbacks -> Message \cup {NoEvent}]
        /\ cb_left \in [Callbacks -> SUBSET Nat]
        /\ answered \in Seq(Nat)
        /\ skipped \in SUBSET (Users \X Keys)
        /\ AnswersOK
    BY DEF EmbTypeInv, EmbTypeOK
  <1>2. {"idle", "cache_lookup"} \subseteq CallbackPCs
    BY DEF CallbackPCs
  <1>3. /\ cb_pc' \in [Callbacks -> CallbackPCs]
        /\ cb_event' \in [Callbacks -> Message \cup {NoEvent}]
        /\ cb_left' \in [Callbacks -> SUBSET Nat]
    BY <1>1, <1>2 DEF Proceed, CallbackGoto
  <1>4. ASSUME NEW d \in Callbacks, cb_pc'[d] # "idle"
        PROVE  /\ cb_pc[d] # "idle"
               /\ cb_event'[d] = cb_event[d]
               /\ cb_left'[d] \subseteq cb_left[d]
    BY <1>1, <1>4 DEF Proceed, CallbackGoto
  <1>5. AnswersOK'
    BY <1>1, <1>4 DEF AnswersOK
  <1>6. skipped' \in SUBSET (Users \X Keys)
    BY <1>1, Answering
  <1> QED
    BY <1>1, <1>3, <1>5, <1>6

LEMMA CallbackStepTypeInv ==
    ASSUME EmbTypeInv, NEW c \in Callbacks, CallbackStep(c) \/ FetchStep(c)
    PROVE  EmbTypeInv'
  <1>1. PICK i \in First(cb_left[c]) :
           \/ LookInCache(c, i) \/ LookInGraph(c, i) \/ UpdateEmbedding(c, i)
           \/ Evict(c, i) \/ LinkNext(c, i) \/ Fetch(c, i)
    BY DEF CallbackStep, FetchStep
  <1>2. cb_pc[c] # "idle"
    BY <1>1 DEF LookInCache, LookInGraph, UpdateEmbedding, Evict, LinkNext, Fetch
  <1>3. /\ Proceed(c, i) \/ \E p \in CallbackPCs : CallbackGoto(c, p)
        /\ UNCHANGED <<chunks_raw, answered>>
    BY <1>1 DEF LookInCache, LookInGraph, UpdateEmbedding, Evict, LinkNext, Fetch, Skip,
                CallbackPCs, vars, ingestVars, historyVars
  <1>9. skipped' \subseteq skipped \cup {<<CallbackGraph(c), ChunkAt(c, i).key>>}
    BY <1>1 DEF LookInCache, LookInGraph, UpdateEmbedding, Evict, LinkNext, Fetch, Skip,
                historyVars
  <1>4. UNCHANGED <<chunk_snapshot, file_metadata, chunks_raw, pc, job, work, delivered,
                    crashes>>
    BY <1>1 DEF LookInCache, LookInGraph, UpdateEmbedding, Evict, LinkNext, Fetch,
                vars, ingestVars, pgVars, taskVars
  <1>5. failures' \in Nat /\ troubled' \subseteq Handlers
    <2>1. failures \in Nat /\ troubled \subseteq Handlers
      BY DEF EmbTypeInv, TypeInv, TypeOK
    <2>2. UNCHANGED faultVars \/ \E call : CallFails(call)
      BY <1>1 DEF LookInCache, LookInGraph, UpdateEmbedding,
                  Evict, LinkNext, Fetch, Succeeds, vars
    <2> QED
      BY <2>1, <2>2 DEF CallFails, faultVars
  <1>6. /\ nodes' \in [Users -> [Keys -> Node \cup {None}]]
        /\ edges' \in [Users -> SUBSET (Keys \X Keys)]
        /\ cache' \in [Keys -> Hashes \cup {None}]
    <2> DEFINE G == CallbackGraph(c)
    <2>1. /\ nodes \in [Users -> [Keys -> Node \cup {None}]]
          /\ edges \in [Users -> SUBSET (Keys \X Keys)]
          /\ cache \in [Keys -> Hashes \cup {None}]
          /\ G \in Users
      BY <1>2, Answering DEF EmbTypeInv, TypeInv, TypeOK
    <2>2. CASE UNCHANGED <<nodes, edges, cache>>
      BY <2>1, <2>2
    <2>3. CASE /\ UNCHANGED <<edges, cache>>
               /\ nodes' = [nodes EXCEPT ![G] = Embedded(@, ChunkAt(c, i))]
      <3>1. ChunkAt(c, i).hash \in Hashes
        BY <1>2, Answering
      <3>2. Embedded(nodes[G], ChunkAt(c, i)) \in [Keys -> Node \cup {None}]
        BY <2>1, <3>1 DEF Embedded, Node
      <3> QED
        BY <2>1, <2>3, <3>2
    <2>4. CASE Evict(c, i)
      BY <2>1, <2>4 DEF Evict, graphVars
    <2>5. ASSUME NEW j \in First(cb_left[c] \ {i}),
                 nodes' = [nodes EXCEPT ![G] =
                              MergeEnds(@, <<ChunkAt(c, i).key, ChunkAt(c, j).key>>)],
                 edges' = [edges EXCEPT ![G] =
                              @ \cup {<<ChunkAt(c, i).key, ChunkAt(c, j).key>>}],
                 UNCHANGED cache
          PROVE  /\ nodes' \in [Users -> [Keys -> Node \cup {None}]]
                 /\ edges' \in [Users -> SUBSET (Keys \X Keys)]
      <3> DEFINE link == <<ChunkAt(c, i).key, ChunkAt(c, j).key>>
      <3>1. link \in Keys \X Keys
        BY <1>2, <2>5, Answering DEF First
      <3>2. MergeEnds(nodes[G], link) \in [Keys -> Node \cup {None}]
        BY <2>1 DEF MergeEnds, Phantom, Node
      <3> HIDE DEF link
      <3> QED
        BY <2>1, <2>5, <3>1, <3>2 DEF link
    <2>6. CASE LookInCache(c, i) \/ LookInGraph(c, i) \/ Fetch(c, i)
      BY <2>2, <2>6 DEF LookInCache, LookInGraph, Fetch, vars, graphVars
    <2>7. CASE UpdateEmbedding(c, i)
      BY <2>2, <2>3, <2>7 DEF UpdateEmbedding
    <2>8. CASE LinkNext(c, i)
      BY <2>1, <2>2, <2>5, <2>8 DEF LinkNext, graphVars
    <2> QED
      BY <1>1, <2>4, <2>6, <2>7, <2>8
  <1>7. TypeOK'
    BY <1>4, <1>5, <1>6 DEF EmbTypeInv, TypeInv, TypeOK
  <1>8. TasksOK'
    BY <1>4 DEF EmbTypeInv, TypeInv, TasksOK
  <1> QED
    BY <1>2, <1>3, <1>7, <1>8, <1>9, CallbackTasks DEF EmbTypeInv, EmbTypeOK, TypeInv

LEMMA EmbNextTypeInv == EmbTypeInv /\ [EmbNext]_allVars => EmbTypeInv'
  <1> SUFFICES ASSUME EmbTypeInv, [EmbNext]_allVars PROVE EmbTypeInv'
    OBVIOUS
  <1>1. ASSUME [Next]_vars, UNCHANGED cbVars PROVE EmbTypeInv'
    <2>1. TypeInv'
      BY <1>1, NextTypeInv DEF EmbTypeInv
    <2>2. AnswersOK'
      BY <1>1, MessagesGrow DEF EmbTypeInv, AnswersOK, cbVars
    <2> QED
      BY <1>1, <2>1, <2>2 DEF EmbTypeInv, EmbTypeOK, TypeInv, cbVars, historyVars
  <1>2. CASE EmbCrash
    <2>1. TypeInv'
      BY <1>2, NextTypeInv DEF EmbTypeInv, EmbCrash, Next
    <2> QED
      BY <1>2, <2>1 DEF EmbTypeInv, EmbTypeOK, TypeInv, AnswersOK, EmbCrash, CallbackPCs,
                      historyVars
  <1>3. ASSUME NEW c \in Callbacks, NEW n \in DOMAIN chunks_raw, Answer(c, n)
        PROVE  EmbTypeInv'
    <2>1. /\ chunks_raw \in Seq(Message) /\ answered \in Seq(Nat)
          /\ cb_event \in [Callbacks -> Message \cup {NoEvent}]
          /\ cb_left \in [Callbacks -> SUBSET Nat]
          /\ cb_pc \in [Callbacks -> CallbackPCs]
      BY DEF EmbTypeInv, EmbTypeOK, TypeInv, TypeOK
    <2>2. chunks_raw[n] \in Message /\ n \in Nat
      BY <2>1
    <2>3. chunks_raw[n].sent \subseteq Nat
      BY <2>2 DEF Message
    <2>4. /\ cb_pc' \in [Callbacks -> CallbackPCs]
          /\ cb_event' \in [Callbacks -> Message \cup {NoEvent}]
          /\ cb_left' \in [Callbacks -> SUBSET Nat]
          /\ answered' \in Seq(Nat)
      BY <1>3, <2>1, <2>2, <2>3 DEF Answer, CallbackPCs
    <2>5. TypeInv' /\ UNCHANGED chunks_raw
      BY <1>3, NextTypeInv DEF EmbTypeInv, Answer, vars
    <2>6. AnswersOK'
      BY <1>3, <2>1, <2>5 DEF EmbTypeInv, AnswersOK, Answer
    <2>7. skipped' \in SUBSET (Users \X Keys)
      BY <1>3 DEF EmbTypeInv, EmbTypeOK, Answer
    <2> QED
      BY <2>4, <2>5, <2>6, <2>7 DEF EmbTypeInv, EmbTypeOK, TypeInv
  <1>4. ASSUME NEW c \in Callbacks, CallbackStep(c) \/ FetchStep(c)
        PROVE  EmbTypeInv'
    BY <1>4, CallbackStepTypeInv
  <1> QED
    BY <1>1, <1>2, <1>3, <1>4 DEF EmbNext, Next, allVars

LEMMA EmbInitTypeInv == EmbInit => EmbTypeInv
  BY InitTypeInv DEF EmbInit, EmbTypeInv, EmbTypeOK, TypeInv, AnswersOK, CallbackPCs

(* Every variable keeps its type with callback tasks running. *)
THEOREM EmbSpecTypeOK == EmbSpec => []EmbTypeOK
  <1>1. EmbTypeInv => EmbTypeOK
    BY DEF EmbTypeInv
  <1> QED
    BY <1>1, EmbInitTypeInv, EmbNextTypeInv, PTL DEF EmbSpec

-----------------------------------------------------------------------------
(* Nodes stay on record: a callback creates a node only for a chunk that   *)
(* was sent, and what was sent is on record.                               *)

EmbTrackInv == EmbTypeInv /\ TrackInv

LEMMA CallbackKeepsTrack ==
    ASSUME EmbTrackInv, NEW c \in Callbacks, CallbackStep(c) \/ FetchStep(c)
    PROVE  BatchOnRecord' /\ SentOnRecord' /\ NodesTracked'
  <1>1. PICK i \in First(cb_left[c]) :
           \/ LookInCache(c, i) \/ LookInGraph(c, i) \/ UpdateEmbedding(c, i)
           \/ Evict(c, i) \/ LinkNext(c, i) \/ Fetch(c, i)
    BY DEF CallbackStep, FetchStep
  <1>2. cb_pc[c] # "idle"
    BY <1>1 DEF LookInCache, LookInGraph, UpdateEmbedding, Evict, LinkNext, Fetch
  <1>3. UNCHANGED <<chunk_snapshot, chunks_raw, pc, job, work>>
    BY <1>1 DEF LookInCache, LookInGraph, UpdateEmbedding, Evict, LinkNext, Fetch,
                vars, ingestVars, pgVars, taskVars
  <1>4. BatchOnRecord' /\ SentOnRecord'
    BY <1>3 DEF EmbTrackInv, TrackInv, BatchOnRecord, OnRecord, SentOnRecord
  <1>5. \A j \in cb_left[c] : ChunkAt(c, j).key \in RecordedKeys
    <2> SUFFICES ASSUME NEW j \in cb_left[c] PROVE ChunkAt(c, j).key \in RecordedKeys
      OBVIOUS
    <2>1. PICK n \in DOMAIN chunks_raw : cb_event[c] = chunks_raw[n]
      BY <1>2, Answering DEF EmbTrackInv
    <2>2. j \in chunks_raw[n].sent /\ chunks_raw[n] \in Message
      BY <1>2, <2>1, Answering DEF EmbTrackInv
    <2>3. IdOf(chunks_raw[n].chunks[j]) \in Recorded(chunk_snapshot)
      BY <2>2 DEF EmbTrackInv, TrackInv, SentOnRecord
    <2>4. KeyOf(IdOf(chunks_raw[n].chunks[j])) = chunks_raw[n].chunks[j].key
      BY <2>2, MessageChunks
    <2>5. ChunkAt(c, j) = chunks_raw[n].chunks[j]
      BY <2>1 DEF ChunkAt
    <2> QED
      BY <2>3, <2>4, <2>5 DEF RecordedKeys
  <1> DEFINE G == CallbackGraph(c)
  <1>6. /\ nodes \in [Users -> [Keys -> Node \cup {None}]]
        /\ G \in Users /\ i \in cb_left[c]
    BY <1>2, Answering DEF EmbTrackInv, EmbTypeInv, TypeInv, TypeOK
  <1>7. ASSUME NEW u \in Users, NEW k \in Keys, nodes'[u][k] # None
        PROVE  nodes[u][k] # None \/ k \in RecordedKeys
    <2>1. CASE UNCHANGED nodes
      BY <1>7, <2>1
    <2>2. CASE nodes' = [nodes EXCEPT ![G] = Embedded(@, ChunkAt(c, i))]
      BY <1>6, <1>7, <2>2 DEF Embedded
    <2>3. ASSUME NEW j \in First(cb_left[c] \ {i}),
                 nodes' = [nodes EXCEPT ![G] =
                              MergeEnds(@, <<ChunkAt(c, i).key, ChunkAt(c, j).key>>)]
          PROVE  nodes[u][k] # None \/ k \in RecordedKeys
      <3>1. ChunkAt(c, i).key \in RecordedKeys /\ ChunkAt(c, j).key \in RecordedKeys
        BY <1>5, <1>6 DEF First
      <3> DEFINE new == MergeEnds(nodes[G], <<ChunkAt(c, i).key, ChunkAt(c, j).key>>)
      <3>2. new[k] # None => nodes[G][k] # None \/ k \in RecordedKeys
        BY <3>1 DEF MergeEnds
      <3>3. nodes' = [nodes EXCEPT ![G] = new]
        BY <2>3
      <3> HIDE DEF new
      <3> QED
        BY <1>6, <1>7, <3>2, <3>3
    <2>4. CASE LookInCache(c, i) \/ LookInGraph(c, i) \/ Evict(c, i) \/ Fetch(c, i)
      BY <2>1, <2>4 DEF LookInCache, LookInGraph, Evict, Fetch, vars, graphVars
    <2>5. CASE UpdateEmbedding(c, i)
      BY <2>1, <2>2, <2>5 DEF UpdateEmbedding
    <2>6. CASE LinkNext(c, i)
      BY <2>1, <2>3, <2>6 DEF LinkNext, graphVars
    <2> QED
      BY <1>1, <2>4, <2>5, <2>6
  <1>8. NodesTracked'
    <2>1. RecordedKeys' = RecordedKeys
      BY <1>3 DEF RecordedKeys, Recorded
    <2>2. \A u \in Users : NodeKeys(u)' \subseteq RecordedKeys
      BY <1>7, TrackedKeys DEF EmbTrackInv, TrackInv, NodeKeys
    <2> QED
      BY <2>1, <2>2 DEF NodesTracked, RecordedKeys
  <1> QED
    BY <1>4, <1>8

LEMMA EmbNextTrackInv ==
    ASSUME "replace" \notin Faults, EmbTrackInv, [EmbNext]_allVars
    PROVE  EmbTrackInv'
  <1>1. EmbTypeInv'
    BY EmbNextTypeInv DEF EmbTrackInv
  <1>2. CASE [Next]_vars
    BY <1>1, <1>2, NextTrackInv DEF EmbTrackInv
  <1>3. ASSUME NEW c \in Callbacks, CallbackStep(c) \/ FetchStep(c)
        PROVE  EmbTrackInv'
    BY <1>1, <1>3, CallbackKeepsTrack DEF EmbTrackInv, TrackInv, EmbTypeInv
  <1> QED
    BY <1>2, <1>3 DEF EmbNext, Next, EmbCrash, Answer, allVars

(* No callback, however late or repeated, puts a node in a graph that      *)
(* chunk_snapshot does not know, unless the transaction of                 *)
(* atomic_replace_file_chunks fails.                                       *)
THEOREM EmbSpecNodesTracked ==
    ASSUME "replace" \notin Faults
    PROVE  EmbSpec => []NodesTracked
  <1>1. EmbInit => EmbTrackInv
    BY EmbInitTypeInv, InitTrackInv DEF EmbTrackInv, EmbInit
  <1>2. EmbTrackInv /\ [EmbNext]_allVars => EmbTrackInv'
    BY EmbNextTrackInv
  <1>3. EmbTrackInv => NodesTracked
    BY DEF EmbTrackInv, TrackInv
  <1> QED
    BY <1>1, <1>2, <1>3, PTL DEF EmbSpec

-----------------------------------------------------------------------------
(* Where the vectors come from.                                            *)

(* Chunk k with content h was sent to the embeddings service for u. *)
WasSent(u, k, h) ==
    \E n \in DOMAIN chunks_raw : \E i \in chunks_raw[n].sent :
        /\ chunks_raw[n].user = u
        /\ chunks_raw[n].chunks[i] = [key |-> k, hash |-> h]

(* An ingest step leaves the vectors of the nodes it keeps alone. *)
LEMMA StepVectors ==
    ASSUME TypeInv, NEW t \in Handlers, Step(t), NEW u \in Users, NEW k \in Keys,
           nodes'[u][k] # None, nodes'[u][k].embeddings # None
    PROVE  nodes[u][k] # None /\ nodes[u][k].embeddings = nodes'[u][k].embeddings
  <1> DEFINE Same == nodes'[u][k] = nodes[u][k]
  <1>1. nodes \in [Users -> [Keys -> Node \cup {None}]]
    BY DEF TypeInv, TypeOK
  <1>2. ASSUME NEW v \in Users, NEW keys, DetachDelete(v, keys)
        PROVE  Same
    BY <1>1, <1>2 DEF DetachDelete
  <1>3. CASE StoreNode(t)
    <2>1. PICK i \in work[t].left :
             nodes' = [nodes EXCEPT ![UserGraph(t)] = MergeNode(@, job[t].chunks[i])]
               \/ UNCHANGED nodes
      BY <1>3 DEF StoreNode
    <2>2. UserGraph(t) \in Users
      BY <1>3, Running DEF StoreNode
    <2> DEFINE old == nodes[UserGraph(t)]
    <2> DEFINE new == MergeNode(old, job[t].chunks[i])
    <2>3. \/ new[k] = old[k]
          \/ new[k].embeddings = IF old[k] = None THEN None ELSE old[k].embeddings
      BY <1>1, <2>2 DEF MergeNode
    <2>4. nodes' = nodes \/ nodes' = [nodes EXCEPT ![UserGraph(t)] = new]
      BY <2>1
    <2> HIDE DEF new
    <2>5. Same \/ (u = UserGraph(t) /\ nodes'[u][k] = new[k])
      BY <1>1, <2>2, <2>4
    <2> QED
      BY <2>3, <2>5
  <1>4. CASE StoreLink(t)
    <2>1. PICK link \in work[t].links :
             nodes' = [nodes EXCEPT ![UserGraph(t)] = MergeEnds(@, link)]
               \/ UNCHANGED nodes
      BY <1>4 DEF StoreLink, graphVars
    <2>2. UserGraph(t) \in Users
      BY <1>4, Running DEF StoreLink
    <2> DEFINE new == MergeEnds(nodes[UserGraph(t)], link)
    <2>3. new[k] = nodes[UserGraph(t)][k] \/ new[k] = Phantom
      BY DEF MergeEnds
    <2>4. nodes' = nodes \/ nodes' = [nodes EXCEPT ![UserGraph(t)] = new]
      BY <2>1
    <2> HIDE DEF new
    <2>5. Same \/ nodes'[u][k] = Phantom
      BY <1>1, <2>2, <2>3, <2>4
    <2> QED
      BY <2>5 DEF Phantom
  <1>5. CASE DeleteOrphans(t)
    BY <1>2, <1>5, Running DEF DeleteOrphans, graphVars
  <1>6. CASE DeleteNodes(t)
    BY <1>2, <1>6, Running DEF DeleteNodes, graphVars
  <1>7. ASSUME ~StoreNode(t), ~StoreLink(t), ~DeleteOrphans(t), ~DeleteNodes(t)
        PROVE  UNCHANGED nodes
    BY <1>7 DEF Step, FirstDiff, MarkDeleted, SecondDiff, Replace, CacheChunks, Publish,
                StoreMetadata, DeleteMetadata, graphVars
  <1> QED
    BY <1>3, <1>4, <1>5, <1>6, <1>7

(* A callback step sets at most the vector of a chunk that was sent. *)
LEMMA CallbackVectors ==
    ASSUME EmbTypeInv, NEW c \in Callbacks, CallbackStep(c) \/ FetchStep(c),
           NEW u \in Users, NEW k \in Keys, NEW h, h # None,
           nodes'[u][k] # None, nodes'[u][k].embeddings = h
    PROVE  (nodes[u][k] # None /\ nodes[u][k].embeddings = h) \/ WasSent(u, k, h)
  <1>1. PICK i \in First(cb_left[c]) :
           \/ LookInCache(c, i) \/ LookInGraph(c, i) \/ UpdateEmbedding(c, i)
           \/ Evict(c, i) \/ LinkNext(c, i) \/ Fetch(c, i)
    BY DEF CallbackStep, FetchStep
  <1>2. cb_pc[c] # "idle"
    BY <1>1 DEF LookInCache, LookInGraph, UpdateEmbedding, Evict, LinkNext, Fetch
  <1> DEFINE G == CallbackGraph(c)
  <1> DEFINE Same == nodes'[u][k] = nodes[u][k]
  <1>3. /\ nodes \in [Users -> [Keys -> Node \cup {None}]]
        /\ G \in Users /\ i \in cb_left[c]
    BY <1>2, Answering DEF EmbTypeInv, TypeInv, TypeOK
  <1>4. PICK n \in DOMAIN chunks_raw : cb_event[c] = chunks_raw[n]
    BY <1>2, Answering
  <1>5. /\ i \in chunks_raw[n].sent /\ chunks_raw[n].user = G
        /\ chunks_raw[n].chunks[i] = ChunkAt(c, i)
        /\ ChunkAt(c, i) = [key |-> ChunkAt(c, i).key, hash |-> ChunkAt(c, i).hash]
    BY <1>2, <1>3, <1>4, Answering, MessageChunks DEF CallbackGraph, ChunkAt
  <1>6. CASE nodes' = [nodes EXCEPT ![G] = Embedded(@, ChunkAt(c, i))]
    <2> DEFINE new == Embedded(nodes[G], ChunkAt(c, i))
    <2>1. k # ChunkAt(c, i).key => new[k] = nodes[G][k]
      BY DEF Embedded
    <2>2. k = ChunkAt(c, i).key /\ nodes[G][k] # None
             => new[k].embeddings = ChunkAt(c, i).hash
      BY <1>3 DEF Embedded, Node
    <2>3. nodes[G][k] = None => new[k] = None
      BY DEF Embedded
    <2> HIDE DEF new
    <2>4. Same \/ (u = G /\ nodes'[u][k] = new[k])
      BY <1>3, <1>6 DEF new
    <2>5. Same \/ (u = G /\ k = ChunkAt(c, i).key /\ h = ChunkAt(c, i).hash)
      BY <2>1, <2>2, <2>3, <2>4
    <2>6. u = G /\ k = ChunkAt(c, i).key /\ h = ChunkAt(c, i).hash => WasSent(u, k, h)
      BY <1>4, <1>5 DEF WasSent
    <2> QED
      BY <2>5, <2>6
  <1>7. ASSUME NEW j \in First(cb_left[c] \ {i}),
               nodes' = [nodes EXCEPT ![G] =
                            MergeEnds(@, <<ChunkAt(c, i).key, ChunkAt(c, j).key>>)]
        PROVE  Same
    <2> DEFINE new == MergeEnds(nodes[G], <<ChunkAt(c, i).key, ChunkAt(c, j).key>>)
    <2>1. new[k] = nodes[G][k] \/ new[k] = Phantom
      BY DEF MergeEnds
    <2> HIDE DEF new
    <2>2. Same \/ nodes'[u][k] = Phantom
      BY <1>3, <1>7, <2>1 DEF new
    <2> QED
      BY <2>2 DEF Phantom
  <1>8. CASE UNCHANGED nodes
    BY <1>8
  <1>9. CASE LookInCache(c, i) \/ LookInGraph(c, i) \/ Evict(c, i) \/ Fetch(c, i)
    BY <1>8, <1>9 DEF LookInCache, LookInGraph, Evict, Fetch, vars, graphVars
  <1>10. CASE UpdateEmbedding(c, i)
    BY <1>6, <1>8, <1>10 DEF UpdateEmbedding
  <1>11. CASE LinkNext(c, i)
    BY <1>7, <1>8, <1>11 DEF LinkNext, graphVars
  <1> QED
    BY <1>1, <1>9, <1>10, <1>11

EmbSentInv == EmbTypeInv /\ EmbeddingsWereSent

LEMMA EmbNextSentInv == EmbSentInv /\ [EmbNext]_allVars => EmbSentInv'
  <1> SUFFICES ASSUME EmbSentInv, [EmbNext]_allVars PROVE EmbSentInv'
    OBVIOUS
  <1>1. EmbTypeInv /\ TypeInv /\ EmbTypeInv'
    BY EmbNextTypeInv DEF EmbSentInv, EmbTypeInv
  <1>2. ASSUME NEW u, NEW k, NEW h, WasSent(u, k, h)
        PROVE  WasSent(u, k, h)'
    <2>1. CASE [Next]_vars
      BY <1>1, <1>2, <2>1, MessagesGrow DEF WasSent
    <2>2. ASSUME NEW c \in Callbacks, CallbackStep(c) \/ FetchStep(c)
          PROVE  UNCHANGED chunks_raw
      BY <2>2 DEF CallbackStep, FetchStep, LookInCache, LookInGraph, UpdateEmbedding,
                  Evict, LinkNext, Fetch,
                  vars, ingestVars
    <2> QED
      BY <1>2, <2>1, <2>2 DEF WasSent, EmbNext, Next, EmbCrash, Answer, allVars
  <1>3. ASSUME NEW u \in Users, NEW k \in Keys, NEW h, h # None,
               nodes'[u][k] # None, nodes'[u][k].embeddings = h
        PROVE  WasSent(u, k, h)'
    <2>1. CASE nodes[u][k] # None /\ nodes[u][k].embeddings = h
      <3>1. WasSent(u, k, h)
        BY <1>3, <2>1 DEF EmbSentInv, EmbeddingsWereSent, NodeKeys, WasSent
      <3> QED
        BY <1>2, <3>1
    <2>2. ASSUME NEW t \in Handlers, Step(t)
          PROVE  nodes[u][k] # None /\ nodes[u][k].embeddings = h
      BY <1>1, <1>3, <2>2, StepVectors
    <2>3. ASSUME NEW c \in Callbacks, CallbackStep(c) \/ FetchStep(c)
          PROVE  (nodes[u][k] # None /\ nodes[u][k].embeddings = h) \/ WasSent(u, k, h)
      BY <1>1, <1>3, <2>3, CallbackVectors
    <2>4. ASSUME NEW t \in Handlers, NEW e \in Job, Deliver(t, e)
          PROVE  UNCHANGED nodes
      BY <2>4 DEF Deliver, graphVars
    <2>5. Crash \/ CrowdOut \/ UNCHANGED vars => UNCHANGED nodes
      BY DEF Crash, CrowdOut, vars, graphVars
    <2>6. UNCHANGED nodes => nodes[u][k] # None /\ nodes[u][k].embeddings = h
      BY <1>3
    <2>7. WasSent(u, k, h) => WasSent(u, k, h)'
      BY <1>2
    <2> QED
      BY <2>1, <2>2, <2>3, <2>4, <2>5, <2>6, <2>7 DEF EmbNext, EmbCrash, Answer, allVars
  <1>4. EmbeddingsWereSent'
    BY <1>3 DEF EmbeddingsWereSent, NodeKeys, WasSent
  <1> QED
    BY <1>1, <1>4 DEF EmbSentInv

(* A graph never holds a vector that was not computed from a chunk sent    *)
(* for its owner under that key, however answers are delayed, repeated or  *)
(* reordered and whatever fails or crashes.                                *)
THEOREM EmbSpecEmbeddingsWereSent == EmbSpec => []EmbeddingsWereSent
  <1>1. EmbInit => EmbSentInv
    BY EmbInitTypeInv DEF EmbSentInv, EmbInit, Init, EmbeddingsWereSent, NodeKeys
  <1>2. EmbSentInv => EmbeddingsWereSent
    BY DEF EmbSentInv
  <1> QED
    BY <1>1, <1>2, EmbNextSentInv, PTL DEF EmbSpec
-----------------------------------------------------------------------------
(* One ingest task, any callbacks: what is sent is in the graph.  Nothing  *)
(* a callback does takes a chunk from the graph, and no other task of the  *)
(* file can between the store and the publish.                             *)

EmbStoredInv(t) == EmbTypeInv /\ StoredInv(t)

LEMMA CallbackKeepsHeld ==
    ASSUME EmbTypeInv, NEW c \in Callbacks, CallbackStep(c) \/ FetchStep(c),
           NEW u \in Users, NEW k \in Keys, Held(u, k)
    PROVE  Held(u, k)'
  <1>1. PICK i \in First(cb_left[c]) :
           \/ LookInCache(c, i) \/ LookInGraph(c, i) \/ UpdateEmbedding(c, i)
           \/ Evict(c, i) \/ LinkNext(c, i) \/ Fetch(c, i)
    BY DEF CallbackStep, FetchStep
  <1>2. cb_pc[c] # "idle"
    BY <1>1 DEF LookInCache, LookInGraph, UpdateEmbedding, Evict, LinkNext, Fetch
  <1> DEFINE G == CallbackGraph(c)
  <1>3. /\ nodes \in [Users -> [Keys -> Node \cup {None}]] /\ None \notin Node
        /\ G \in Users /\ ChunkAt(c, i).hash \in Hashes
    BY <1>2, Answering, ConstantsAssumption DEF EmbTypeInv, TypeInv, TypeOK
  <1>4. CASE UNCHANGED nodes
    BY <1>4 DEF Held
  <1>5. CASE nodes' = [nodes EXCEPT ![G] = Embedded(@, ChunkAt(c, i))]
    <2> DEFINE h == ChunkAt(c, i).hash
    <2> DEFINE new == Embedded(nodes[G], ChunkAt(c, i))
    <2>1. new[k] = nodes[G][k] \/ (nodes[G][k] # None /\
                                   new[k] = [nodes[G][k] EXCEPT !.embeddings = h])
      BY DEF Embedded
    <2>2. nodes[G][k] # None =>
             /\ [nodes[G][k] EXCEPT !.embeddings = h] \in Node
             /\ [nodes[G][k] EXCEPT !.embeddings = h].content = nodes[G][k].content
      BY <1>3 DEF Node
    <2>3. nodes' = [nodes EXCEPT ![G] = new]
      BY <1>5
    <2> HIDE DEF new, h
    <2>4. nodes'[u][k] = nodes[u][k] \/ (u = G /\ nodes'[u][k] = new[k])
      BY <1>3, <2>3
    <2> QED
      BY <1>3, <2>1, <2>2, <2>4 DEF Held
  <1>6. ASSUME NEW link, nodes' = [nodes EXCEPT ![G] = MergeEnds(@, link)]
        PROVE  Held(u, k)'
    <2> DEFINE new == MergeEnds(nodes[G], link)
    <2>1. nodes[G][k] # None => new[k] = nodes[G][k]
      BY DEF MergeEnds
    <2>2. nodes' = [nodes EXCEPT ![G] = new]
      BY <1>6
    <2> HIDE DEF new
    <2>3. nodes'[u][k] = nodes[u][k]
      BY <1>3, <2>1, <2>2 DEF Held
    <2> QED
      BY <2>3 DEF Held
  <1>7. CASE LookInCache(c, i) \/ LookInGraph(c, i) \/ Evict(c, i) \/ Fetch(c, i)
    BY <1>4, <1>7 DEF LookInCache, LookInGraph, Evict, Fetch, vars, graphVars
  <1>8. CASE UpdateEmbedding(c, i)
    BY <1>4, <1>5, <1>8 DEF UpdateEmbedding
  <1>9. CASE LinkNext(c, i)
    BY <1>4, <1>6, <1>9 DEF LinkNext, graphVars
  <1> QED
    BY <1>1, <1>7, <1>8, <1>9

LEMMA CallbackKeepsStored ==
    ASSUME EmbTypeInv, NEW c \in Callbacks, CallbackStep(c) \/ FetchStep(c),
           NEW t \in Handlers, StoredUpTo(t)
    PROVE  StoredUpTo(t)'
  <1>1. UNCHANGED <<pc, job, work>>
    BY DEF CallbackStep, FetchStep, LookInCache, LookInGraph, UpdateEmbedding,
           Evict, LinkNext, Fetch,
           vars, ingestVars, taskVars
  <1> DEFINE batch == work[t].to_process
  <1>2. ASSUME pc[t] \in {"store", "relate", "publish"}, NEW i \in batch,
               Held(UserGraph(t), job[t].chunks[i].key)
        PROVE  Held(UserGraph(t), job[t].chunks[i].key)'
    <2>1. /\ UserGraph(t) \in Users /\ job[t].chunks[i].key \in Keys
      <3>1. TypeInv /\ pc[t] # "idle"
        BY <1>2 DEF EmbTypeInv
      <3> QED
        BY <1>2, <3>1, Running, JobFields
    <2>2. UserGraph(t)' = UserGraph(t) /\ job'[t].chunks[i].key = job[t].chunks[i].key
      BY <1>1 DEF UserGraph
    <2>3. \A v \in Users, k \in Keys : Held(v, k) => Held(v, k)'
      BY CallbackKeepsHeld
    <2> QED
      BY <1>2, <2>1, <2>2, <2>3 DEF Held
  <1> QED
    BY <1>1, <1>2 DEF StoredUpTo

LEMMA EmbNextStoredInv ==
    ASSUME NEW t, Handlers = {t}, "store" \notin Faults, EmbStoredInv(t), [EmbNext]_allVars
    PROVE  EmbStoredInv(t)'
  <1>1. EmbTypeInv'
    BY EmbNextTypeInv DEF EmbStoredInv
  <1>2. CASE [Next]_vars
    BY <1>1, <1>2, NextStoredInv DEF EmbStoredInv
  <1>3. ASSUME NEW c \in Callbacks, CallbackStep(c) \/ FetchStep(c)
        PROVE  EmbStoredInv(t)'
    BY <1>1, <1>3, CallbackKeepsStored DEF EmbStoredInv, StoredInv, EmbTypeInv
  <1> QED
    BY <1>2, <1>3 DEF EmbNext, Next, EmbCrash, Answer, allVars

(* The only step that sends is Publish of the one task. *)
LEMMA SenderPublishes ==
    ASSUME NEW t, Handlers = {t}, TypeInv, [EmbNext]_allVars, chunks_raw' # chunks_raw
    PROVE  Publish(t)
  <1>1. \A c \in Callbacks : ~CallbackStep(c) /\ ~FetchStep(c)
    <2>1. ASSUME NEW c \in Callbacks
          PROVE  CallbackStep(c) \/ FetchStep(c) => UNCHANGED vars \/ UNCHANGED ingestVars
      <3>1. CallbackStep(c) => UNCHANGED vars \/ UNCHANGED ingestVars
        BY Zenon DEF CallbackStep, LookInCache, LookInGraph, UpdateEmbedding, Evict, LinkNext
      <3>2. FetchStep(c) => UNCHANGED vars
        BY Zenon DEF FetchStep, Fetch
      <3> QED
        BY <3>1, <3>2
    <2> QED
      BY <2>1 DEF vars, ingestVars
  <1>2. Step(t)
    BY <1>1 DEF EmbNext, EmbCrash, Answer, Deliver, CrowdOut, Crash, allVars, vars
  <1>3. FirstDiff(t) \/ SecondDiff(t) => UNCHANGED chunks_raw
    BY Zenon DEF FirstDiff, SecondDiff
  <1>4. ~MarkDeleted(t) /\ ~DeleteOrphans(t)
    BY DEF MarkDeleted, DeleteOrphans
  <1>5. ~Replace(t) /\ ~CacheChunks(t) /\ ~StoreNode(t) /\ ~StoreLink(t)
    BY DEF Replace, CacheChunks, StoreNode, StoreLink
  <1>6. ~StoreMetadata(t) /\ ~DeleteNodes(t) /\ ~DeleteMetadata(t)
    BY DEF StoreMetadata, DeleteNodes, DeleteMetadata
  <1> QED
    BY <1>2, <1>3, <1>4, <1>5, <1>6 DEF Step

(* SentContentStored: with one ingest task and no failing store, a chunk   *)
(* is sent to the embeddings service only when its content is in the       *)
(* user's graph, whatever the callback tasks have evicted from the cache.  *)
(* (With typed cells the graph keeps the content and the lookup still does *)
(* not read it.)                                                           *)
THEOREM EmbSpecSentContentStored ==
    ASSUME NEW t, Handlers = {t}, "store" \notin Faults
    PROVE  EmbSpec => SentContentStored
  <1>1. EmbInit => EmbStoredInv(t)
    <2>1. EmbInit => EmbTypeInv
      BY EmbInitTypeInv
    <2>2. EmbInit => pc[t] = "idle"
      BY DEF EmbInit, Init
    <2> QED
      BY <2>1, <2>2 DEF EmbStoredInv, StoredInv, StoredUpTo, EmbTypeInv
  <1>2. EmbStoredInv(t) /\ [EmbNext]_allVars => EmbStoredInv(t)'
    BY EmbNextStoredInv
  <1>3. ASSUME EmbStoredInv(t), [EmbNext]_allVars, Len(chunks_raw') > Len(chunks_raw)
        PROVE  LET m == chunks_raw'[Len(chunks_raw')]
               IN  \A i \in m.sent :
                      LET k == m.chunks[i].key
                      IN  \/ cache[k] # None
                          \/ HasContent(nodes[m.user][k])
    <2>1. TypeInv /\ StoredUpTo(t) /\ t \in Handlers /\ chunks_raw \in Seq(Message)
      BY <1>3 DEF EmbStoredInv, StoredInv, EmbTypeInv, TypeInv, TypeOK
    <2>2. chunks_raw' # chunks_raw
      BY <1>3, <2>1
    <2>3. Publish(t)
      BY <1>3, <2>1, <2>2, SenderPublishes
    <2> DEFINE sent == NextBatch(work[t].left)
    <2> DEFINE message == [user |-> job[t].user, chunks |-> job[t].chunks, sent |-> sent]
    <2>4. chunks_raw' = Append(chunks_raw, message)
      BY <2>2, <2>3 DEF Publish
    <2>5. chunks_raw'[Len(chunks_raw')] = message
      <3> HIDE DEF message
      <3> QED
        BY <2>1, <2>4
    <2>6. \A i \in sent : Held(job[t].user, job[t].chunks[i].key)
      <3>1. sent \subseteq work[t].left /\ work[t].left \subseteq work[t].to_process
        BY <2>1, <2>3 DEF Publish, NextBatch, StoredUpTo
      <3> QED
        BY <2>1, <2>3, <3>1 DEF Publish, StoredUpTo, UserGraph
    <2>7. /\ message.user = job[t].user /\ message.chunks = job[t].chunks
          /\ message.sent = sent
      OBVIOUS
    <2>8. \A v, k : Held(v, k) => HasContent(nodes[v][k])
      BY DEF Held, HasContent
    <2> HIDE DEF message, sent
    <2> QED
      BY <2>5, <2>6, <2>7, <2>8
  <1>4. EmbStoredInv(t) /\ [EmbNext]_allVars =>
           [Len(chunks_raw') > Len(chunks_raw) =>
              LET m == chunks_raw'[Len(chunks_raw')]
              IN  \A i \in m.sent :
                     LET k == m.chunks[i].key
                     IN  \/ cache[k] # None
                         \/ HasContent(nodes[m.user][k])]_allVars
    BY <1>3
  <1> QED
    BY <1>1, <1>2, <1>4, PTL DEF EmbSpec, SentContentStored
-----------------------------------------------------------------------------
(* One ingest task, one user, one callback task: vectors follow contents.  *)
(* As long as no version brings an earlier chunk back, a chunk that is     *)
(* stored anew is one that was never sent, and it is sent before the next  *)
(* run; so of the messages that name a node's key, the last one names its  *)
(* content, and answers in the order of the messages set it last.          *)

InVersion(l, chunk) ==
    \E i \in DOMAIN delivered[l].chunks : delivered[l].chunks[i] = chunk

AskedFor(chunk) == \E l \in DOMAIN delivered : InVersion(l, chunk)
Current(chunk) == delivered # <<>> /\ InVersion(Len(delivered), chunk)

SentChunk(chunk) ==
    \E n \in DOMAIN chunks_raw : \E i \in chunks_raw[n].sent : chunks_raw[n].chunks[i] = chunk

OnRow(chunk) ==
    \E id \in Recorded(chunk_snapshot) :
        KeyOf(id) = chunk.key /\ chunk_snapshot[id].hash = chunk.hash

Shows(u, chunk) ==
    nodes[u][chunk.key] # None /\ nodes[u][chunk.key].content = chunk.hash

(* The running task has yet to send the chunk. *)
Owed(t, chunk) ==
    \/ pc[t] \in {"cache", "store", "relate"} /\ \E i \in ToPublish(t) : job[t].chunks[i] = chunk
    \/ pc[t] = "publish" /\ \E i \in work[t].left : job[t].chunks[i] = chunk

(* What a run may count on of the runs before it, *)
ChunksInStep(t, u) ==
    /\ \A d \in Chunk : SentChunk(d) \/ OnRow(d) => AskedFor(d)
    /\ \A d \in Chunk : SentChunk(d) /\ Current(d) => Shows(u, d)
    /\ \A d \in Chunk : OnRow(d) /\ Current(d) => SentChunk(d) \/ Owed(t, d)

(* and what it has done itself. *)
BatchInStep(t, u) ==
    LET W == job[t].chunks
        batch == work[t].to_process
    IN  /\ pc[t] \in {"mark", "delete_orphans", "second_diff", "replace", "cache", "store",
                      "relate", "publish"} => \A i \in work[t].clean : SentChunk(W[i])
        /\ pc[t] \in {"mark", "delete_orphans"} => work[t].orphans \cap KeysOf(W) = {}
        /\ pc[t] = "store" => /\ work[t].left \subseteq batch
                              /\ \A i \in batch \ work[t].left : Shows(u, W[i])
        /\ pc[t] \in {"relate", "publish"} => /\ work[t].left \subseteq batch
                                              /\ \A i \in batch : Shows(u, W[i])
        /\ pc[t] = "relate" => work[t].left = ToPublish(t)

(* No later message sends the key with another content. *)
LastSent(n, i) ==
    \A m \in DOMAIN chunks_raw : \A j \in chunks_raw[m].sent :
        (m >= n /\ chunks_raw[m].chunks[j].key = chunks_raw[n].chunks[i].key)
            => chunks_raw[m].chunks[j].hash = chunks_raw[n].chunks[i].hash

NodesSent(t, u) ==
    \A k \in Keys : HasContent(nodes[u][k]) =>
        LET chunk == [key |-> k, hash |-> nodes[u][k].content]
        IN  \/ Owed(t, chunk)
            \/ \E n \in DOMAIN chunks_raw : \E i \in chunks_raw[n].sent :
                  chunks_raw[n].chunks[i] = chunk /\ LastSent(n, i)

(* The answers so far came in order, and the task is at the last of them. *)
InOrder == \A n \in DOMAIN answered : answered[n] = n

AnswersInStep(c) ==
    /\ Len(answered) <= Len(chunks_raw)
    /\ cb_pc[c] # "idle" => answered # <<>> /\ cb_event[c] = chunks_raw[Len(answered)]

(* The i-th chunk of the n-th message has had its turn. *)
Handled(c, n, i) ==
    /\ n <= Len(answered)
    /\ (n = Len(answered) /\ cb_pc[c] # "idle") =>
          \/ i \notin cb_left[c]
          \/ i \in First(cb_left[c]) /\ cb_pc[c] \in {"evict", "link", "fetch"}

(* The last answer for the key found no content, for the types of its cell. *)
PassedOver(u, k) == TypedCells /\ <<u, k>> \in skipped

NodesEmbedded(u, c) ==
    \A n \in DOMAIN chunks_raw : \A i \in chunks_raw[n].sent :
        LET chunk == chunks_raw[n].chunks[i]
        IN  (Shows(u, chunk) /\ LastSent(n, i) /\ Handled(c, n, i))
                => \/ nodes[u][chunk.key].embeddings = chunk.hash
                   \/ PassedOver(u, chunk.key)

SoFar(t, u, c) ==
    /\ ChunksInStep(t, u) /\ BatchInStep(t, u) /\ NodesSent(t, u)
    /\ InOrder => AnswersInStep(c) /\ NodesEmbedded(u, c)

FollowInv(t, u, c) ==
    /\ EmbTypeInv
    /\ HandlesLast(t)
    /\ (failures = 0 /\ crashes = 0 /\ NothingReverted) => SoFar(t, u, c)

-----------------------------------------------------------------------------
(* What each of these is about: a step that leaves its variables alone     *)
(* leaves it alone.                                                        *)
LEMMA SameSent ==
    ASSUME chunks_raw' = chunks_raw
    PROVE  \A n, i : LastSent(n, i)' <=> LastSent(n, i)
  <1> PICK messages : messages = chunks_raw
    OBVIOUS
  <1>1. chunks_raw' = messages
    OBVIOUS
  <1> TAKE n, i
  <1> QED
    BY <1>1 DEF LastSent

LEMMA SameHandled ==
    ASSUME UNCHANGED <<answered, cb_pc, cb_left>>
    PROVE  \A c, n, i : Handled(c, n, i)' <=> Handled(c, n, i)
  <1> TAKE c, n, i
  <1> QED
    BY DEF Handled

LEMMA SameShown ==
    ASSUME nodes' = nodes
    PROVE  \A u, d : Shows(u, d)' <=> Shows(u, d)
  <1> TAKE u, d
  <1> QED
    BY DEF Shows

-----------------------------------------------------------------------------
(* What a step of the ingest task does to rows, messages and its locals.   *)

LEMMA RunChunks ==
    ASSUME UniqueKeys, TypeInv, NEW t \in Handlers, pc[t] # "idle", HandlesLast(t)
    PROVE  LET W == job[t].chunks
           IN  /\ \A i \in DOMAIN W : /\ W[i] \in Chunk /\ Current(W[i])
                                      /\ W[i].key \in Keys /\ W[i].hash \in Hashes
               /\ \A i, j \in DOMAIN W : W[i].key = W[j].key => i = j
               /\ \A d : Current(d) => \E i \in DOMAIN W : W[i] = d
               /\ work[t].to_process \subseteq DOMAIN W
               /\ work[t].left \subseteq DOMAIN W
               /\ ToPublish(t) \subseteq DOMAIN W
               /\ W \in Chunkings
  <1>1. /\ job[t] \in Job /\ work[t].to_process \subseteq DOMAIN job[t].chunks
        /\ work[t].left \subseteq DOMAIN job[t].chunks
    BY Running
  <1>2. job[t].chunks \in Seq(Chunk) /\ job[t].chunks \in Chunkings
    BY <1>1, JobFields DEF Chunkings
  <1>3. \A i \in DOMAIN job[t].chunks : job[t].chunks[i] \in Chunk
    BY <1>2
  <1>4. delivered # <<>> /\ delivered[Len(delivered)] = job[t]
    BY DEF HandlesLast, Last
  <1>5. \A d : Current(d) <=> \E i \in DOMAIN job[t].chunks : job[t].chunks[i] = d
    BY <1>4 DEF Current, InVersion
  <1>6. \A i, j \in DOMAIN job[t].chunks :
           job[t].chunks[i].key = job[t].chunks[j].key => i = j
    BY <1>2, ChunkingFields DEF UniqueKeys
  <1> QED
    BY <1>1, <1>2, <1>3, <1>5, <1>6 DEF Chunk, ToPublish

LEMMA StepNamesSame ==
    ASSUME TypeInv, NEW t \in Handlers, Step(t)
    PROVE  \A d : (Current(d)' <=> Current(d)) /\ (AskedFor(d)' <=> AskedFor(d))
  BY StepKeepsJob DEF Current, AskedFor, InVersion

(* A row comes from the batch of the transaction, or was there before. *)
LEMMA NewRow ==
    ASSUME UniqueKeys, TypeInv, NEW t \in Handlers, HandlesLast(t), Step(t),
           NEW d \in Chunk, OnRow(d)'
    PROVE  \/ OnRow(d)
           \/ Replace(t) /\ \E i \in work[t].to_process : job[t].chunks[i] = d
  <1> DEFINE W == job[t].chunks
  <1>1. /\ chunk_snapshot \in [Ids -> Row \cup {None}] /\ pc[t] # "idle"
    BY StepKeepsJob DEF TypeInv, TypeOK
  <1>2. /\ W \in Chunkings /\ work[t].to_process \subseteq DOMAIN W
        /\ \A i \in DOMAIN W : W[i] \in Chunk
    BY <1>1, RunChunks
  <1>3. PICK id \in Ids : /\ chunk_snapshot'[id] # None /\ KeyOf(id) = d.key
                          /\ chunk_snapshot'[id].hash = d.hash
    BY DEF OnRow, Recorded
  <1>4. ASSUME NEW ids, chunk_snapshot'[id] = Tombstoned(chunk_snapshot, ids)[id]
        PROVE  OnRow(d)
    BY <1>1, <1>3, <1>4, TombstonedRow DEF OnRow, Recorded
  <1>5. CASE chunk_snapshot' = chunk_snapshot
    BY <1>3, <1>5 DEF OnRow, Recorded
  <1>6. CASE MarkDeleted(t)
    BY <1>4, <1>5, <1>6 DEF MarkDeleted
  <1>7. ASSUME Replace(t),
               chunk_snapshot' = Replaced(chunk_snapshot, work[t].to_delete, W,
                                          work[t].to_process)
        PROVE  OnRow(d) \/ \E i \in work[t].to_process : W[i] = d
    <2> DEFINE rows == Tombstoned(chunk_snapshot, work[t].to_delete)
    <2> DEFINE same == {i \in work[t].to_process : IdOf(W[i]) = id}
    <2>1. chunk_snapshot'[id] =
             IF same = {} THEN rows[id]
             ELSE [hash |-> W[LastOf(same)].hash, tombstone |-> FALSE]
      BY <1>7 DEF Replaced, Upserted
    <2>2. CASE same = {}
      BY <1>4, <2>1, <2>2
    <2>3. CASE same # {}
      <3>1. LastOf(same) \in same
        <4>1. same \in SUBSET DOMAIN W
          BY <1>2
        <4> QED
          BY <1>2, <2>3, <4>1, ChunkingFields
      <3> DEFINE j == LastOf(same)
      <3> HIDE DEF rows, same
      <3>2. chunk_snapshot'[id].hash = W[j].hash
        BY <2>1, <2>3
      <3>3. j \in work[t].to_process /\ IdOf(W[j]) = id
        BY <3>1 DEF same
      <3>4. W[j].key = d.key /\ W[j].hash = d.hash /\ W[j] \in Chunk
        BY <1>2, <1>3, <3>2, <3>3 DEF IdOf, KeyOf
      <3>5. W[j] = d
        BY <3>4 DEF Chunk
      <3> QED
        BY <3>3, <3>5
    <2> QED
      BY <2>2, <2>3
  <1>8. CASE Replace(t)
    BY <1>5, <1>7, <1>8 DEF Replace
  <1>9. FirstDiff(t) \/ DeleteOrphans(t) \/ SecondDiff(t) \/ CacheChunks(t)
           => UNCHANGED chunk_snapshot
    BY Zenon DEF FirstDiff, DeleteOrphans, SecondDiff, CacheChunks, pgVars
  <1>10. StoreNode(t) \/ StoreLink(t) \/ Publish(t) => UNCHANGED chunk_snapshot
    BY Zenon DEF StoreNode, StoreLink, Publish, pgVars
  <1>11. StoreMetadata(t) \/ DeleteNodes(t) \/ DeleteMetadata(t) => UNCHANGED chunk_snapshot
    BY Zenon DEF StoreMetadata, DeleteNodes, DeleteMetadata, pgVars
  <1> QED
    BY <1>5, <1>6, <1>8, <1>9, <1>10, <1>11, Zenon DEF Step

(* The chunks of the batch, and those of it that are clean, are set once.  *)
LEMMA LocalsKept ==
    ASSUME TypeInv, NEW t \in Handlers, Step(t), Smooth(t), pc'[t] # "idle"
    PROVE  /\ ~FirstDiff(t) => work'[t].clean = work[t].clean
           /\ ~SecondDiff(t) => work'[t].to_process = work[t].to_process
  <1> DEFINE w == work[t]
  <1> DEFINE Same == w.clean = work'[t].clean /\ w.to_process = work'[t].to_process
  <1>1. /\ w \in Work /\ work \in [Handlers -> Work] /\ pc[t] # "idle"
        /\ pc \in [Handlers -> PCs]
    BY StepKeepsJob DEF TypeInv, TypeOK
  <1>2. \A v : Remember(t, v) => work'[t] = v
    BY <1>1 DEF Remember
  <1>3. ASSUME FirstDiff(t) PROVE work'[t].to_process = w.to_process
    <2>1. PICK c, g : Remember(t, [w EXCEPT !.clean = c, !.to_mark = g, !.orphans = g])
      BY <1>3, Zenon DEF FirstDiff, Smooth, Calls
    <2> QED
      BY <1>1, <1>2, <2>1 DEF Work
  <1>4. ASSUME SecondDiff(t) PROVE work'[t].clean = w.clean
    <2>1. PICK b, g : Remember(t, [w EXCEPT !.to_process = b, !.to_delete = g])
      BY <1>4, Zenon DEF SecondDiff
    <2> QED
      BY <1>1, <1>2, <2>1 DEF Work
  <1>5. MarkDeleted(t) => Same
    <2>1. ASSUME MarkDeleted(t)
          PROVE  \E m : Remember(t, [w EXCEPT !.to_mark = m])
      BY <2>1, Zenon DEF MarkDeleted
    <2>2. \A m : LET v == [w EXCEPT !.to_mark = m]
                 IN  v.clean = w.clean /\ v.to_process = w.to_process
      BY <1>1 DEF Work
    <2> QED
      BY <1>2, <2>1, <2>2, Zenon
  <1>6. ASSUME CacheChunks(t) PROVE Same
    <2>1. PICK b, l : Remember(t, [w EXCEPT !.left = b, !.links = l])
      BY <1>6, Zenon DEF CacheChunks
    <2> QED
      BY <1>1, <1>2, <2>1 DEF Work
  <1>7. StoreNode(t) \/ Publish(t) => Same
    <2>1. ASSUME StoreNode(t) \/ Publish(t)
          PROVE  \E b : Remember(t, [w EXCEPT !.left = b])
      BY <2>1, Zenon DEF StoreNode, Publish
    <2>2. \A b : LET v == [w EXCEPT !.left = b]
                 IN  v.clean = w.clean /\ v.to_process = w.to_process
      BY <1>1 DEF Work
    <2> QED
      BY <1>2, <2>1, <2>2, Zenon
  <1>8. StoreLink(t) => Same
    <2>1. ASSUME StoreLink(t)
          PROVE  \E l : Remember(t, [w EXCEPT !.links = l])
      BY <2>1, Zenon DEF StoreLink
    <2>2. \A l : LET v == [w EXCEPT !.links = l]
                 IN  v.clean = w.clean /\ v.to_process = w.to_process
      BY <1>1 DEF Work
    <2> QED
      BY <1>2, <2>1, <2>2, Zenon
  <1>9. DeleteOrphans(t) \/ Replace(t) => Same
    BY DEF DeleteOrphans, Replace
  <1>10. ~StoreMetadata(t) /\ ~DeleteMetadata(t)
    BY <1>1 DEF StoreMetadata, DeleteMetadata, Finish, Goto
  <1>11. DeleteNodes(t) => Same
    BY <1>1 DEF DeleteNodes, Finish, Goto
  <1> QED
    BY <1>3, <1>4, <1>5, <1>6, <1>7, <1>8, <1>9, <1>10, <1>11, Zenon DEF Step

LEMMA StoreLinkGoes ==
    ASSUME TypeInv, NEW t \in Handlers, StoreLink(t)
    PROVE  /\ work'[t].left = work[t].left
           /\ \/ pc'[t] = "relate"
              \/ pc'[t] = IF work[t].left # {} THEN "publish" ELSE "metadata"
  <1>1. PICK link :
          /\ Remember(t, [work[t] EXCEPT !.links = @ \ {link}])
          /\ Goto(t, IF work[t].links # {link} THEN "relate"
                     ELSE IF work[t].left # {} THEN "publish" ELSE "metadata")
    BY Zenon DEF StoreLink
  <1>2. /\ work[t] \in Work /\ work \in [Handlers -> Work] /\ pc \in [Handlers -> PCs]
    BY DEF TypeInv, TypeOK
  <1>3. work'[t].left = work[t].left
    BY <1>1, <1>2 DEF Remember, Work
  <1>4. pc'[t] = IF work[t].links # {link} THEN "relate"
                 ELSE IF work[t].left # {} THEN "publish" ELSE "metadata"
    BY <1>1, <1>2 DEF Goto
  <1> QED
    BY <1>3, <1>4

(* A batch goes out as one more message, after those sent before. *)
LEMMA PublishEffect ==
    ASSUME TypeInv, NEW t \in Handlers, Publish(t), Smooth(t), ProducerReady
    PROVE  \E sent \in SUBSET work[t].left :
              /\ DOMAIN chunks_raw' = DOMAIN chunks_raw \cup {Len(chunks_raw) + 1}
              /\ \A n \in DOMAIN chunks_raw : chunks_raw'[n] = chunks_raw[n]
              /\ chunks_raw'[Len(chunks_raw) + 1].sent = sent
              /\ chunks_raw'[Len(chunks_raw) + 1].chunks = job[t].chunks
              /\ work'[t].left = work[t].left \ sent
              /\ pc'[t] = IF work[t].left = sent THEN "metadata" ELSE "publish"
  <1> DEFINE sent == NextBatch(work[t].left)
  <1> DEFINE message == [user |-> job[t].user, chunks |-> job[t].chunks, sent |-> sent]
  <1>1. /\ chunks_raw' = Append(chunks_raw, message)
        /\ Remember(t, [work[t] EXCEPT !.left = @ \ sent])
        /\ Goto(t, IF work[t].left = sent THEN "metadata" ELSE "publish")
    BY DEF Publish, Smooth, Calls
  <1>2. /\ work[t] \in Work /\ work \in [Handlers -> Work] /\ pc \in [Handlers -> PCs]
        /\ chunks_raw \in Seq(Message)
    BY DEF TypeInv, TypeOK
  <1>3. sent \in SUBSET work[t].left
    BY DEF NextBatch
  <1>4. message.sent = sent /\ message.chunks = job[t].chunks
    OBVIOUS
  <1> HIDE DEF sent, message
  <1>5. work'[t].left = work[t].left \ sent
    BY <1>1, <1>2 DEF Remember, Work
  <1>6. pc'[t] = IF work[t].left = sent THEN "metadata" ELSE "publish"
    BY <1>1, <1>2 DEF Goto
  <1>7. /\ DOMAIN chunks_raw' = DOMAIN chunks_raw \cup {Len(chunks_raw) + 1}
        /\ \A n \in DOMAIN chunks_raw : chunks_raw'[n] = chunks_raw[n]
        /\ chunks_raw'[Len(chunks_raw) + 1] = message
    <2>1. /\ DOMAIN chunks_raw = 1 .. Len(chunks_raw) /\ Len(chunks_raw) \in Nat
          /\ DOMAIN chunks_raw' = 1 .. Len(chunks_raw) + 1
      BY <1>1, <1>2
    <2>2. /\ \A n \in 1 .. Len(chunks_raw) : chunks_raw'[n] = chunks_raw[n]
          /\ chunks_raw'[Len(chunks_raw) + 1] = message
      BY <1>1, <1>2
    <2> QED
      BY <2>1, <2>2
  <1> QED
    BY <1>3, <1>4, <1>5, <1>6, <1>7

LEMMA OnlyPublishSends ==
    ASSUME NEW t \in Handlers, Step(t), ~Publish(t)
    PROVE  UNCHANGED chunks_raw
  <1>1. FirstDiff(t) \/ MarkDeleted(t) \/ DeleteOrphans(t) => UNCHANGED chunks_raw
    BY Zenon DEF FirstDiff, MarkDeleted, DeleteOrphans
  <1>2. SecondDiff(t) \/ Replace(t) \/ CacheChunks(t) => UNCHANGED chunks_raw
    BY Zenon DEF SecondDiff, Replace, CacheChunks
  <1>3. StoreNode(t) \/ StoreLink(t) \/ StoreMetadata(t) => UNCHANGED chunks_raw
    BY Zenon DEF StoreNode, StoreLink, StoreMetadata
  <1>4. DeleteNodes(t) \/ DeleteMetadata(t) => UNCHANGED chunks_raw
    BY Zenon DEF DeleteNodes, DeleteMetadata
  <1> QED
    BY <1>1, <1>2, <1>3, <1>4, Zenon DEF Step

(* What is sent after a step was sent before or is in the batch's message. *)
LEMMA StepSent ==
    ASSUME TypeInv, NEW t \in Handlers, Step(t), Smooth(t), ProducerReady
    PROVE  /\ \A d : SentChunk(d) => SentChunk(d)'
           /\ \A d : SentChunk(d)' =>
                 \/ SentChunk(d)
                 \/ pc[t] = "publish" /\ \E i \in work[t].left : job[t].chunks[i] = d
           /\ pc[t] # "publish" => UNCHANGED chunks_raw
  <1>1. CASE UNCHANGED chunks_raw
    BY <1>1, Zenon DEF SentChunk
  <1>2. CASE Publish(t)
    <2>1. PICK sent \in SUBSET work[t].left :
              /\ DOMAIN chunks_raw' = DOMAIN chunks_raw \cup {Len(chunks_raw) + 1}
              /\ \A n \in DOMAIN chunks_raw : chunks_raw'[n] = chunks_raw[n]
              /\ chunks_raw'[Len(chunks_raw) + 1].sent = sent
              /\ chunks_raw'[Len(chunks_raw) + 1].chunks = job[t].chunks
      BY <1>2, PublishEffect
    <2>2. pc[t] = "publish"
      BY <1>2 DEF Publish
    <2> QED
      BY <2>1, <2>2 DEF SentChunk
  <1> QED
    BY <1>1, <1>2, OnlyPublishSends DEF Publish

(* What a run owes is sent before it ends. *)
LEMMA OwedSettled ==
    ASSUME NEW t, Handlers = {t}, NEW u, Users = {u}, TypeInv, HandlesLast(t),
           ProducerReady, BatchInStep(t, u), Step(t), Smooth(t), NEW d, Owed(t, d)
    PROVE  Owed(t, d)' \/ (Publish(t) /\ SentChunk(d)')
  <1> DEFINE W == job[t].chunks
  <1>1. /\ t \in Handlers /\ pc[t] \in {"cache", "store", "relate", "publish"}
        /\ pc[t] # "first_diff" /\ pc[t] # "second_diff"
    BY DEF Owed
  <1>2. pc'[t] # "idle" => job' = job
    BY <1>1, StepKeepsJob
  <1>3. pc'[t] # "idle" => /\ work'[t].clean = work[t].clean
                           /\ work'[t].to_process = work[t].to_process
    <2>1. ~FirstDiff(t) /\ ~SecondDiff(t)
      BY <1>1, Zenon DEF FirstDiff, SecondDiff
    <2> QED
      BY <1>1, <2>1, LocalsKept
  <1>4. pc'[t] # "idle" => ToPublish(t)' = ToPublish(t)
    BY <1>3 DEF ToPublish
  <1>5. CASE pc[t] = "cache"
    <2>1. CacheChunks(t)
      BY <1>5, Zenon DEF Step, FirstDiff, MarkDeleted, DeleteOrphans, SecondDiff, Replace,
               StoreNode, StoreLink, Publish, StoreMetadata, DeleteNodes, DeleteMetadata
    <2>2. PICK i \in ToPublish(t) : W[i] = d
      BY <1>5 DEF Owed
    <2>3. pc'[t] = "store"
      BY <2>1, <2>2, <1>1, CacheChunksEffect DEF ToPublish
    <2> QED
      BY <2>2, <2>3, <1>2, <1>4 DEF Owed
  <1>6. CASE pc[t] = "store"
    <2>1. StoreNode(t)
      BY <1>6, Zenon DEF Step, FirstDiff, MarkDeleted, DeleteOrphans, SecondDiff, Replace,
               CacheChunks, StoreLink, Publish, StoreMetadata, DeleteNodes, DeleteMetadata
    <2>2. PICK i \in ToPublish(t) : W[i] = d
      BY <1>6 DEF Owed
    <2>3. PICK j \in work[t].left :
             /\ work'[t].left = IF work[t].left = {j} THEN ToPublish(t)
                                ELSE work[t].left \ {j}
             /\ pc'[t] = IF work[t].left = {j} THEN AfterStore(t) ELSE "store"
      BY <2>1, <1>1, StoreNodeEffect
    <2>4. \/ pc'[t] \in {"store", "relate"}
          \/ pc'[t] = "publish" /\ work'[t].left = ToPublish(t)
      BY <2>2, <2>3 DEF AfterStore
    <2> QED
      BY <2>2, <2>4, <1>2, <1>4 DEF Owed
  <1>7. CASE pc[t] = "relate"
    <2>1. StoreLink(t)
      BY <1>7, Zenon DEF Step, FirstDiff, MarkDeleted, DeleteOrphans, SecondDiff, Replace,
               CacheChunks, StoreNode, Publish, StoreMetadata, DeleteNodes, DeleteMetadata
    <2>2. PICK i \in ToPublish(t) : W[i] = d
      BY <1>7 DEF Owed
    <2>3. work[t].left = ToPublish(t)
      BY <1>7 DEF BatchInStep
    <2>4. \/ pc'[t] = "relate"
          \/ pc'[t] = "publish" /\ work'[t].left = ToPublish(t)
      BY <2>1, <2>2, <2>3, <1>1, StoreLinkGoes
    <2> QED
      BY <2>2, <2>4, <1>2, <1>4 DEF Owed
  <1>8. CASE pc[t] = "publish"
    <2>1. Publish(t)
      BY <1>8, Zenon DEF Step, FirstDiff, MarkDeleted, DeleteOrphans, SecondDiff, Replace,
               CacheChunks, StoreNode, StoreLink, StoreMetadata, DeleteNodes, DeleteMetadata
    <2>2. PICK i \in work[t].left : W[i] = d
      BY <1>8 DEF Owed
    <2>3. PICK sent \in SUBSET work[t].left :
              /\ DOMAIN chunks_raw' = DOMAIN chunks_raw \cup {Len(chunks_raw) + 1}
              /\ chunks_raw'[Len(chunks_raw) + 1].sent = sent
              /\ chunks_raw'[Len(chunks_raw) + 1].chunks = W
              /\ work'[t].left = work[t].left \ sent
              /\ pc'[t] = IF work[t].left = sent THEN "metadata" ELSE "publish"
      BY <2>1, <1>1, PublishEffect
    <2>4. CASE i \in sent
      BY <2>1, <2>2, <2>3, <2>4 DEF SentChunk
    <2>5. CASE i \notin sent
      <3>1. pc'[t] = "publish" /\ i \in work'[t].left
        BY <2>2, <2>3, <2>5
      <3> QED
        BY <2>2, <3>1, <1>2 DEF Owed
    <2> QED
      BY <2>4, <2>5
  <1> QED
    BY <1>1, <1>5, <1>6, <1>7, <1>8

(* Only these steps of a run write nodes. *)
LEMMA StepNodes ==
    ASSUME NEW t, Handlers = {t}, NEW u, Users = {u}, TypeInv, HandlesLast(t),
           Step(t), Smooth(t), NEW k \in Keys
    PROVE  \/ nodes'[u][k] = nodes[u][k]
           \/ pc[t] = "delete_orphans" /\ k \in work[t].orphans /\ nodes'[u][k] = None
           \/ pc[t] = "delete_nodes" /\ nodes'[u][k] = None
           \/ StoreLink(t) /\ nodes[u][k] = None /\ nodes'[u][k] = Phantom
           \/ /\ StoreNode(t)
              /\ \E i \in work[t].left :
                    /\ k = job[t].chunks[i].key
                    /\ nodes'[u][k] \in Node
                    /\ nodes'[u][k].content = job[t].chunks[i].hash
                    /\ nodes[u][k] # None =>
                          nodes'[u][k].embeddings = nodes[u][k].embeddings
  <1>1. /\ t \in Handlers /\ pc[t] # "idle"
    BY StepKeepsJob
  <1>2. nodes[u] \in [Keys -> Node \cup {None}]
    BY <1>1, OnlyUser
  <1>3. CASE FirstDiff(t)
    BY <1>1, <1>3, FirstDiffEffect
  <1>4. CASE MarkDeleted(t)
    BY <1>1, <1>4, MarkDeletedEffect
  <1>5. CASE DeleteOrphans(t)
    <2>1. pc[t] = "delete_orphans"
      BY <1>5 DEF DeleteOrphans
    <2> QED
      BY <1>1, <1>5, <2>1, DeleteOrphansEffect
  <1>6. CASE SecondDiff(t)
    BY <1>1, <1>6, SecondDiffEffect
  <1>7. CASE Replace(t)
    BY <1>1, <1>7, ReplaceEffect
  <1>8. CASE CacheChunks(t)
    BY <1>1, <1>8, CacheChunksEffect
  <1>9. CASE StoreNode(t)
    <2>1. PICK i \in work[t].left : nodes'[u] = MergeNode(nodes[u], job[t].chunks[i])
      BY <1>1, <1>9, StoreNodeEffect
    <2>2. nodes'[u][k] =
             IF k = job[t].chunks[i].key
             THEN [content |-> job[t].chunks[i].hash,
                   embeddings |-> IF nodes[u][k] = None THEN None ELSE nodes[u][k].embeddings]
             ELSE nodes[u][k]
      BY <1>2, <2>1 DEF MergeNode
    <2>3. CASE k = job[t].chunks[i].key
      <3> DEFINE vector == IF nodes[u][k] = None THEN None ELSE nodes[u][k].embeddings
      <3>1. nodes'[u][k] = [content |-> job[t].chunks[i].hash, embeddings |-> vector]
        BY <2>2, <2>3
      <3>2. vector \in Hashes \cup {None} /\ job[t].chunks[i].hash \in Hashes
        BY <1>1, <1>2, <2>1, Running, JobFields DEF Node
      <3>3. nodes[u][k] # None => vector = nodes[u][k].embeddings
        OBVIOUS
      <3> HIDE DEF vector
      <3>4. nodes'[u][k] \in Node /\ nodes'[u][k].content = job[t].chunks[i].hash
        BY <3>1, <3>2 DEF Node
      <3>5. nodes[u][k] # None => nodes'[u][k].embeddings = nodes[u][k].embeddings
        BY <3>1, <3>3
      <3> QED
        BY Zenon, <1>9, <2>3, <3>4, <3>5
    <2>4. CASE k # job[t].chunks[i].key
      BY <2>2, <2>4
    <2> QED
      BY <2>3, <2>4
  <1>10. CASE StoreLink(t)
    <2>1. PICK link : nodes'[u] = MergeEnds(nodes[u], link)
      BY <1>1, <1>10, StoreLinkEffect
    <2>2. nodes'[u][k] = IF k \in {link[1], link[2]} /\ nodes[u][k] = None
                         THEN Phantom ELSE nodes[u][k]
      BY <2>1 DEF MergeEnds
    <2> QED
      BY <1>10, <2>2
  <1>11. CASE Publish(t) \/ StoreMetadata(t) \/ DeleteMetadata(t)
    BY <1>1, <1>11, LastStepsEffect
  <1>12. CASE DeleteNodes(t)
    <2>1. pc[t] = "delete_nodes"
      BY <1>12 DEF DeleteNodes
    <2> QED
      BY <1>1, <1>12, <2>1, LastStepsEffect
  <1> QED
    BY <1>3, <1>4, <1>5, <1>6, <1>7, <1>8, <1>9, <1>10, <1>11, <1>12 DEF Step

(* A node with content that is new or other than before was just stored. *)
LEMMA StepStoresNode ==
    ASSUME NEW t, Handlers = {t}, NEW u, Users = {u}, TypeInv, HandlesLast(t),
           Step(t), Smooth(t), NEW k \in Keys,
           nodes'[u][k] # nodes[u][k], nodes'[u][k] # None, nodes'[u][k] # Phantom
    PROVE  \E j \in work[t].left :
              /\ k = job[t].chunks[j].key
              /\ nodes'[u][k].content = job[t].chunks[j].hash
              /\ nodes[u][k] # None => nodes'[u][k].embeddings = nodes[u][k].embeddings
  BY StepNodes

(* A node that shows a chunk of the running version goes on showing it. *)
LEMMA ShowsKept ==
    ASSUME UniqueKeys, NEW t, Handlers = {t}, NEW u, Users = {u}, TypeInv, HandlesLast(t),
           BatchInStep(t, u), Step(t), Smooth(t), NEW d, Current(d), Shows(u, d)
    PROVE  Shows(u, d)'
  <1> DEFINE W == job[t].chunks
  <1>1. t \in Handlers /\ pc[t] # "idle"
    BY StepKeepsJob
  <1>2. PICK i \in DOMAIN W : W[i] = d
    BY <1>1, RunChunks
  <1>3. /\ d.key \in Keys /\ d.hash \in Hashes /\ d.key \in KeysOf(W)
        /\ work[t].left \subseteq DOMAIN W
        /\ \A j \in DOMAIN W : W[j].key = d.key => W[j] = d
    BY <1>1, <1>2, RunChunks DEF KeysOf
  <1>4. PICK k \in Keys : k = d.key
    BY <1>3
  <1>5. pc[t] = "delete_orphans" => k \notin work[t].orphans
    BY <1>3, <1>4 DEF BatchInStep
  <1>6. pc[t] # "delete_nodes"
    <2>1. job[t] \in Job
      BY <1>1, Running
    <2>2. job[t].op = "delete" => W = <<>>
      BY <2>1 DEF Job
    <2> QED
      BY <1>1, <1>2, <2>2 DEF HandlesLast
  <1>7. nodes[u][k] # None /\ nodes[u][k] \in Node /\ nodes[u][k].content = d.hash
    BY <1>1, <1>4, OnlyUser DEF Shows
  <1>8. CASE nodes'[u][k] = nodes[u][k]
    BY <1>4, <1>7, <1>8 DEF Shows
  <1>9. ASSUME NEW j \in work[t].left, k = W[j].key, nodes'[u][k] \in Node,
               nodes'[u][k].content = W[j].hash
        PROVE  Shows(u, d)'
    <2>1. W[j] = d
      BY <1>3, <1>4, <1>9
    <2> QED
      BY <1>4, <1>9, <2>1, ConstantsAssumption DEF Shows
  <1> QED
    BY <1>5, <1>6, <1>7, <1>8, <1>9, StepNodes

LEMMA StepChunksInStep ==
    ASSUME UniqueKeys, NEW t, Handlers = {t}, NEW u, Users = {u}, TypeInv, HandlesLast(t),
           ProducerReady, ChunksInStep(t, u), BatchInStep(t, u), Step(t), Smooth(t)
    PROVE  ChunksInStep(t, u)'
  <1> DEFINE W == job[t].chunks
  <1>1. t \in Handlers /\ pc[t] # "idle"
    BY StepKeepsJob
  <1>2. /\ \A i \in DOMAIN W : W[i] \in Chunk /\ Current(W[i])
        /\ \A i, j \in DOMAIN W : W[i].key = W[j].key => i = j
        /\ work[t].to_process \subseteq DOMAIN W /\ work[t].left \subseteq DOMAIN W
    BY <1>1, RunChunks
  <1>3. \A d : (Current(d)' <=> Current(d)) /\ (AskedFor(d)' <=> AskedFor(d))
    BY <1>1, StepNamesSame
  <1>4. /\ \A d : SentChunk(d) => SentChunk(d)'
        /\ \A d : SentChunk(d)' =>
              \/ SentChunk(d)
              \/ pc[t] = "publish" /\ \E i \in work[t].left : W[i] = d
    BY <1>1, StepSent
  <1>5. \A d \in Chunk : OnRow(d)' =>
           \/ OnRow(d)
           \/ Replace(t) /\ \E i \in work[t].to_process : W[i] = d
    BY <1>1, NewRow
  <1>6. \A d \in Chunk : Current(d) => AskedFor(d)
    <2>1. delivered \in Seq(Job)
      BY DEF TypeInv, TypeOK
    <2>2. delivered # <<>> => Len(delivered) \in DOMAIN delivered
      BY <2>1
    <2> QED
      BY <2>2 DEF Current, AskedFor
  <1>7. ASSUME NEW d \in Chunk, SentChunk(d)' \/ OnRow(d)'
        PROVE  AskedFor(d)'
    BY <1>2, <1>3, <1>4, <1>5, <1>6, <1>7 DEF ChunksInStep
  <1>8. ASSUME NEW d \in Chunk, SentChunk(d)', Current(d)'
        PROVE  Shows(u, d)'
    <2>1. Current(d)
      BY <1>3, <1>8
    <2>2. CASE SentChunk(d)
      BY <2>1, <2>2, ShowsKept DEF ChunksInStep
    <2>3. ASSUME pc[t] = "publish", NEW i \in work[t].left, W[i] = d
          PROVE  Shows(u, d)'
      BY <2>1, <2>3, ShowsKept DEF BatchInStep
    <2> QED
      BY <1>4, <1>8, <2>2, <2>3
  <1>9. ASSUME NEW d \in Chunk, OnRow(d)', Current(d)'
        PROVE  SentChunk(d)' \/ Owed(t, d)'
    <2>1. Current(d)
      BY <1>3, <1>9
    <2>2. CASE OnRow(d)
      <3>1. SentChunk(d) \/ Owed(t, d)
        BY <2>1, <2>2 DEF ChunksInStep
      <3> QED
        BY <1>4, <3>1, OwedSettled
    <2>3. ASSUME Replace(t), NEW i \in work[t].to_process, W[i] = d
          PROVE  SentChunk(d)' \/ Owed(t, d)'
      <3>1. pc[t] = "replace" /\ pc'[t] = "cache" /\ UNCHANGED work
        BY <1>1, <2>3, ReplaceEffect DEF Replace
      <3>2. CASE i \in work[t].clean
        <4>1. SentChunk(W[i])
          BY <3>1, <3>2 DEF BatchInStep
        <4> QED
          BY <1>4, <2>3, <4>1
      <3>3. CASE i \notin work[t].clean
        <4>1. job' = job
          BY <1>1, <3>1, StepKeepsJob
        <4>2. i \in ToPublish(t)'
          BY <2>3, <3>1, <3>3 DEF ToPublish
        <4> QED
          BY <2>3, <3>1, <4>1, <4>2 DEF Owed
      <3> QED
        BY <3>2, <3>3
    <2> QED
      BY <1>5, <1>9, <2>2, <2>3
  <1> QED
    BY <1>7, <1>8, <1>9 DEF ChunksInStep

(* The first diff calls a chunk clean only when a row has its content. *)
LEMMA CleanOnRow ==
    ASSUME UniqueKeys, TypeInv, NEW t \in Handlers, HandlesLast(t), FirstDiff(t), Smooth(t)
    PROVE  \A i \in work'[t].clean : i \in DOMAIN job[t].chunks /\ OnRow(job[t].chunks[i])
  <1> DEFINE W == job[t].chunks
  <1>1. PICK m, g :
           /\ m \in SnapshotMaps(chunk_snapshot)
           /\ Remember(t, [work[t] EXCEPT !.clean = CleanChunks(W, chunk_snapshot, m),
                                          !.to_mark = g, !.orphans = g])
    BY Zenon DEF FirstDiff, Smooth, Calls
  <1>2. work[t] \in Work /\ work \in [Handlers -> Work]
    BY DEF TypeInv, TypeOK
  <1> DEFINE clean == CleanChunks(W, chunk_snapshot, m)
  <1>3. work'[t].clean = clean
    <2> HIDE DEF clean
    <2> QED
      BY <1>1, <1>2 DEF Remember, Work, clean
  <1>4. ASSUME NEW i \in clean PROVE i \in DOMAIN W /\ OnRow(W[i])
    <2>1. /\ i \in DOMAIN W /\ W[i].key \in DOMAIN m
          /\ chunk_snapshot[m[W[i].key]].hash = W[i].hash
      BY <1>4 DEF CleanChunks
    <2>2. m[W[i].key] \in Recorded(chunk_snapshot) /\ KeyOf(m[W[i].key]) = W[i].key
      BY <1>1, <2>1 DEF SnapshotMaps, DiffRows
    <2> QED
      BY <2>1, <2>2 DEF OnRow
  <1> QED
    BY <1>3, <1>4

LEMMA StepBatchInStep ==
    ASSUME UniqueKeys, NEW t, Handlers = {t}, NEW u, Users = {u}, TypeInv, HandlesLast(t),
           ProducerReady, ChunksInStep(t, u), BatchInStep(t, u), Step(t), Smooth(t)
    PROVE  BatchInStep(t, u)'
  <1> DEFINE W == job[t].chunks
  <1> DEFINE batch == work[t].to_process
  <1>1. t \in Handlers /\ pc[t] # "idle"
    BY StepKeepsJob
  <1>2. /\ \A i \in DOMAIN W : W[i] \in Chunk /\ Current(W[i]) /\ W[i].key \in Keys
        /\ batch \subseteq DOMAIN W /\ work[t].left \subseteq DOMAIN W
        /\ ToPublish(t) \subseteq batch
    BY <1>1, RunChunks DEF ToPublish
  <1>3. CASE pc'[t] \in {"idle", "first_diff", "metadata", "delete_nodes", "delete_metadata"}
    BY <1>3 DEF BatchInStep
  <1> SUFFICES ASSUME pc'[t] \notin {"idle", "first_diff", "metadata", "delete_nodes",
                                     "delete_metadata"}
               PROVE  BatchInStep(t, u)'
    BY <1>3
  <1>4. UNCHANGED job
    BY <1>1, StepKeepsJob
  <1> PICK V : V = job[t].chunks /\ V = job'[t].chunks
    BY <1>4
  <1>5. /\ ~FirstDiff(t) => work'[t].clean = work[t].clean
        /\ ~SecondDiff(t) => work'[t].to_process = batch
    BY <1>1, LocalsKept
  <1>6. \A d : SentChunk(d) => SentChunk(d)'
    BY <1>1, StepSent
  <1>7. \A i \in work'[t].clean : SentChunk(V[i])'
    <2>1. CASE FirstDiff(t)
      <3>1. \A i \in work'[t].clean : i \in DOMAIN V /\ OnRow(V[i])
        BY <1>1, <2>1, CleanOnRow
      <3>2. pc[t] = "first_diff"
        BY <2>1, Zenon DEF FirstDiff
      <3>3. \A d : ~Owed(t, d)
        BY <3>2 DEF Owed
      <3>4. \A i \in work'[t].clean : SentChunk(V[i])
        BY <1>2, <3>1, <3>3 DEF ChunksInStep
      <3> QED
        BY <1>6, <3>4
    <2>2. CASE ~FirstDiff(t)
      <3>1. pc[t] \in {"mark", "delete_orphans", "second_diff", "replace", "cache", "store",
                       "relate", "publish"}
        <4>1. pc[t] \in PCs
          BY <1>1 DEF TypeInv, TypeOK
        <4>2. pc[t] # "first_diff"
          BY <2>2, Zenon DEF Step, MarkDeleted, DeleteOrphans, SecondDiff, Replace, CacheChunks,
                   StoreNode, StoreLink, Publish, StoreMetadata, DeleteNodes, DeleteMetadata
        <4>3. pc[t] \notin {"metadata", "delete_nodes", "delete_metadata"}
          <5>1. ~StoreMetadata(t) /\ ~DeleteMetadata(t)
            BY <1>1, LastStepsEffect
          <5>2. ~DeleteNodes(t)
            BY <1>1, LastStepsEffect
          <5> QED
            BY <5>1, <5>2, Zenon DEF Step, FirstDiff, MarkDeleted, DeleteOrphans, SecondDiff,
                     Replace, CacheChunks, StoreNode, StoreLink, Publish
        <4> QED
          BY <1>1, <4>1, <4>2, <4>3 DEF PCs
      <3>2. \A i \in work[t].clean : SentChunk(V[i])
        BY <3>1 DEF BatchInStep
      <3> QED
        BY <1>5, <1>6, <2>2, <3>2
    <2> QED
      BY <2>1, <2>2
  <1>8. CASE FirstDiff(t)
    <2>1. /\ pc'[t] = IF RecordedKeys \ KeysOf(V) = {} THEN AfterFirstDiff(t) ELSE "mark"
          /\ work'[t].orphans = RecordedKeys \ KeysOf(V)
      BY <1>1, <1>8, FirstDiffEffect
    <2>2. pc'[t] \in {"mark", "second_diff", "metadata"}
      BY <2>1 DEF AfterFirstDiff
    <2> QED
      BY <1>7, <2>1, <2>2 DEF BatchInStep
  <1>9. CASE MarkDeleted(t)
    <2>1. pc[t] = "mark" /\ pc'[t] \in {"mark", "delete_orphans"}
          /\ work'[t].orphans = work[t].orphans
      BY <1>1, <1>9, MarkDeletedEffect DEF MarkDeleted
    <2> QED
      BY <1>7, <2>1 DEF BatchInStep
  <1>10. CASE DeleteOrphans(t)
    <2>1. pc'[t] \in {"second_diff", "metadata"}
      BY <1>1, <1>10, DeleteOrphansEffect DEF AfterFirstDiff
    <2> QED
      BY <1>7, <2>1 DEF BatchInStep
  <1>11. CASE SecondDiff(t)
    <2>1. pc'[t] \in {"replace", "metadata"}
      BY <1>1, <1>11, SecondDiffEffect
    <2> QED
      BY <1>7, <2>1 DEF BatchInStep
  <1>12. CASE Replace(t)
    <2>1. pc'[t] = "cache"
      BY <1>1, <1>12, ReplaceEffect
    <2> QED
      BY <1>7, <2>1 DEF BatchInStep
  <1>13. CASE CacheChunks(t)
    <2>1. /\ pc'[t] \in {"store", "metadata"}
          /\ work'[t].left = batch /\ work'[t].to_process = batch
      BY <1>1, <1>13, CacheChunksEffect
    <2> QED
      BY <1>7, <2>1 DEF BatchInStep
  <1>14. CASE StoreNode(t)
    <2>1. PICK i \in work[t].left :
             /\ nodes'[u] = MergeNode(nodes[u], job[t].chunks[i])
             /\ work'[t].left = IF work[t].left = {i} THEN ToPublish(t)
                                ELSE work[t].left \ {i}
             /\ pc'[t] = IF work[t].left = {i} THEN AfterStore(t) ELSE "store"
      BY <1>1, <1>14, StoreNodeEffect
    <2>2. /\ work[t].left \subseteq batch
          /\ \A j \in batch \ work[t].left : Shows(u, V[j])
      BY <1>14 DEF BatchInStep, StoreNode
    <2>3. work'[t].to_process = batch /\ work'[t].links = work[t].links /\ ToPublish(t)' = ToPublish(t)
      <3>1. ~FirstDiff(t) /\ ~SecondDiff(t)
        BY <1>14, Zenon DEF FirstDiff, SecondDiff, StoreNode
      <3>2. work'[t].links = work[t].links
        BY <1>1, <1>14, StoreNodeEffect
      <3> QED
        BY <1>5, <3>1, <3>2 DEF ToPublish
    <2>4. ASSUME NEW j \in batch \ work[t].left PROVE Shows(u, V[j])'
      BY <1>2, <2>2, ShowsKept
    <2>5. Shows(u, V[i])'
      <3>1. /\ V[i].key \in Keys /\ V[i].hash \in Hashes
            /\ nodes[u] \in [Keys -> Node \cup {None}]
        BY <1>1, <2>1, RunChunks, OnlyUser
      <3>2. nodes'[u][V[i].key] =
               [content |-> V[i].hash,
                embeddings |-> IF nodes[u][V[i].key] = None THEN None
                               ELSE nodes[u][V[i].key].embeddings]
        <4>1. nodes'[u] = MergeNode(nodes[u], V[i])
          BY <2>1
        <4> QED
          BY <3>1, <4>1 DEF MergeNode
      <3> DEFINE vector == IF nodes[u][V[i].key] = None THEN None
                           ELSE nodes[u][V[i].key].embeddings
                 n == nodes'[u][V[i].key]
      <3>3. vector \in Hashes \cup {None}
        BY <3>1 DEF Node
      <3>4. n = [content |-> V[i].hash, embeddings |-> vector]
        BY <3>2
      <3> HIDE DEF vector, n
      <3>5. n \in Node /\ n.content = V[i].hash
        BY <3>1, <3>3, <3>4 DEF Node
      <3>6. n # None
        BY <3>5, ConstantsAssumption
      <3> QED
        BY Zenon, <3>5, <3>6 DEF Shows, n
    <2>6. \A j \in batch : (j \in work[t].left => j = i) => Shows(u, V[j])'
      BY <2>4, <2>5
    <2>7. CASE work[t].left = {i}
      <3>1. /\ \A j \in batch : Shows(u, V[j])'
            /\ work'[t].left = ToPublish(t)'
            /\ pc'[t] \in {"relate", "publish", "metadata"}
        BY <2>1, <2>3, <2>6, <2>7 DEF AfterStore
      <3> QED
        BY <1>2, <1>7, <2>3, <3>1 DEF BatchInStep
    <2>8. CASE work[t].left # {i}
      <3>1. /\ pc'[t] = "store" /\ work'[t].left = work[t].left \ {i}
            /\ \A j \in batch \ work'[t].left : Shows(u, V[j])'
        BY <2>1, <2>6, <2>8
      <3> QED
        BY <1>7, <2>2, <2>3, <3>1 DEF BatchInStep
    <2> QED
      BY <2>7, <2>8
  <1>15. CASE StoreLink(t)
    <2>1. /\ work[t].left \subseteq batch /\ \A j \in batch : Shows(u, V[j])
          /\ work[t].left = ToPublish(t)
      BY <1>15 DEF BatchInStep, StoreLink
    <2>2. work'[t].to_process = batch /\ ToPublish(t)' = ToPublish(t)
      <3>1. ~FirstDiff(t) /\ ~SecondDiff(t)
        BY <1>15, Zenon DEF FirstDiff, SecondDiff, StoreLink
      <3> QED
        BY <1>5, <3>1 DEF ToPublish
    <2>3. ASSUME NEW j \in batch PROVE Shows(u, V[j])'
      BY <1>2, <2>1, ShowsKept
    <2>4. work'[t].left = work[t].left /\ pc'[t] \in {"relate", "publish", "metadata"}
      BY <1>1, <1>15, StoreLinkGoes
    <2> QED
      BY <1>7, <2>1, <2>2, <2>3, <2>4 DEF BatchInStep
  <1>16. CASE Publish(t)
    <2>1. work[t].left \subseteq batch /\ \A j \in batch : Shows(u, V[j])
      BY <1>16 DEF BatchInStep, Publish
    <2>2. work'[t].to_process = batch
      <3>1. ~SecondDiff(t)
        BY <1>16, Zenon DEF SecondDiff, Publish
      <3> QED
        BY <1>5, <3>1
    <2>3. ASSUME NEW j \in batch PROVE Shows(u, V[j])'
      BY <1>2, <2>1, ShowsKept
    <2>4. work'[t].left \subseteq work[t].left /\ pc'[t] \in {"publish", "metadata"}
      BY <1>1, <1>16, PublishEffect
    <2> QED
      BY <1>7, <2>1, <2>2, <2>3, <2>4 DEF BatchInStep
  <1>17. ~StoreMetadata(t) /\ ~DeleteMetadata(t) /\ ~DeleteNodes(t)
    BY <1>1, LastStepsEffect
  <1> QED
    BY <1>8, <1>9, <1>10, <1>11, <1>12, <1>13, <1>14, <1>15, <1>16, <1>17 DEF Step

(* What a node shows after a step was owed or sent before, or is owed now. *)
LEMMA StepNodesSent ==
    ASSUME UniqueKeys, NEW t, Handlers = {t}, NEW u, Users = {u}, TypeInv, HandlesLast(t),
           ProducerReady, ChunksInStep(t, u), BatchInStep(t, u), NodesSent(t, u),
           Step(t), Smooth(t)
    PROVE  NodesSent(t, u)'
  <1> PICK W : W = job[t].chunks
    OBVIOUS
  <1>1. t \in Handlers /\ pc[t] # "idle"
    BY StepKeepsJob
  <1>2. /\ \A i \in DOMAIN W : W[i] \in Chunk /\ Current(W[i])
        /\ \A i, j \in DOMAIN W : W[i].key = W[j].key => i = j
        /\ work[t].to_process \subseteq DOMAIN W /\ work[t].left \subseteq DOMAIN W
    BY <1>1, RunChunks
  <1> SUFFICES ASSUME NEW k \in Keys, HasContent(nodes'[u][k]), NEW d,
                      d = [key |-> k, hash |-> nodes'[u][k].content]
               PROVE  \/ Owed(t, d)'
                      \/ \E n \in DOMAIN chunks_raw' : \E i \in chunks_raw'[n].sent :
                            chunks_raw'[n].chunks[i] = d /\ LastSent(n, i)'
    BY DEF NodesSent
  <1>3. nodes'[u][k] # None /\ d.key = k /\ d.hash = nodes'[u][k].content /\ d.hash # None
    BY DEF HasContent
  <1>4. ASSUME ~Publish(t), NEW n \in DOMAIN chunks_raw, NEW i \in chunks_raw[n].sent,
               chunks_raw[n].chunks[i] = d, LastSent(n, i)
        PROVE  \E m \in DOMAIN chunks_raw' : \E j \in chunks_raw'[m].sent :
                  chunks_raw'[m].chunks[j] = d /\ LastSent(m, j)'
    <2>1. UNCHANGED chunks_raw
      BY <1>1, <1>4, OnlyPublishSends
    <2>2. LastSent(n, i)'
      BY <1>4, <2>1, Zenon DEF LastSent
    <2> QED
      BY <1>4, <2>1, <2>2
  <1>5. CASE Publish(t) /\ Shows(u, d)
    <2>1. PICK sent \in SUBSET work[t].left :
              /\ DOMAIN chunks_raw' = DOMAIN chunks_raw \cup {Len(chunks_raw) + 1}
              /\ \A n \in DOMAIN chunks_raw : chunks_raw'[n] = chunks_raw[n]
              /\ chunks_raw'[Len(chunks_raw) + 1].sent = sent
              /\ chunks_raw'[Len(chunks_raw) + 1].chunks = W
              /\ work'[t].left = work[t].left \ sent
              /\ pc'[t] = IF work[t].left = sent THEN "metadata" ELSE "publish"
      BY <1>1, <1>5, PublishEffect
    <2>2. /\ DOMAIN chunks_raw = 1 .. Len(chunks_raw) /\ Len(chunks_raw) \in Nat
      BY DEF TypeInv, TypeOK
    <2>3. pc[t] = "publish"
      BY <1>5 DEF Publish
    <2>4. \A j \in sent : j \in DOMAIN W /\ Shows(u, W[j])
      BY <1>2, <2>1, <2>3 DEF BatchInStep
    <2>5. \A j \in sent : W[j].key = d.key => W[j].hash = d.hash
      BY <1>5, <2>4 DEF Shows
    <2>6. ASSUME NEW n \in DOMAIN chunks_raw, NEW i \in chunks_raw[n].sent,
                 chunks_raw[n].chunks[i] = d, LastSent(n, i)
          PROVE  \E m \in DOMAIN chunks_raw' : \E j \in chunks_raw'[m].sent :
                    chunks_raw'[m].chunks[j] = d /\ LastSent(m, j)'
      <3>1. LastSent(n, i)'
        <4>1. /\ n \in DOMAIN chunks_raw' /\ chunks_raw'[n] = chunks_raw[n]
          BY <2>1, <2>6
        <4>2. \A m \in DOMAIN chunks_raw' : \A j \in chunks_raw'[m].sent :
                 (m >= n /\ chunks_raw'[m].chunks[j].key = d.key)
                    => chunks_raw'[m].chunks[j].hash = d.hash
          BY <2>1, <2>5, <2>6 DEF LastSent
        <4> QED
          BY <2>6, <4>1, <4>2 DEF LastSent
      <3> QED
        BY <2>1, <2>6, <3>1
    <2>7. ASSUME NEW i \in sent, W[i] = d
          PROVE  \E m \in DOMAIN chunks_raw' : \E j \in chunks_raw'[m].sent :
                    chunks_raw'[m].chunks[j] = d /\ LastSent(m, j)'
      <3> PICK new : new = Len(chunks_raw) + 1
        OBVIOUS
      <3>1. \A m \in DOMAIN chunks_raw' : m >= new => m = new
        BY <2>1, <2>2
      <3>2. new \in DOMAIN chunks_raw' /\ chunks_raw'[new].sent = sent
            /\ chunks_raw'[new].chunks = W
        BY <2>1
      <3>3. LastSent(new, i)'
        BY <2>5, <2>7, <3>1, <3>2 DEF LastSent
      <3> QED
        BY <2>7, <3>2, <3>3
    <2>8. CASE Owed(t, d)
      <3>1. PICK i \in work[t].left : W[i] = d
        BY <2>3, <2>8 DEF Owed
      <3>2. CASE i \in sent
        BY <2>7, <3>1, <3>2
      <3>3. CASE i \notin sent
        <4>1. pc'[t] = "publish" /\ i \in work'[t].left
          BY <2>1, <3>1, <3>3
        <4>2. job' = job
          BY <1>1, <4>1, StepKeepsJob
        <4> QED
          BY <3>1, <4>1, <4>2 DEF Owed
      <3> QED
        BY <3>2, <3>3
    <2>9. HasContent(nodes[u][k]) /\ d = [key |-> k, hash |-> nodes[u][k].content]
      BY <1>3, <1>5 DEF Shows, HasContent
    <2> QED
      BY <2>6, <2>8, <2>9 DEF NodesSent
  <1>6. CASE ~Publish(t) /\ Shows(u, d)
    <2>1. HasContent(nodes[u][k]) /\ d = [key |-> k, hash |-> nodes[u][k].content]
      BY <1>3, <1>6 DEF Shows, HasContent
    <2>2. Owed(t, d) => Owed(t, d)'
      BY <1>6, OwedSettled
    <2> QED
      BY <1>4, <1>6, <2>1, <2>2 DEF NodesSent
  <1>7. CASE ~Shows(u, d)
    <2>1. nodes'[u][k] # nodes[u][k] /\ nodes'[u][k] # Phantom
      BY <1>3, <1>7 DEF Shows, Phantom
    <2>2. PICK i \in work[t].left : /\ StoreNode(t)
                                    /\ k = job[t].chunks[i].key
                                    /\ nodes'[u][k].content = job[t].chunks[i].hash
      BY <1>3, <2>1, StepNodes
    <2>3. W[i] = d
      <3>1. W[i].key = d.key /\ W[i].hash = d.hash
        BY <1>3, <2>2
      <3> QED
        BY <1>2, <3>1 DEF Chunk
    <2>4. pc[t] = "store" /\ ~Publish(t)
      BY <2>2, Zenon DEF StoreNode, Publish
    <2>5. i \in work[t].to_process
      BY <2>2, <2>4 DEF BatchInStep
    <2>6. i \notin work[t].clean
      <3>1. ASSUME i \in work[t].clean PROVE FALSE
        <4>1. SentChunk(d) /\ Current(d) /\ d \in Chunk
          BY <1>2, <2>3, <2>4, <2>5, <3>1 DEF BatchInStep
        <4> QED
          BY <1>7, <4>1 DEF ChunksInStep
      <3> QED
        BY <3>1
    <2>7. Owed(t, d)
      BY <2>3, <2>4, <2>5, <2>6 DEF Owed, ToPublish
    <2> QED
      BY <2>4, <2>7, OwedSettled
  <1> QED
    BY <1>5, <1>6, <1>7

(* A step leaves the vectors that the answers so far have set. *)
LEMMA StepNodesEmbedded ==
    ASSUME UniqueKeys, NEW t, Handlers = {t}, NEW u, Users = {u}, NEW c, TypeInv,
           HandlesLast(t), ProducerReady, ChunksInStep(t, u), BatchInStep(t, u),
           Len(answered) <= Len(chunks_raw), answered \in Seq(Nat), NodesEmbedded(u, c),
           Step(t), Smooth(t), UNCHANGED cbVars
    PROVE  NodesEmbedded(u, c)'
  <1> PICK W : W = job[t].chunks
    OBVIOUS
  <1>1. t \in Handlers /\ pc[t] # "idle"
    BY StepKeepsJob
  <1>2. /\ \A i \in DOMAIN W : W[i] \in Chunk /\ Current(W[i])
        /\ work[t].left \subseteq DOMAIN W
    BY <1>1, RunChunks
  <1>0. ASSUME NEW k \in Keys,
               nodes'[u][k] # nodes[u][k], nodes'[u][k] # None, nodes'[u][k] # Phantom
        PROVE  \E j \in work[t].left :
                  /\ k = W[j].key
                  /\ nodes'[u][k].content = W[j].hash
                  /\ nodes[u][k] # None => nodes'[u][k].embeddings = nodes[u][k].embeddings
    BY <1>0, StepStoresNode
  <1> SUFFICES ASSUME NEW n \in DOMAIN chunks_raw', NEW i \in chunks_raw'[n].sent, NEW d,
                      d = chunks_raw'[n].chunks[i],
                      Shows(u, d)', LastSent(n, i)', Handled(c, n, i)',
                      ~PassedOver(u, d.key)
               PROVE  nodes'[u][d.key].embeddings = d.hash
    BY DEF NodesEmbedded, PassedOver, cbVars, historyVars
  <1>3. /\ chunks_raw \in Seq(Message) /\ TypeInv' /\ chunks_raw' \in Seq(Message)
        /\ \A m \in DOMAIN chunks_raw : m \in DOMAIN chunks_raw' /\ chunks_raw'[m] = chunks_raw[m]
    <2>1. Next
      BY <1>1 DEF Next
    <2> QED
      BY <2>1, NextTypeInv, MessagesGrow DEF TypeInv, TypeOK
  <1>4. n \in DOMAIN chunks_raw /\ i \in chunks_raw[n].sent /\ chunks_raw[n].chunks[i] = d
    <2>1. n <= Len(answered) /\ Len(answered) \in Nat
      BY DEF Handled, cbVars, historyVars
    <2>2. n \in Nat /\ n >= 1
      BY <1>3
    <2>3. n \in DOMAIN chunks_raw
      BY <1>3, <2>1, <2>2
    <2> QED
      BY <1>3, <2>3
  <1>5. d.key \in Keys /\ d.hash \in Hashes /\ d = [key |-> d.key, hash |-> d.hash] /\ d \in Chunk
    <2>1. chunks_raw[n] \in Message
      BY <1>3, <1>4
    <2> QED
      BY <1>4, <2>1, MessageChunks DEF Chunk
  <1>6. LastSent(n, i)
    <2>1. \A m \in DOMAIN chunks_raw : \A j \in chunks_raw[m].sent :
             (m >= n /\ chunks_raw[m].chunks[j].key = d.key) => chunks_raw[m].chunks[j].hash = d.hash
      <3> TAKE m \in DOMAIN chunks_raw
      <3> PICK message : message = chunks_raw[m]
        OBVIOUS
      <3>1. m \in DOMAIN chunks_raw' /\ chunks_raw'[m] = message /\ chunks_raw'[n].chunks[i] = d
        BY <1>3, <1>4
      <3>2. \A j \in message.sent :
               (m >= n /\ message.chunks[j].key = d.key) => message.chunks[j].hash = d.hash
        BY Zenon, <3>1 DEF LastSent
      <3> QED
        BY <3>2
    <2> QED
      BY <1>4, <2>1 DEF LastSent
  <1>7. Handled(c, n, i)
    BY DEF Handled, cbVars, historyVars
  <1>8. Shows(u, d) => nodes[u][d.key].embeddings = d.hash
    BY <1>4, <1>6, <1>7 DEF NodesEmbedded
  <1> PICK k \in Keys : k = d.key
    BY <1>5
  <1>9. nodes'[u][k] # None /\ nodes'[u][k].content = d.hash /\ nodes'[u][k] # Phantom
    <2>1. d.hash # None
      BY <1>5, ConstantsAssumption
    <2>2. nodes'[u][k] # None /\ nodes'[u][k].content = d.hash
      BY DEF Shows
    <2>3. Phantom.content = None
      BY DEF Phantom
    <2> QED
      BY <2>1, <2>2, <2>3
  <1>10. CASE nodes'[u][k] = nodes[u][k]
    BY <1>8, <1>9, <1>10 DEF Shows
  <1>11. ASSUME NEW j \in work[t].left, k = W[j].key, nodes'[u][k].content = W[j].hash,
                nodes[u][k] # None => nodes'[u][k].embeddings = nodes[u][k].embeddings
         PROVE  nodes'[u][k].embeddings = d.hash
    <2>1. W[j] = d
      BY <1>2, <1>5, <1>9, <1>11 DEF Chunk
    <2>2. SentChunk(d) /\ Current(d)
      BY <1>2, <1>4, <2>1 DEF SentChunk
    <2>3. Shows(u, d)
      BY <1>5, <2>2 DEF ChunksInStep
    <2> QED
      BY <1>8, <1>11, <2>3 DEF Shows
  <1>12. CASE nodes'[u][k] # nodes[u][k]
    <2>1. PICK j \in work[t].left :
             /\ k = W[j].key
             /\ nodes'[u][k].content = W[j].hash
             /\ nodes[u][k] # None => nodes'[u][k].embeddings = nodes[u][k].embeddings
      BY Zenon, <1>0, <1>9, <1>12
    <2> QED
      BY Zenon, <1>11, <2>1
  <1>13. nodes'[u][k].embeddings = d.hash
    BY <1>10, <1>12
  <1> QED
    BY <1>13

(* A new version asks for no chunk that was sent before and is not shown. *)
LEMMA OlderChunkCurrent ==
    ASSUME TypeInv, NEW t \in Handlers, NEW e \in Job, Deliver(t, e), NothingReverted',
           NEW d, AskedFor(d), Current(d)'
    PROVE  Current(d)
  <1>1. /\ delivered' = Append(delivered, e) /\ delivered \in Seq(Job)
    BY DEF Deliver, TypeInv, TypeOK
  <1>2. PICK l \in DOMAIN delivered : InVersion(l, d)
    BY DEF AskedFor
  <1> PICK m, n : m = Len(delivered) /\ n = m + 1
    OBVIOUS
  <1>3. /\ m \in Nat /\ l \in 1 .. m /\ DOMAIN delivered' = 1 .. n
        /\ Len(delivered') = n /\ delivered # <<>>
    BY <1>1, <1>2
  <1>4. delivered'[l] = delivered[l] /\ delivered'[m] = delivered[m]
    BY <1>1, <1>3
  <1>5. CASE l = m
    BY <1>2, <1>3, <1>5 DEF Current
  <1>6. CASE l # m
    <2>1. l \in 1 .. m - 1 /\ m < n /\ m \in DOMAIN delivered' /\ n \in DOMAIN delivered'
      BY <1>3, <1>6
    <2> DEFINE In(p) == {delivered'[p].chunks[i] : i \in DOMAIN delivered'[p].chunks}
    <2>2. \A p, q \in DOMAIN delivered' : \A r \in 1 .. p - 1 :
             p < q => In(r) \cap In(q) \subseteq In(p)
      BY DEF NothingReverted
    <2>3. In(l) \cap In(n) \subseteq In(m)
      <3> HIDE DEF In
      <3> QED
        BY <2>1, <2>2
    <2>4. d \in In(l)
      BY <1>2, <1>4 DEF InVersion
    <2>5. d \in In(n)
      BY <1>3 DEF Current, InVersion
    <2>6. d \in In(m)
      <3> HIDE DEF In
      <3> QED
        BY <2>3, <2>4, <2>5
    <2> QED
      BY <1>3, <1>4, <2>6 DEF Current, InVersion
  <1> QED
    BY <1>5, <1>6

LEMMA RevertedBefore ==
    ASSUME TypeInv, [Next]_vars, NothingReverted'
    PROVE  NothingReverted
  <1>1. \A n \in DOMAIN delivered : n \in DOMAIN delivered' /\ delivered'[n] = delivered[n]
    BY HistoryGrows
  <1>2. DOMAIN delivered = 1 .. Len(delivered) /\ Len(delivered) \in Nat
    BY DEF TypeInv, TypeOK
  <1> SUFFICES ASSUME NEW m \in DOMAIN delivered, NEW n \in DOMAIN delivered,
                      NEW l \in 1 .. m - 1, m < n
               PROVE  {delivered[l].chunks[i] : i \in DOMAIN delivered[l].chunks}
                        \cap {delivered[n].chunks[i] : i \in DOMAIN delivered[n].chunks}
                      \subseteq {delivered[m].chunks[i] : i \in DOMAIN delivered[m].chunks}
    BY DEF NothingReverted
  <1>3. l \in DOMAIN delivered
    BY <1>2
  <1>4. m \in DOMAIN delivered' /\ n \in DOMAIN delivered'
    BY <1>1
  <1>5. {delivered'[l].chunks[i] : i \in DOMAIN delivered'[l].chunks}
            \cap {delivered'[n].chunks[i] : i \in DOMAIN delivered'[n].chunks}
         \subseteq {delivered'[m].chunks[i] : i \in DOMAIN delivered'[m].chunks}
    BY Zenon, <1>4 DEF NothingReverted
  <1> QED
    BY <1>1, <1>3, <1>5

LEMMA DeliverSoFar ==
    ASSUME TypeInv, NEW t \in Handlers, NEW u, NEW c, NEW e \in Job, Deliver(t, e),
           UNCHANGED cbVars, NothingReverted', SoFar(t, u, c)
    PROVE  SoFar(t, u, c)'
  <1>1. /\ pc[t] = "idle" /\ pc'[t] \in {"first_diff", "delete_nodes"}
        /\ UNCHANGED <<chunk_snapshot, nodes, chunks_raw, work, answered, cb_pc, cb_event, cb_left,
                       skipped>>
    BY DeliverLast DEF Deliver, pgVars, graphVars, cbVars, historyVars
  <1>2. \A d : ~Owed(t, d) /\ ~Owed(t, d)'
    BY <1>1 DEF Owed
  <1>3. \A d : /\ SentChunk(d)' <=> SentChunk(d)
               /\ OnRow(d)' <=> OnRow(d)
               /\ Shows(u, d)' <=> Shows(u, d)
    BY <1>1, Zenon DEF SentChunk, OnRow, Shows
  <1>4. \A d : AskedFor(d) => AskedFor(d)'
    <2>1. \A n \in DOMAIN delivered : n \in DOMAIN delivered' /\ delivered'[n] = delivered[n]
      BY HistoryGrows DEF Next
    <2> QED
      BY <2>1 DEF AskedFor, InVersion
  <1>5. \A d : AskedFor(d) /\ Current(d)' => Current(d)
    BY OlderChunkCurrent
  <1>6. ChunksInStep(t, u)'
    BY <1>2, <1>3, <1>4, <1>5 DEF ChunksInStep, SoFar
  <1>7. BatchInStep(t, u)'
    BY <1>1 DEF BatchInStep
  <1>8. NodesSent(t, u)'
    <2>1. ASSUME NEW k \in Keys, HasContent(nodes[u][k])
          PROVE  \E n \in DOMAIN chunks_raw : \E i \in chunks_raw[n].sent :
                    /\ chunks_raw[n].chunks[i] = [key |-> k, hash |-> nodes[u][k].content]
                    /\ LastSent(n, i)
      BY <1>2, <2>1 DEF SoFar, NodesSent
    <2>2. \A n, i : LastSent(n, i)' <=> LastSent(n, i)
      BY <1>1, SameSent
    <2> QED
      BY <1>1, <2>1, <2>2 DEF NodesSent
  <1>9. /\ InOrder' <=> InOrder
        /\ AnswersInStep(c)' <=> AnswersInStep(c)
    BY <1>1, Zenon DEF InOrder, AnswersInStep
  <1>10. NodesEmbedded(u, c)' <=> NodesEmbedded(u, c)
    <2>1. \A n, i : /\ LastSent(n, i)' <=> LastSent(n, i)
                    /\ Handled(c, n, i)' <=> Handled(c, n, i)
      BY <1>1, SameSent, SameHandled
    <2> QED
      BY <1>1, <1>3, <2>1 DEF NodesEmbedded, PassedOver
  <1> QED
    BY <1>6, <1>7, <1>8, <1>9, <1>10 DEF SoFar

-----------------------------------------------------------------------------
(* What an answer and its task do to it.                                   *)

(* Nothing, as long as the contents stay as they are. *)
LEMMA SameContentSoFar ==
    ASSUME TypeInv, NEW t \in Handlers, NEW u \in Users,
           UNCHANGED <<chunk_snapshot, chunks_raw, pc, job, work, delivered>>,
           \A k \in Keys : /\ HasContent(nodes'[u][k]) <=> HasContent(nodes[u][k])
                           /\ HasContent(nodes[u][k]) =>
                                 nodes'[u][k].content = nodes[u][k].content,
           ChunksInStep(t, u), BatchInStep(t, u), NodesSent(t, u)
    PROVE  /\ ChunksInStep(t, u)' /\ BatchInStep(t, u)' /\ NodesSent(t, u)'
           /\ \A d \in Chunk : Shows(u, d)' <=> Shows(u, d)
  <1>1. \A d : /\ Owed(t, d)' <=> Owed(t, d)
               /\ SentChunk(d)' <=> SentChunk(d)
               /\ OnRow(d)' <=> OnRow(d)
               /\ AskedFor(d)' <=> AskedFor(d)
               /\ Current(d)' <=> Current(d)
    BY Zenon DEF Owed, SentChunk, OnRow, AskedFor, Current, InVersion, ToPublish
  <1>2. \A n, i : LastSent(n, i)' <=> LastSent(n, i)
    BY SameSent
  <1>3. ASSUME NEW d \in Chunk
        PROVE  Shows(u, d)' <=> Shows(u, d)
    <2>1. d.key \in Keys /\ d.hash # None
      BY ConstantsAssumption DEF Chunk
    <2>2. Shows(u, d) <=> HasContent(nodes[u][d.key]) /\ nodes[u][d.key].content = d.hash
      BY <2>1 DEF Shows, HasContent
    <2>3. Shows(u, d)' <=> HasContent(nodes'[u][d.key]) /\ nodes'[u][d.key].content = d.hash
      BY <2>1 DEF Shows, HasContent
    <2> QED
      BY <2>1, <2>2, <2>3
  <1>4. ChunksInStep(t, u)'
    BY <1>1, <1>3 DEF ChunksInStep
  <1>5. BatchInStep(t, u)'
    <2>1. CASE pc[t] = "idle"
      BY <2>1 DEF BatchInStep
    <2>2. CASE pc[t] # "idle"
      <3> PICK W : W = job[t].chunks /\ W = job'[t].chunks
        OBVIOUS
      <3>1. \A i \in work[t].to_process : W[i] \in Chunk
        <4>1. job[t] \in Job /\ work[t].to_process \subseteq DOMAIN W
          BY <2>2, Running
        <4>2. W \in Seq(Chunk)
          BY <4>1, JobFields
        <4> QED
          BY <4>1, <4>2
      <3>2. \A i \in work[t].to_process : Shows(u, W[i])' <=> Shows(u, W[i])
        BY <1>3, <3>1
      <3>3. \A i : SentChunk(W[i])' <=> SentChunk(W[i])
        BY <1>1
      <3>4. ToPublish(t)' = ToPublish(t)
        BY DEF ToPublish
      <3> QED
        BY <3>2, <3>3, <3>4 DEF BatchInStep
    <2> QED
      BY <2>1, <2>2
  <1>6. NodesSent(t, u)'
    BY <1>1, <1>2 DEF NodesSent
  <1> QED
    BY <1>3, <1>4, <1>5, <1>6

LEMMA AnswerSoFar ==
    ASSUME EmbTypeInv, NEW t \in Handlers, NEW u \in Users, NEW c, Callbacks = {c}, NEW n0 \in DOMAIN chunks_raw,
           Answer(c, n0), SoFar(t, u, c)
    PROVE  SoFar(t, u, c)'
  <1>1. /\ UNCHANGED <<chunk_snapshot, nodes, chunks_raw, pc, job, work, delivered, skipped>>
        /\ cb_pc[c] = "idle" /\ cb_pc'[c] = "cache_lookup"
        /\ cb_event'[c] = chunks_raw[n0] /\ cb_left'[c] = chunks_raw[n0].sent
        /\ answered' = Append(answered, n0)
    BY DEF Answer, EmbTypeInv, EmbTypeOK, vars, pgVars, graphVars, taskVars
  <1>2. /\ answered \in Seq(Nat) /\ chunks_raw \in Seq(Message) /\ n0 \in Nat
    BY DEF EmbTypeInv, EmbTypeOK, TypeOK
  <1>3. /\ ChunksInStep(t, u)' /\ BatchInStep(t, u)' /\ NodesSent(t, u)'
        /\ \A d : Shows(u, d)' <=> Shows(u, d)
    <2>1. \A d : Shows(u, d)' <=> Shows(u, d)
      BY <1>1, SameShown
    <2> QED
      BY <1>1, <2>1, SameContentSoFar DEF SoFar, EmbTypeInv
  <1>4. \A n, i : LastSent(n, i)' <=> LastSent(n, i)
    BY <1>1, SameSent
  <1>5. ASSUME InOrder'
        PROVE  AnswersInStep(c)' /\ NodesEmbedded(u, c)'
    <2> PICK m : m = Len(answered)
      OBVIOUS
    <2>1. /\ m \in Nat /\ DOMAIN answered = 1 .. m /\ DOMAIN answered' = 1 .. m + 1
          /\ Len(answered') = m + 1 /\ answered'[m + 1] = n0
          /\ \A n \in 1 .. m : answered'[n] = answered[n]
      BY <1>1, <1>2
    <2>2. n0 = m + 1
      BY <1>5, <2>1 DEF InOrder
    <2>3. InOrder
      BY <1>5, <2>1 DEF InOrder
    <2>4. AnswersInStep(c)'
      <3>1. Len(answered') <= Len(chunks_raw') /\ answered' # <<>>
        BY <1>1, <1>2, <2>1, <2>2
      <3>2. cb_event'[c] = chunks_raw'[Len(answered')]
        BY <1>1, <2>1, <2>2
      <3> QED
        BY <3>1, <3>2 DEF AnswersInStep
    <2>5. ASSUME NEW n \in DOMAIN chunks_raw, NEW i \in chunks_raw[n].sent, Handled(c, n, i)'
          PROVE  Handled(c, n, i)
      <3>1. n \in Nat /\ n <= m + 1
        BY <1>2, <2>1, <2>5 DEF Handled
      <3>2. n # m + 1
        BY <1>1, <2>1, <2>2, <2>5 DEF Handled
      <3> QED
        BY <1>1, <2>1, <3>1, <3>2 DEF Handled
    <2> QED
      BY <1>1, <1>3, <1>4, <2>3, <2>4, <2>5 DEF NodesEmbedded, PassedOver, SoFar
  <1> QED
    BY <1>3, <1>5 DEF SoFar

(* The calls of a callback task, when none of them fails. *)
LEMMA CallbackEffect ==
    ASSUME EmbTypeInv, NEW u, Users = {u}, NEW c \in Callbacks,
           CallbackStep(c) \/ FetchStep(c), failures' = 0
    PROVE  /\ UNCHANGED <<chunk_snapshot, chunks_raw, pc, job, work, delivered, answered>>
           /\ cb_pc[c] # "idle"
           /\ \E i \in First(cb_left[c]) :
                 \/ /\ cb_pc[c] = "cache_lookup" /\ UNCHANGED <<nodes, skipped>>
                    /\ CallbackGoto(c, "graph_lookup") \/ CallbackGoto(c, "update")
                 \/ /\ cb_pc[c] = "graph_lookup" /\ UNCHANGED <<nodes, skipped>>
                    /\ CallbackGoto(c, "update")
                 \/ /\ cb_pc[c] = "graph_lookup" /\ UNCHANGED nodes /\ Proceed(c, i)
                    /\ skipped' = skipped \cup {<<u, ChunkAt(c, i).key>>}
                    /\ ~HasContent(nodes[u][ChunkAt(c, i).key]) \/ TypedCells
                 \/ /\ cb_pc[c] = "update" /\ CallbackGoto(c, "evict")
                    /\ nodes' = [nodes EXCEPT ![u] = Embedded(@, ChunkAt(c, i))]
                    /\ skipped' = skipped \ {<<u, ChunkAt(c, i).key>>}
                 \/ /\ cb_pc[c] = "evict" /\ UNCHANGED <<nodes, skipped>>
                    /\ CallbackGoto(c, "link") \/ CallbackGoto(c, "fetch")
                 \/ /\ cb_pc[c] = "link" /\ CallbackGoto(c, "fetch") /\ UNCHANGED skipped
                    /\ \/ UNCHANGED nodes
                       \/ \E link : nodes' = [nodes EXCEPT ![u] = MergeEnds(@, link)]
                 \/ /\ cb_pc[c] = "fetch" /\ Proceed(c, i) /\ UNCHANGED <<nodes, skipped>>
  <1>1. \A call : ~CallFails(call)
    <2>1. failures \in Nat
      BY DEF EmbTypeInv, EmbTypeOK, TypeOK
    <2> QED
      BY <2>1 DEF CallFails
  <1>2. PICK i \in First(cb_left[c]) :
           \/ LookInCache(c, i) \/ LookInGraph(c, i) \/ UpdateEmbedding(c, i)
           \/ Evict(c, i) \/ LinkNext(c, i) \/ Fetch(c, i)
    BY DEF CallbackStep, FetchStep
  <1>3. cb_pc[c] # "idle"
    BY <1>2, Zenon DEF LookInCache, LookInGraph, UpdateEmbedding, Evict, LinkNext, Fetch
  <1>4. CallbackGraph(c) = u
    BY <1>3, Answering
  <1>5. CASE LookInCache(c, i)
    BY <1>3, <1>5 DEF LookInCache, vars, pgVars, graphVars, taskVars, historyVars
  <1>6. CASE LookInGraph(c, i)
    BY <1>1, <1>3, <1>4, <1>6 DEF LookInGraph, Skip, ContentRead, ingestVars,
                                     pgVars, graphVars, taskVars
  <1>7. CASE UpdateEmbedding(c, i)
    BY <1>1, <1>3, <1>4, <1>7 DEF UpdateEmbedding, ingestVars, pgVars, taskVars
  <1>8. CASE Evict(c, i)
    BY <1>3, <1>8 DEF Evict, ingestVars, pgVars, graphVars, taskVars, historyVars
  <1>9. CASE LinkNext(c, i)
    BY <1>1, <1>3, <1>4, <1>9 DEF LinkNext, ingestVars, pgVars, graphVars, taskVars, historyVars
  <1>10. CASE Fetch(c, i)
    BY <1>3, <1>10 DEF Fetch, vars, pgVars, graphVars, taskVars, historyVars
  <1> QED
    BY <1>2, <1>5, <1>6, <1>7, <1>8, <1>9, <1>10

(* Which chunks have had their turn after a callback task goes on. *)
LEMMA TurnTaken ==
    ASSUME EmbTypeInv, NEW c \in Callbacks, cb_pc[c] # "idle", UNCHANGED answered,
           NEW i \in First(cb_left[c])
    PROVE  /\ (Proceed(c, i) \/ \E p \in {"evict", "link", "fetch"} : CallbackGoto(c, p)) =>
                 \A n, j : Handled(c, n, j)' =>
                              Handled(c, n, j) \/ (n = Len(answered) /\ j = i)
           /\ (CallbackGoto(c, "graph_lookup") \/ CallbackGoto(c, "update")) =>
                 \A n, j : Handled(c, n, j)' => Handled(c, n, j)
           /\ (/\ AnswersInStep(c) /\ UNCHANGED chunks_raw
               /\ Proceed(c, i) \/ \E p : CallbackGoto(c, p)) => AnswersInStep(c)'
  <1>1. /\ i \in cb_left[c] /\ \A j \in First(cb_left[c]) : j = i
        /\ cb_pc \in [Callbacks -> CallbackPCs] /\ cb_left \in [Callbacks -> SUBSET Nat]
        /\ cb_event \in [Callbacks -> Message \cup {NoEvent}]
    BY DEF First, EmbTypeInv, EmbTypeOK
  <1>2. ASSUME NEW p, CallbackGoto(c, p)
        PROVE  /\ cb_pc'[c] = p /\ cb_left'[c] = cb_left[c] /\ cb_event'[c] = cb_event[c]
    BY <1>1, <1>2 DEF CallbackGoto
  <1>3. ASSUME Proceed(c, i)
        PROVE  \/ /\ cb_pc'[c] = "cache_lookup" /\ cb_left'[c] = cb_left[c] \ {i}
                  /\ cb_event'[c] = cb_event[c]
               \/ cb_pc'[c] = "idle" /\ cb_left[c] = {i}
    BY <1>1, <1>3 DEF Proceed
  <1>4. ASSUME Proceed(c, i) \/ \E p \in {"evict", "link", "fetch"} : CallbackGoto(c, p),
               NEW n, NEW j, Handled(c, n, j)'
        PROVE  Handled(c, n, j) \/ (n = Len(answered) /\ j = i)
    <2>1. CASE Proceed(c, i)
      BY <1>1, <1>3, <1>4, <2>1 DEF Handled
    <2>2. ASSUME NEW p \in {"evict", "link", "fetch"}, CallbackGoto(c, p)
          PROVE  Handled(c, n, j) \/ (n = Len(answered) /\ j = i)
      BY <1>1, <1>2, <1>4, <2>2 DEF Handled
    <2> QED
      BY <1>4, <2>1, <2>2
  <1>5. ASSUME CallbackGoto(c, "graph_lookup") \/ CallbackGoto(c, "update"),
               NEW n, NEW j, Handled(c, n, j)'
        PROVE  Handled(c, n, j)
    BY <1>2, <1>5 DEF Handled
  <1>6. ASSUME AnswersInStep(c), UNCHANGED chunks_raw,
               Proceed(c, i) \/ \E p : CallbackGoto(c, p)
        PROVE  AnswersInStep(c)'
    BY <1>2, <1>3, <1>6 DEF AnswersInStep
  <1> QED
    BY <1>4, <1>5, <1>6

LEMMA CallbackSoFar ==
    ASSUME EmbTypeInv, NEW t \in Handlers, NEW u, Users = {u}, NEW c, Callbacks = {c},
           CallbackStep(c) \/ FetchStep(c), failures' = 0, SoFar(t, u, c)
    PROVE  SoFar(t, u, c)'
  <1>1. c \in Callbacks /\ u \in Users /\ TypeInv /\ nodes[u] \in [Keys -> Node \cup {None}]
        /\ nodes \in [Users -> [Keys -> Node \cup {None}]]
        /\ chunks_raw \in Seq(Message)
    BY DEF EmbTypeInv, EmbTypeOK, TypeOK
  <1>2. /\ UNCHANGED <<chunk_snapshot, chunks_raw, pc, job, work, delivered, answered>>
        /\ cb_pc[c] # "idle"
    BY <1>1, CallbackEffect
  <1>3. PICK i \in First(cb_left[c]) :
                 \/ /\ cb_pc[c] = "cache_lookup" /\ UNCHANGED <<nodes, skipped>>
                    /\ CallbackGoto(c, "graph_lookup") \/ CallbackGoto(c, "update")
                 \/ /\ cb_pc[c] = "graph_lookup" /\ UNCHANGED <<nodes, skipped>>
                    /\ CallbackGoto(c, "update")
                 \/ /\ cb_pc[c] = "graph_lookup" /\ UNCHANGED nodes /\ Proceed(c, i)
                    /\ skipped' = skipped \cup {<<u, ChunkAt(c, i).key>>}
                    /\ ~HasContent(nodes[u][ChunkAt(c, i).key]) \/ TypedCells
                 \/ /\ cb_pc[c] = "update" /\ CallbackGoto(c, "evict")
                    /\ nodes' = [nodes EXCEPT ![u] = Embedded(@, ChunkAt(c, i))]
                    /\ skipped' = skipped \ {<<u, ChunkAt(c, i).key>>}
                 \/ /\ cb_pc[c] = "evict" /\ UNCHANGED <<nodes, skipped>>
                    /\ CallbackGoto(c, "link") \/ CallbackGoto(c, "fetch")
                 \/ /\ cb_pc[c] = "link" /\ CallbackGoto(c, "fetch") /\ UNCHANGED skipped
                    /\ \/ UNCHANGED nodes
                       \/ \E link : nodes' = [nodes EXCEPT ![u] = MergeEnds(@, link)]
                 \/ /\ cb_pc[c] = "fetch" /\ Proceed(c, i) /\ UNCHANGED <<nodes, skipped>>
    BY <1>1, CallbackEffect
  <1> PICK d : d = ChunkAt(c, i)
    OBVIOUS
  <1>4. d \in Chunk /\ i \in cb_left[c] /\ i \in cb_event[c].sent /\ d = cb_event[c].chunks[i]
    <2>1. /\ cb_event[c] \in Message /\ i \in cb_left[c] /\ i \in cb_event[c].sent
          /\ d = cb_event[c].chunks[i]
      BY <1>1, <1>2, Answering DEF ChunkAt
    <2>2. d = [key |-> d.key, hash |-> d.hash] /\ d.key \in Keys /\ d.hash \in Hashes
      BY <2>1, MessageChunks
    <2> QED
      BY <2>1, <2>2 DEF Chunk
  (* Contents stay as they are, and vectors but for that of the chunk. *)
  <1>5. CASE cb_pc[c] # "update"
    <2>1. \A k \in Keys : \/ nodes'[u][k] = nodes[u][k]
                          \/ nodes[u][k] = None /\ nodes'[u][k] = Phantom
      <3>1. CASE UNCHANGED nodes
        BY <3>1
      <3>2. ASSUME NEW link, nodes' = [nodes EXCEPT ![u] = MergeEnds(@, link)], NEW k \in Keys
            PROVE  \/ nodes'[u][k] = nodes[u][k]
                   \/ nodes[u][k] = None /\ nodes'[u][k] = Phantom
        <4>1. nodes'[u] = MergeEnds(nodes[u], link)
          BY <1>1, <3>2
        <4> QED
          BY <4>1 DEF MergeEnds
      <3> QED
        BY <1>3, <1>5, <3>1, <3>2
    <2>2. \A k \in Keys :
             /\ HasContent(nodes'[u][k]) <=> HasContent(nodes[u][k])
             /\ HasContent(nodes[u][k]) => nodes'[u][k] = nodes[u][k]
      BY <2>1 DEF HasContent, Phantom
    <2>3. /\ ChunksInStep(t, u)' /\ BatchInStep(t, u)' /\ NodesSent(t, u)'
          /\ \A x \in Chunk : Shows(u, x)' <=> Shows(u, x)
      BY <1>1, <1>2, <2>2, SameContentSoFar DEF SoFar
    <2>4. ASSUME InOrder'
          PROVE  AnswersInStep(c)' /\ NodesEmbedded(u, c)'
      <3>1. AnswersInStep(c) /\ NodesEmbedded(u, c)
        BY <1>2, <2>4 DEF InOrder, SoFar
      <3>2. AnswersInStep(c)'
        BY <1>1, <1>2, <1>3, <1>5, <3>1, TurnTaken
      <3>3. cb_event[c] = chunks_raw[Len(answered)]
        BY <1>2, <3>1 DEF AnswersInStep
      <3> SUFFICES ASSUME NEW n \in DOMAIN chunks_raw, NEW j \in chunks_raw[n].sent, NEW x,
                          x = chunks_raw[n].chunks[j],
                          Shows(u, x)', LastSent(n, j), Handled(c, n, j)',
                          ~PassedOver(u, x.key)'
                   PROVE  nodes'[u][x.key].embeddings = x.hash
        <4>1. \A n, j : LastSent(n, j)' <=> LastSent(n, j)
          BY <1>2, SameSent
        <4> QED
          BY <1>2, <3>2, <4>1 DEF NodesEmbedded
      <3>4. x \in Chunk /\ x.key \in Keys /\ x.hash # None
        <4>1. chunks_raw[n] \in Message
          BY <1>1
        <4>2. x = [key |-> x.key, hash |-> x.hash] /\ x.key \in Keys /\ x.hash \in Hashes
          BY <4>1, MessageChunks
        <4>3. x.hash # None
          BY <4>2, ConstantsAssumption
        <4> QED
          BY <4>2, <4>3 DEF Chunk
      <3>5. Shows(u, x) /\ HasContent(nodes[u][x.key]) /\ nodes'[u][x.key] = nodes[u][x.key]
        BY <2>2, <2>3, <3>4 DEF Shows, HasContent
      <3>6. Handled(c, n, j)
        <4>1. CASE cb_pc[c] \in {"evict", "link", "fetch"}
          <5>1. Handled(c, Len(answered), i)
            <6>1. Len(answered) <= Len(answered)
              BY DEF EmbTypeInv, EmbTypeOK
            <6> QED
              BY <4>1, <6>1 DEF Handled
          <5>2. Proceed(c, i) \/ \E p \in {"evict", "link", "fetch"} : CallbackGoto(c, p)
            BY <1>3, <4>1
          <5> QED
            BY <1>1, <1>2, <5>1, <5>2, TurnTaken
        <4>2. CASE CallbackGoto(c, "graph_lookup") \/ CallbackGoto(c, "update")
          BY <1>1, <1>2, <4>2, TurnTaken
        <4>3. CASE /\ Proceed(c, i) /\ <<u, d.key>> \in skipped'
                   /\ ~HasContent(nodes[u][d.key]) \/ TypedCells
          <5>1. n = Len(answered) /\ j = i => x = d
            BY <1>4, <3>3
          <5>2. x # d
            BY <3>5, <4>3 DEF PassedOver
          <5> QED
            BY <1>1, <1>2, <4>3, <5>1, <5>2, TurnTaken
        <4> QED
          BY <1>3, <1>5, <4>1, <4>2, <4>3
      <3>7. skipped \subseteq skipped'
        BY <1>3, <1>5
      <3> QED
        BY <3>1, <3>5, <3>6, <3>7 DEF NodesEmbedded, PassedOver
    <2> QED
      BY <2>3, <2>4 DEF SoFar
  <1>6. CASE cb_pc[c] = "update"
    <2>1. CallbackGoto(c, "evict") /\ nodes'[u] = Embedded(nodes[u], d)
      BY <1>1, <1>3, <1>6
    <2>2. \A k \in Keys :
             nodes'[u][k] = IF k = d.key /\ nodes[u][k] # None
                            THEN [nodes[u][k] EXCEPT !.embeddings = d.hash]
                            ELSE nodes[u][k]
      BY <2>1 DEF Embedded
    <2>3. ASSUME NEW k \in Keys
          PROVE  /\ HasContent(nodes'[u][k]) <=> HasContent(nodes[u][k])
                 /\ HasContent(nodes[u][k]) =>
                       /\ nodes'[u][k].content = nodes[u][k].content
                       /\ nodes'[u][k].embeddings =
                             IF k = d.key THEN d.hash ELSE nodes[u][k].embeddings
      <3>1. CASE k = d.key /\ nodes[u][k] # None
        <4>1. nodes[u][k] \in Node
          BY <1>1, <3>1
        <4>2. nodes'[u][k] = [nodes[u][k] EXCEPT !.embeddings = d.hash]
          BY <2>2, <3>1
        <4>3. /\ nodes'[u][k] \in Node /\ nodes'[u][k].content = nodes[u][k].content
              /\ nodes'[u][k].embeddings = d.hash
          BY <1>4, <4>1, <4>2 DEF Node, Chunk
        <4>4. nodes'[u][k] # None
          BY <4>3, ConstantsAssumption
        <4> QED
          BY <3>1, <4>3, <4>4 DEF HasContent
      <3>2. CASE ~(k = d.key /\ nodes[u][k] # None)
        BY <2>2, <3>2 DEF HasContent
      <3> QED
        BY <3>1, <3>2
    <2>4. /\ ChunksInStep(t, u)' /\ BatchInStep(t, u)' /\ NodesSent(t, u)'
          /\ \A x \in Chunk : Shows(u, x)' <=> Shows(u, x)
      BY <1>1, <1>2, <2>3, SameContentSoFar DEF SoFar
    <2>5. ASSUME InOrder'
          PROVE  AnswersInStep(c)' /\ NodesEmbedded(u, c)'
      <3>1. AnswersInStep(c) /\ NodesEmbedded(u, c)
        BY <1>2, <2>5 DEF InOrder, SoFar
      <3>2. AnswersInStep(c)'
        BY <1>1, <1>2, <2>1, <3>1, TurnTaken
      <3>3. cb_event[c] = chunks_raw[Len(answered)] /\ Len(answered) \in DOMAIN chunks_raw
        <4>1. answered # <<>> /\ Len(answered) <= Len(chunks_raw)
              /\ cb_event[c] = chunks_raw[Len(answered)]
          BY <1>2, <3>1 DEF AnswersInStep
        <4>2. answered \in Seq(Nat)
          BY DEF EmbTypeInv, EmbTypeOK
        <4> QED
          BY <1>1, <4>1, <4>2
      <3> SUFFICES ASSUME NEW n \in DOMAIN chunks_raw, NEW j \in chunks_raw[n].sent, NEW x,
                          x = chunks_raw[n].chunks[j],
                          Shows(u, x)', LastSent(n, j), Handled(c, n, j)',
                          ~PassedOver(u, x.key)'
                   PROVE  nodes'[u][x.key].embeddings = x.hash
        <4>1. \A n, j : LastSent(n, j)' <=> LastSent(n, j)
          BY <1>2, SameSent
        <4> QED
          BY <1>2, <3>2, <4>1 DEF NodesEmbedded
      <3>4. x \in Chunk /\ x.key \in Keys /\ x.hash # None
        <4>1. chunks_raw[n] \in Message
          BY <1>1
        <4>2. x = [key |-> x.key, hash |-> x.hash] /\ x.key \in Keys /\ x.hash \in Hashes
          BY <4>1, MessageChunks
        <4>3. x.hash # None
          BY <4>2, ConstantsAssumption
        <4> QED
          BY <4>2, <4>3 DEF Chunk
      <3>5. Shows(u, x) /\ HasContent(nodes[u][x.key])
        BY <2>4, <3>4 DEF Shows, HasContent
      <3>6. CASE x.key = d.key
        <4>1. Len(answered) >= n /\ i \in chunks_raw[Len(answered)].sent
              /\ chunks_raw[Len(answered)].chunks[i] = d
          <5>1. n \in Nat /\ Len(answered) \in Nat /\ n <= Len(answered)
            BY <1>1, <1>2, <3>3 DEF Handled
          <5> QED
            BY <1>4, <3>3, <5>1
        <4>2. d.hash = x.hash
          BY <3>3, <3>6, <4>1 DEF LastSent
        <4> QED
          BY <2>3, <3>4, <3>5, <3>6, <4>2
      <3>7. CASE x.key # d.key
        <4>1. n = Len(answered) /\ j = i => x = d
          BY <1>4, <3>3
        <4>2. Handled(c, n, j)
          BY <1>1, <1>2, <2>1, <3>7, <4>1, TurnTaken
        <4>3. nodes[u][x.key].embeddings = x.hash
          <5>1. skipped' = skipped \ {<<u, d.key>>}
            BY <1>3, <1>6
          <5> QED
            BY <3>1, <3>5, <3>7, <4>2, <5>1 DEF NodesEmbedded, PassedOver
        <4> QED
          BY <2>3, <3>4, <3>5, <3>7, <4>3
      <3> QED
        BY <3>6, <3>7
    <2> QED
      BY <2>4, <2>5 DEF SoFar
  <1> QED
    BY <1>5, <1>6

-----------------------------------------------------------------------------
LEMMA StepSoFar ==
    ASSUME UniqueKeys, ProducerReady, NEW t, Handlers = {t}, NEW u, Users = {u}, NEW c,
           EmbTypeInv, HandlesLast(t), SoFar(t, u, c), Step(t), UNCHANGED cbVars, failures' = 0
    PROVE  SoFar(t, u, c)'
  <1>1. TypeInv /\ answered \in Seq(Nat) /\ Smooth(t) /\ t \in Handlers
    BY NotTroubled DEF EmbTypeInv, EmbTypeOK
  <1>2. ChunksInStep(t, u) /\ BatchInStep(t, u) /\ NodesSent(t, u)
    BY DEF SoFar
  <1>3. ChunksInStep(t, u)' /\ BatchInStep(t, u)' /\ NodesSent(t, u)'
    BY <1>1, <1>2, StepChunksInStep, StepBatchInStep, StepNodesSent
  <1>4. ASSUME InOrder'
        PROVE  AnswersInStep(c)' /\ NodesEmbedded(u, c)'
    <2>1. AnswersInStep(c) /\ NodesEmbedded(u, c)
      BY <1>4 DEF InOrder, SoFar, cbVars, historyVars
    <2>2. Len(answered) <= Len(chunks_raw)
      BY <2>1 DEF AnswersInStep
    <2>3. NodesEmbedded(u, c)'
      BY <1>1, <1>2, <2>1, <2>2, StepNodesEmbedded
    <2>4. AnswersInStep(c)'
      <3>1. Next
        BY <1>1 DEF Next
      <3>2. /\ chunks_raw \in Seq(Message) /\ chunks_raw' \in Seq(Message)
            /\ \A n \in DOMAIN chunks_raw :
                  n \in DOMAIN chunks_raw' /\ chunks_raw'[n] = chunks_raw[n]
        BY <1>1, <3>1, MessagesGrow, NextTypeInv DEF TypeInv, TypeOK
      <3>3. Len(answered) \in Nat /\ (answered # <<>> => Len(answered) >= 1)
        BY <1>1
      <3>4. Len(chunks_raw) <= Len(chunks_raw')
        <4>1. Len(chunks_raw) \in Nat /\ Len(chunks_raw') \in Nat
              /\ DOMAIN chunks_raw = 1 .. Len(chunks_raw)
              /\ DOMAIN chunks_raw' = 1 .. Len(chunks_raw')
          BY <3>2
        <4> QED
          BY <3>2, <4>1
      <3>5. Len(answered) <= Len(chunks_raw')
        BY <2>2, <3>2, <3>3, <3>4
      <3>6. answered # <<>> => /\ Len(answered) \in DOMAIN chunks_raw
                               /\ chunks_raw'[Len(answered)] = chunks_raw[Len(answered)]
        BY <2>2, <3>2, <3>3
      <3> QED
        BY <2>1, <3>5, <3>6 DEF AnswersInStep, cbVars, historyVars
    <2> QED
      BY <2>3, <2>4
  <1> QED
    BY <1>3, <1>4 DEF SoFar

LEMMA EmbNextFollowInv ==
    ASSUME UniqueKeys, ProducerReady, NEW t, Handlers = {t}, NEW u, Users = {u},
           NEW c, Callbacks = {c}, FollowInv(t, u, c), [EmbNext]_allVars
    PROVE  FollowInv(t, u, c)'
  <1>1. /\ EmbTypeInv /\ TypeInv /\ HandlesLast(t) /\ failures \in Nat /\ crashes \in Nat
        /\ t \in Handlers /\ u \in Users /\ c \in Callbacks /\ EmbTypeInv'
    BY EmbNextTypeInv DEF FollowInv, EmbTypeInv, EmbTypeOK, TypeOK
  <1>2. ASSUME NEW i \in First(cb_left[c]),
               LookInCache(c, i) \/ LookInGraph(c, i) \/ UpdateEmbedding(c, i)
                  \/ Evict(c, i) \/ LinkNext(c, i) \/ Fetch(c, i)
        PROVE  UNCHANGED <<pc, job, delivered, crashes>> /\ (failures' = 0 => failures = 0)
    <2>1. UNCHANGED ingestVars \/ UNCHANGED vars
      BY <1>2, Zenon DEF LookInCache, LookInGraph, UpdateEmbedding, Evict, LinkNext, Fetch
    <2>2. UNCHANGED failures \/ failures' = failures + 1
      BY <1>2, Zenon DEF LookInCache, LookInGraph, UpdateEmbedding,
                         Evict, LinkNext, Fetch, Succeeds,
               CallFails, faultVars, vars
    <2> QED
      BY <1>1, <2>1, <2>2 DEF ingestVars, vars, taskVars
  <1>3. ASSUME UNCHANGED <<pc, job, delivered>>
        PROVE  HandlesLast(t)' /\ (NothingReverted' <=> NothingReverted)
    <2>1. pc' = pc /\ job' = job /\ delivered' = delivered
      BY <1>3
    <2>2. HandlesLast(t)' <=> HandlesLast(t)
      BY <2>1 DEF HandlesLast, Last
    <2>3. NothingReverted' <=> NothingReverted
      <3> DEFINE In(p) == {delivered[p].chunks[i] : i \in DOMAIN delivered[p].chunks}
      <3> DEFINE Later(p) == {delivered'[p].chunks[i] : i \in DOMAIN delivered'[p].chunks}
      <3>1. \A p : Later(p) = In(p)
        BY <2>1
      <3>2. NothingReverted <=> \A m, n \in DOMAIN delivered : \A l \in 1 .. m - 1 :
                                   m < n => In(l) \cap In(n) \subseteq In(m)
        BY DEF NothingReverted
      <3>3. NothingReverted' <=> \A m, n \in DOMAIN delivered' : \A l \in 1 .. m - 1 :
                                    m < n => Later(l) \cap Later(n) \subseteq Later(m)
        BY DEF NothingReverted
      <3> HIDE DEF In, Later
      <3> QED
        BY <2>1, <3>1, <3>2, <3>3
    <2> QED
      BY <1>1, <2>2, <2>3
  <1>4. CASE \E x \in Handlers : Step(x) /\ UNCHANGED cbVars
    <2>1. Step(t) /\ UNCHANGED cbVars /\ Next
      BY <1>1, <1>4 DEF Next
    <2>2. HandlesLast(t)'
      BY <1>1, <2>1, NextHandlesLast
    <2>3. ASSUME failures' = 0, crashes' = 0, NothingReverted' PROVE SoFar(t, u, c)'
      <3>1. failures = 0 /\ crashes = 0
        <4>1. Smooth(t)
          BY <1>1, <2>3, NotTroubled
        <4> QED
          BY <1>1, <2>1, <2>3, <4>1, SmoothSucceeds DEF Succeeds, faultVars
      <3>2. NothingReverted
        BY <1>1, <2>1, <2>3, RevertedBefore
      <3> QED
        BY <1>1, <2>1, <2>3, <3>1, <3>2, StepSoFar DEF FollowInv
    <2> QED
      BY <1>1, <2>2, <2>3 DEF FollowInv
  <1>5. CASE \E x \in Handlers, e \in Job : Deliver(x, e) /\ UNCHANGED cbVars
    <2>1. PICK e \in Job : Deliver(t, e) /\ UNCHANGED cbVars
      BY <1>1, <1>5
    <2>2. Next
      BY <1>1, <2>1 DEF Next
    <2>3. HandlesLast(t)'
      BY <1>1, <2>2, NextHandlesLast
    <2>4. ASSUME failures' = 0, crashes' = 0, NothingReverted' PROVE SoFar(t, u, c)'
      <3>1. failures = 0 /\ crashes = 0
        BY <2>1, <2>4 DEF Deliver
      <3>2. NothingReverted
        BY <1>1, <2>2, <2>4, RevertedBefore
      <3> QED
        BY <1>1, <2>1, <2>4, <3>1, <3>2, DeliverSoFar DEF FollowInv
    <2> QED
      BY <1>1, <2>3, <2>4 DEF FollowInv
  <1>6. CASE EmbCrash
    <2>1. Next /\ crashes' # 0
      BY <1>1, <1>6 DEF EmbCrash, Crash, Next
    <2> QED
      BY <1>1, <2>1, NextHandlesLast DEF FollowInv
  <1>7. CASE \E x \in Callbacks, n \in DOMAIN chunks_raw : Answer(x, n)
    <2>1. PICK n \in DOMAIN chunks_raw : Answer(c, n)
      BY <1>1, <1>7
    <2>2. UNCHANGED <<pc, job, delivered, failures, crashes>>
      BY <2>1 DEF Answer, vars, taskVars, faultVars
    <2>3. HandlesLast(t)' /\ (NothingReverted' <=> NothingReverted)
      BY <1>3, <2>2
    <2>4. SoFar(t, u, c) => SoFar(t, u, c)'
      BY <1>1, <2>1, AnswerSoFar
    <2> QED
      BY <1>1, <2>2, <2>3, <2>4 DEF FollowInv
  <1>8. CASE \E x \in Callbacks : CallbackStep(x) \/ FetchStep(x)
    <2>1. CallbackStep(c) \/ FetchStep(c)
      BY <1>1, <1>8
    <2>2. UNCHANGED <<pc, job, delivered, crashes>> /\ (failures' = 0 => failures = 0)
      BY <1>2, <2>1, Zenon DEF CallbackStep, FetchStep
    <2>3. HandlesLast(t)' /\ (NothingReverted' <=> NothingReverted)
      BY <1>3, <2>2
    <2>4. failures' = 0 /\ SoFar(t, u, c) => SoFar(t, u, c)'
      BY <1>1, <2>1, CallbackSoFar
    <2> QED
      BY <1>1, <2>2, <2>3, <2>4 DEF FollowInv
  <1>9. CASE UNCHANGED <<chunk_snapshot, nodes, chunks_raw, pc, job, work, delivered, failures,
                         crashes, cbVars>>
    <2>1. HandlesLast(t)' /\ (NothingReverted' <=> NothingReverted)
      BY <1>3, <1>9
    <2>2. ASSUME SoFar(t, u, c) PROVE SoFar(t, u, c)'
      <3>1. /\ ChunksInStep(t, u)' /\ BatchInStep(t, u)' /\ NodesSent(t, u)'
        BY <1>1, <1>9, <2>2, SameContentSoFar DEF SoFar
      <3>2. InOrder' <=> InOrder
        BY <1>9, Zenon DEF InOrder, cbVars, historyVars
      <3>3. AnswersInStep(c)' <=> AnswersInStep(c)
        BY <1>9, Zenon DEF AnswersInStep, cbVars, historyVars
      <3>4. NodesEmbedded(u, c)' <=> NodesEmbedded(u, c)
        <4>1. /\ \A n, i : LastSent(n, i)' <=> LastSent(n, i)
              /\ \A d : Shows(u, d)' <=> Shows(u, d)
          BY <1>9, SameSent, SameShown
        <4>2. \A n, i : Handled(c, n, i)' <=> Handled(c, n, i)
          BY <1>9, SameHandled DEF cbVars, historyVars
        <4> QED
          BY <1>9, <4>1, <4>2 DEF NodesEmbedded, PassedOver, cbVars, historyVars
      <3> QED
        BY <2>2, <3>1, <3>2, <3>3, <3>4 DEF SoFar
    <2> QED
      BY <1>1, <1>9, <2>1, <2>2 DEF FollowInv
  <1>10. CASE CrowdOut /\ UNCHANGED cbVars
    BY <1>9, <1>10 DEF CrowdOut, pgVars, graphVars, taskVars, faultVars
  <1>11. CASE UNCHANGED allVars
    BY <1>9, <1>11 DEF allVars, vars, pgVars, graphVars, taskVars, faultVars
  <1> QED
    BY <1>4, <1>5, <1>6, <1>7, <1>8, <1>10, <1>11 DEF EmbNext

LEMMA EmbInitFollowInv ==
    ASSUME NEW t, Handlers = {t}, NEW u, Users = {u}, NEW c, Callbacks = {c}, EmbInit
    PROVE  FollowInv(t, u, c)
  <1>1. /\ Init /\ cb_pc[c] = "idle" /\ answered = <<>> /\ pc[t] = "idle"
        /\ chunks_raw = <<>> /\ delivered = <<>>
        /\ \A id \in Ids : chunk_snapshot[id] = None
        /\ \A k \in Keys : nodes[u][k] = None
    BY DEF EmbInit, Init
  <1>2. EmbTypeInv
    BY EmbInitTypeInv
  <1>3. HandlesLast(t)
    BY <1>1 DEF HandlesLast
  <1>4. \A d : ~SentChunk(d) /\ ~OnRow(d)
    BY <1>1 DEF SentChunk, OnRow, Recorded
  <1>5. ChunksInStep(t, u)
    BY <1>4 DEF ChunksInStep
  <1>6. BatchInStep(t, u)
    BY <1>1 DEF BatchInStep
  <1>7. NodesSent(t, u)
    BY <1>1 DEF NodesSent, HasContent
  <1>8. AnswersInStep(c)
    BY <1>1 DEF AnswersInStep
  <1>9. NodesEmbedded(u, c)
    BY <1>1 DEF NodesEmbedded
  <1> QED
    BY <1>2, <1>3, <1>5, <1>6, <1>7, <1>8, <1>9 DEF FollowInv, SoFar

LEMMA FollowedAtEnd ==
    ASSUME NEW t, Handlers = {t}, NEW u, Users = {u}, NEW c, Callbacks = {c},
           FollowInv(t, u, c)
    PROVE  EmbeddingsFollowEdits
  <1> SUFFICES ASSUME NothingReverted, AllIdle, failures = 0, crashes = 0, AnsweredInOrder,
                      NEW k \in Keys, HasContent(nodes[u][k])
               PROVE  \/ nodes[u][k].embeddings = nodes[u][k].content
                      \/ PassedOver(u, k)
    BY DEF EmbeddingsFollowEdits, PassedOver
  <1>1. /\ pc[t] = "idle" /\ cb_pc[c] = "idle" /\ chunks_raw \in Seq(Message)
    BY DEF AllIdle, Quiescent, FollowInv, EmbTypeInv, TypeInv, TypeOK
  <1>2. InOrder /\ Len(answered) = Len(chunks_raw)
    BY DEF AnsweredInOrder, InOrder
  <1>3. NodesSent(t, u) /\ NodesEmbedded(u, c)
    BY <1>2 DEF FollowInv, SoFar
  <1> PICK d : d = [key |-> k, hash |-> nodes[u][k].content]
    OBVIOUS
  <1>4. ~Owed(t, d)
    BY <1>1 DEF Owed
  <1>5. PICK n \in DOMAIN chunks_raw : \E i \in chunks_raw[n].sent :
           chunks_raw[n].chunks[i] = d /\ LastSent(n, i)
    BY <1>3, <1>4 DEF NodesSent
  <1> PICK i \in chunks_raw[n].sent : chunks_raw[n].chunks[i] = d /\ LastSent(n, i)
    BY <1>5
  <1>6. Handled(c, n, i)
    <2>1. n <= Len(chunks_raw)
      BY <1>1
    <2> QED
      BY <1>1, <1>2, <2>1 DEF Handled
  <1>7. Shows(u, d)
    BY DEF Shows, HasContent
  <1> QED
    BY <1>3, <1>5, <1>6, <1>7 DEF NodesEmbedded

(* EmbeddingsFollowEdits: for one user with one ingest and one callback    *)
(* task, a producer, versions without two chunks of one key, and no        *)
(* failure or crash, the vectors are those of the contents once every      *)
(* message has been answered once and in order, whatever the answers       *)
(* overlapped with, as long as no version brings an earlier chunk back;    *)
(* but for chunks whose last answer found their content neither in the     *)
(* cache nor, for the types of the cells, in the graph.                    *)
THEOREM EmbSpecEmbeddingsFollowEdits ==
    ASSUME UniqueKeys, ProducerReady, NEW t, Handlers = {t}, NEW u, Users = {u},
           NEW c, Callbacks = {c}
    PROVE  EmbSpec => []EmbeddingsFollowEdits
  <1>1. EmbInit => FollowInv(t, u, c)
    BY EmbInitFollowInv
  <1>2. FollowInv(t, u, c) /\ [EmbNext]_allVars => FollowInv(t, u, c)'
    BY EmbNextFollowInv
  <1>3. FollowInv(t, u, c) => EmbeddingsFollowEdits
    BY FollowedAtEnd
  <1> QED
    BY <1>1, <1>2, <1>3, PTL DEF EmbSpec
=============================================================================
