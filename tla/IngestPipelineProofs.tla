------------------------ MODULE IngestPipelineProofs ------------------------
(***************************************************************************)
(* Theorems about IngestPipeline, for any number of users, tasks, chunk    *)
(* keys and versions, and any bounds on events, failures and crashes.      *)
(***************************************************************************)
EXTENDS IngestPipeline, WellFoundedInduction, TLAPS

(* A running task holds the event it was given, and its index sets name    *)
(* chunks of that event's version; an idle one holds nothing.              *)
TasksOK ==
    \A t \in Handlers :
        /\ pc[t] = "idle" => work[t] = NoWork
        /\ pc[t] # "idle" =>
              /\ job[t] \in Job
              /\ work[t].to_process \subseteq DOMAIN job[t].chunks
              /\ work[t].left \subseteq DOMAIN job[t].chunks

TypeInv == TypeOK /\ TasksOK

-----------------------------------------------------------------------------
(* Facts about jobs and the operators on rows.                             *)

(* A nonempty set of indices of a sequence has a last one. *)
LEMMA LastIndex ==
    ASSUME NEW n \in Nat, NEW S \in SUBSET (1 .. n), S # {}
    PROVE  LastOf(S) \in S
  <1> DEFINE T == {m \in Nat : \E i \in S : m = n - i}
  <1>1. PICK i0 \in S : TRUE
    OBVIOUS
  <1>2. n - i0 \in T
    BY <1>1
  <1> HIDE DEF T
  <1>3. PICK x \in T : \A y \in T : ~(<<y, x>> \in OpToRel(<, Nat))
    <2>1. T \subseteq Nat
      BY DEF T
    <2> QED
      BY <1>2, <2>1, WFMin, NatLessThanWellFounded, Zenon
  <1>4. \A y \in T : ~(y < x)
    BY <1>3 DEF OpToRel, T
  <1>5. PICK i \in S : x = n - i
    BY DEF T
  <1>6. \A j \in S : n - j \in T
    BY DEF T
  <1>7. \A j \in S : j <= i
    BY <1>4, <1>5, <1>6
  <1> QED
    BY <1>7 DEF LastOf

(* The fields of a job are well typed: every chunk has a key and a hash.   *)
LEMMA JobFields ==
    ASSUME NEW e \in Job
    PROVE  /\ e.user \in Users
           /\ e.chunks \in Seq(Chunk)
           /\ DOMAIN e.chunks \subseteq Nat
           /\ \A S \in SUBSET DOMAIN e.chunks : S # {} => LastOf(S) \in S
           /\ e.chunks \in Versions \cup {<<>>}
           /\ \A i \in DOMAIN e.chunks :
                  /\ e.chunks[i].key \in Keys
                  /\ e.chunks[i].hash \in Hashes
                  /\ IdOf(e.chunks[i]) \in Ids
                  /\ KeyOf(IdOf(e.chunks[i])) = e.chunks[i].key
  <1>1. e.user \in Users /\ e.chunks \in Versions \cup {<<>>}
    BY DEF Job
  <1>2. e.chunks \in Seq(Chunk)
    <2>1. Versions \subseteq Seq(Chunk)
      BY ConstantsAssumption
    <2>2. <<>> \in Seq(Chunk)
      OBVIOUS
    <2> QED
      BY <1>1, <2>1, <2>2
  <1>3. DOMAIN e.chunks \subseteq Nat
    BY <1>2
  <1>4. \A i \in DOMAIN e.chunks : e.chunks[i] \in Chunk
    BY <1>2
  <1>5. ASSUME NEW S \in SUBSET DOMAIN e.chunks, S # {}
        PROVE  LastOf(S) \in S
    <2>1. DOMAIN e.chunks = 1 .. Len(e.chunks) /\ Len(e.chunks) \in Nat
      BY <1>2
    <2>2. S \subseteq 1 .. Len(e.chunks)
      BY <2>1
    <2> QED
      BY <1>5, <2>1, <2>2, LastIndex
  <1> QED
    BY <1>1, <1>2, <1>3, <1>4, <1>5 DEF Chunk, IdOf, KeyOf, Ids

(* Tombstoning forgets no row (the UPDATE of mark_chunks_deleted). *)
LEMMA TombstonedRows ==
    ASSUME NEW rows \in [Ids -> Row \cup {None}], NEW ids
    PROVE  /\ Tombstoned(rows, ids) \in [Ids -> Row \cup {None}]
           /\ Recorded(Tombstoned(rows, ids)) = Recorded(rows)
  <1>1. None \notin Row
    BY ConstantsAssumption
  <1>2. \A r \in Row : [r EXCEPT !.tombstone = TRUE] \in Row
    BY DEF Row
  <1> QED
    BY <1>1, <1>2 DEF Tombstoned, Recorded

(* Upserting forgets no row and puts every chunk of the batch on record. *)
LEMMA UpsertedRows ==
    ASSUME NEW rows \in [Ids -> Row \cup {None}], NEW e \in Job,
           NEW batch \in SUBSET DOMAIN e.chunks
    PROVE  /\ Upserted(rows, e.chunks, batch) \in [Ids -> Row \cup {None}]
           /\ Recorded(rows) \subseteq Recorded(Upserted(rows, e.chunks, batch))
           /\ \A i \in batch :
                 IdOf(e.chunks[i]) \in Recorded(Upserted(rows, e.chunks, batch))
  <1> DEFINE U == Upserted(rows, e.chunks, batch)
  <1> DEFINE same(id) == {i \in batch : IdOf(e.chunks[i]) = id}
  <1>1. ASSUME NEW id \in Ids, same(id) = {}
        PROVE  U[id] = rows[id]
    BY <1>1 DEF Upserted
  <1>2. ASSUME NEW id \in Ids, same(id) # {}
        PROVE  U[id] \in Row
    <2>1. LastOf(same(id)) \in same(id)
      BY <1>2, JobFields
    <2>2. e.chunks[LastOf(same(id))].hash \in Hashes
      BY <2>1, JobFields
    <2> QED
      BY <1>2, <2>2 DEF Upserted, Row
  <1>3. U \in [Ids -> Row \cup {None}]
    <2>1. \A id \in Ids : U[id] \in Row \cup {None}
      BY <1>1, <1>2
    <2>2. U = [id \in Ids |-> U[id]]
      BY DEF Upserted
    <2> QED
      BY <2>1, <2>2
  <1>4. None \notin Row
    BY ConstantsAssumption
  <1>5. Recorded(rows) \subseteq Recorded(U)
    BY <1>1, <1>2, <1>4 DEF Recorded
  <1>6. ASSUME NEW i \in batch
        PROVE  IdOf(e.chunks[i]) \in Recorded(U)
    <2>1. IdOf(e.chunks[i]) \in Ids /\ i \in same(IdOf(e.chunks[i]))
      BY JobFields
    <2> QED
      BY <2>1, <1>2, <1>4 DEF Recorded
  <1> QED
    BY <1>3, <1>5, <1>6

(* So the transaction of atomic_replace_file_chunks only adds to the keys  *)
(* on record.                                                              *)
LEMMA ReplacedRows ==
    ASSUME NEW rows \in [Ids -> Row \cup {None}], NEW e \in Job,
           NEW batch \in SUBSET DOMAIN e.chunks, NEW gone
    PROVE  LET new == Replaced(rows, gone, e.chunks, batch)
           IN  /\ new \in [Ids -> Row \cup {None}]
               /\ Recorded(rows) \subseteq Recorded(new)
               /\ \A i \in batch : IdOf(e.chunks[i]) \in Recorded(new)
  <1>1. Tombstoned(rows, gone) \in [Ids -> Row \cup {None}]
    BY TombstonedRows
  <1>2. Recorded(Tombstoned(rows, gone)) = Recorded(rows)
    BY TombstonedRows
  <1> QED
    BY <1>1, <1>2, UpsertedRows DEF Replaced

-----------------------------------------------------------------------------
(* Type correctness.                                                       *)

LEMMA InitTypeInv == Init => TypeInv
  BY ConstantsAssumption
     DEF Init, TypeInv, TypeOK, TasksOK, PCs, Work, NoWork

LEMMA DeliverTypeInv ==
    ASSUME TypeInv, NEW t \in Handlers, NEW e \in Job, Deliver(t, e)
    PROVE  TypeInv'
  <1> USE DEF Deliver, Goto, pgVars, graphVars
  <1>1. TypeOK'
    BY DEF TypeInv, TypeOK, PCs
  <1>2. TasksOK'
    BY JobFields DEF TypeInv, TypeOK, TasksOK, NoWork
  <1> QED
    BY <1>1, <1>2 DEF TypeInv

(* A call that succeeds or fails keeps the history variables typed. *)
LEMMA FaultTypes ==
    ASSUME TypeInv, NEW t \in Handlers, NEW call, Succeeds \/ Fails(t, call)
    PROVE  failures' \in Nat /\ troubled' \subseteq Handlers
  BY DEF TypeInv, TypeOK, Succeeds, Fails, faultVars

(* What every step of a running task that does not end it has in common:   *)
(* the task moves on with well-typed locals, and the stores keep their     *)
(* types.                                                                  *)
StoresTyped ==
    /\ chunk_snapshot \in [Ids -> Row \cup {None}]
    /\ file_metadata \in Users \cup {None}
    /\ nodes \in [Users -> [Keys -> Node \cup {None}]]
    /\ edges \in [Users -> SUBSET (Keys \X Keys)]
    /\ cache \in [Keys -> Hashes \cup {None}]
    /\ chunks_raw \in Seq(Message)

LEMMA StepTypeInv ==
    ASSUME TypeInv, NEW t \in Handlers, pc[t] # "idle",
           NEW p \in PCs \ {"idle"}, Goto(t, p),
           NEW w \in Work, Remember(t, w),
           w.to_process \subseteq DOMAIN job[t].chunks,
           w.left \subseteq DOMAIN job[t].chunks,
           UNCHANGED <<job, delivered, crashes>>,
           failures' \in Nat, troubled' \subseteq Handlers,
           StoresTyped'
    PROVE  TypeInv'
  <1>1. TypeOK'
    BY DEF TypeInv, TypeOK, StoresTyped, Goto, Remember
  <1>2. TasksOK'
    <2> SUFFICES ASSUME NEW s \in Handlers
                 PROVE  /\ pc'[s] = "idle" => work'[s] = NoWork
                        /\ pc'[s] # "idle" =>
                              /\ job'[s] \in Job
                              /\ work'[s].to_process \subseteq DOMAIN job'[s].chunks
                              /\ work'[s].left \subseteq DOMAIN job'[s].chunks
      BY DEF TasksOK
    <2>1. CASE s = t
      BY <2>1 DEF TypeInv, TypeOK, TasksOK, Goto, Remember
    <2>2. CASE s # t
      BY <2>2 DEF TypeInv, TypeOK, TasksOK, Goto, Remember
    <2> QED
      BY <2>1, <2>2
  <1> QED
    BY <1>1, <1>2 DEF TypeInv

(* What a running task holds, in the form the steps use it. *)
LEMMA Running ==
    ASSUME TypeInv, NEW t \in Handlers, pc[t] # "idle"
    PROVE  /\ job[t] \in Job
           /\ UserGraph(t) \in Users
           /\ DOMAIN job[t].chunks \subseteq Nat
           /\ work[t] \in Work
           /\ work[t].to_process \in SUBSET DOMAIN job[t].chunks
           /\ work[t].left \in SUBSET DOMAIN job[t].chunks
           /\ Remember(t, work[t]) <=> work' = work
           /\ StoresTyped
  BY JobFields DEF TypeInv, TypeOK, TasksOK, UserGraph, Remember, StoresTyped

LEMMA FirstDiffTypeInv ==
    ASSUME TypeInv, NEW t \in Handlers, FirstDiff(t)
    PROVE  TypeInv'
  <1>1. pc[t] # "idle"
    BY DEF FirstDiff
  <1>2. /\ failures' \in Nat /\ troubled' \subseteq Handlers
        /\ UNCHANGED <<job, delivered, crashes>>
        /\ StoresTyped'
    BY <1>1, Running, FaultTypes DEF FirstDiff, StoresTyped, pgVars, graphVars
  <1>3. AfterFirstDiff(t) \in PCs \ {"idle"} /\ "mark" \in PCs \ {"idle"}
    BY DEF AfterFirstDiff, PCs
  <1>4. CASE Succeeds
    <2>1. PICK m \in SnapshotMaps(chunk_snapshot) :
             LET gone == DOMAIN m \ KeysOf(job[t].chunks)
                 clean == CleanChunks(job[t].chunks, chunk_snapshot, m)
             IN  /\ Remember(t, [work[t] EXCEPT !.clean = clean, !.to_mark = gone,
                                               !.orphans = gone])
                 /\ Goto(t, IF gone = {} THEN AfterFirstDiff(t) ELSE "mark")
      <3>1. ~Fails(t, "read_snapshots")
        BY <1>4 DEF Succeeds, Fails, faultVars, TypeInv, TypeOK
      <3> QED
        BY <1>4, <3>1 DEF FirstDiff
    <2> DEFINE gone == DOMAIN m \ KeysOf(job[t].chunks)
    <2> DEFINE clean == CleanChunks(job[t].chunks, chunk_snapshot, m)
    <2> DEFINE w == [work[t] EXCEPT !.clean = clean, !.to_mark = gone, !.orphans = gone]
    <2>2. gone \subseteq Keys
      <3>1. \A id \in Ids : KeyOf(id) \in Keys
        BY DEF KeyOf, Ids
      <3>2. DOMAIN m \subseteq {KeyOf(id) : id \in DiffRows(chunk_snapshot)}
        BY DEF SnapshotMaps
      <3> QED
        BY <3>1, <3>2 DEF DiffRows, Recorded
    <2>3. clean \subseteq Nat
      BY <1>1, Running DEF CleanChunks
    <2>4. /\ w \in Work
          /\ w.to_process = work[t].to_process
          /\ w.left = work[t].left
      BY <1>1, <2>2, <2>3, Running DEF Work
    <2> HIDE DEF w
    <2> QED
      BY <1>1, <1>2, <1>3, <2>1, <2>4, Running, StepTypeInv DEF w
  <1>5. CASE ~Succeeds
    BY <1>1, <1>2, <1>3, <1>5, Running, StepTypeInv DEF FirstDiff
  <1> QED
    BY <1>4, <1>5

LEMMA MarkDeletedTypeInv ==
    ASSUME TypeInv, NEW t \in Handlers, MarkDeleted(t)
    PROVE  TypeInv'
  <1>1. pc[t] # "idle"
    BY DEF MarkDeleted
  <1>2. PICK k \in work[t].to_mark :
          /\ \/ /\ Succeeds
                /\ chunk_snapshot' =
                      Tombstoned(chunk_snapshot, {id \in Ids : KeyOf(id) = k})
             \/ Fails(t, "mark_deleted") /\ UNCHANGED chunk_snapshot
          /\ Remember(t, [work[t] EXCEPT !.to_mark = @ \ {k}])
          /\ Goto(t, IF work[t].to_mark = {k} THEN "delete_orphans" ELSE "mark")
    BY DEF MarkDeleted
  <1>3. /\ failures' \in Nat /\ troubled' \subseteq Handlers
        /\ UNCHANGED <<job, delivered, crashes>>
    BY <1>2, FaultTypes DEF MarkDeleted
  <1>4. StoresTyped'
    <2>1. chunk_snapshot \in [Ids -> Row \cup {None}]
      BY DEF TypeInv, TypeOK
    <2>2. Tombstoned(chunk_snapshot, {id \in Ids : KeyOf(id) = k}) \in [Ids -> Row \cup {None}]
      BY <2>1, TombstonedRows
    <2>3. chunk_snapshot' \in [Ids -> Row \cup {None}]
      BY <1>2, <2>1, <2>2
    <2> QED
      BY <1>1, <2>3, Running DEF MarkDeleted, StoresTyped, graphVars
  <1> DEFINE w == [work[t] EXCEPT !.to_mark = @ \ {k}]
  <1>5. /\ w \in Work
        /\ w.to_process = work[t].to_process
        /\ w.left = work[t].left
    BY <1>1, Running DEF Work
  <1>6. (IF work[t].to_mark = {k} THEN "delete_orphans" ELSE "mark") \in PCs \ {"idle"}
    BY DEF PCs
  <1> QED
    BY <1>1, <1>2, <1>3, <1>4, <1>5, <1>6, Running, StepTypeInv

(* Deleting nodes leaves graphs. *)
LEMMA DetachDeleteTypes ==
    ASSUME TypeInv, NEW u \in Users, NEW keys, DetachDelete(u, keys)
    PROVE  /\ nodes' \in [Users -> [Keys -> Node \cup {None}]]
           /\ edges' \in [Users -> SUBSET (Keys \X Keys)]
  BY DEF DetachDelete, TypeInv, TypeOK

LEMMA DeleteOrphansTypeInv ==
    ASSUME TypeInv, NEW t \in Handlers, DeleteOrphans(t)
    PROVE  TypeInv'
  <1>1. pc[t] # "idle"
    BY DEF DeleteOrphans
  <1>2. /\ nodes' \in [Users -> [Keys -> Node \cup {None}]]
        /\ edges' \in [Users -> SUBSET (Keys \X Keys)]
    <2>1. CASE DetachDelete(UserGraph(t), work[t].orphans)
      BY <1>1, <2>1, Running, DetachDeleteTypes
    <2>2. CASE UNCHANGED graphVars
      BY <2>2 DEF TypeInv, TypeOK, graphVars
    <2> QED
      BY <2>1, <2>2 DEF DeleteOrphans
  <1>3. /\ failures' \in Nat /\ troubled' \subseteq Handlers
        /\ UNCHANGED <<job, delivered, crashes>>
        /\ Goto(t, AfterFirstDiff(t))
        /\ Remember(t, work[t])
    BY <1>1, Running, FaultTypes DEF DeleteOrphans
  <1>4. StoresTyped'
    BY <1>1, <1>2, Running DEF DeleteOrphans, StoresTyped, pgVars
  <1>5. AfterFirstDiff(t) \in PCs \ {"idle"}
    BY DEF AfterFirstDiff, PCs
  <1> QED
    BY <1>1, <1>3, <1>4, <1>5, Running, StepTypeInv

LEMMA SecondDiffTypeInv ==
    ASSUME TypeInv, NEW t \in Handlers, SecondDiff(t)
    PROVE  TypeInv'
  <1>1. pc[t] # "idle"
    BY DEF SecondDiff
  <1>2. PICK m \in ExistingMaps(chunk_snapshot) \cup {<<>>} :
          LET batch == ChunksToProcess(job[t].chunks, m)
              gone == ToDelete(job[t].chunks, m)
          IN  /\ Succeeds \/ Fails(t, "read_snapshots")
              /\ Remember(t, [work[t] EXCEPT !.to_process = batch, !.to_delete = gone])
              /\ Goto(t, IF batch = {} /\ gone = {} THEN "metadata" ELSE "replace")
    BY DEF SecondDiff
  <1> DEFINE batch == ChunksToProcess(job[t].chunks, m)
  <1> DEFINE gone == ToDelete(job[t].chunks, m)
  <1> DEFINE w == [work[t] EXCEPT !.to_process = batch, !.to_delete = gone]
  <1>3. batch \subseteq DOMAIN job[t].chunks
    BY DEF ChunksToProcess
  <1>4. gone \subseteq Ids
    <2>1. CASE m = <<>>
      BY <2>1 DEF ToDelete
    <2>2. CASE m \in ExistingMaps(chunk_snapshot)
      BY <2>2 DEF ToDelete, ExistingMaps, Live, Recorded
    <2> QED
      BY <2>1, <2>2
  <1>5. /\ w \in Work
        /\ w.to_process = batch
        /\ w.left = work[t].left
    <2>1. work[t] \in Work /\ batch \in SUBSET Nat /\ gone \in SUBSET Ids
      BY <1>1, <1>3, <1>4, Running
    <2> HIDE DEF batch, gone
    <2> QED
      BY <2>1 DEF Work
  <1>6. /\ failures' \in Nat /\ troubled' \subseteq Handlers
        /\ UNCHANGED <<job, delivered, crashes>>
        /\ StoresTyped'
    BY <1>1, <1>2, Running, FaultTypes DEF SecondDiff, StoresTyped, pgVars, graphVars
  <1>7. (IF batch = {} /\ gone = {} THEN "metadata" ELSE "replace") \in PCs \ {"idle"}
    BY DEF PCs
  <1> HIDE DEF batch, gone
  <1> QED
    BY <1>1, <1>2, <1>3, <1>5, <1>6, <1>7, Running, StepTypeInv DEF batch, gone

LEMMA ReplaceTypeInv ==
    ASSUME TypeInv, NEW t \in Handlers, Replace(t)
    PROVE  TypeInv'
  <1>1. pc[t] # "idle"
    BY DEF Replace
  <1>2. chunk_snapshot' \in [Ids -> Row \cup {None}]
    <2>1. CASE UNCHANGED chunk_snapshot
      BY <2>1 DEF TypeInv, TypeOK
    <2>2. CASE chunk_snapshot' = Replaced(chunk_snapshot, work[t].to_delete,
                                          job[t].chunks, work[t].to_process)
      BY <1>1, <2>2, Running, ReplacedRows DEF TypeInv, TypeOK
    <2> QED
      BY <2>1, <2>2 DEF Replace
  <1>3. /\ failures' \in Nat /\ troubled' \subseteq Handlers
        /\ UNCHANGED <<job, delivered, crashes>>
        /\ Goto(t, "cache")
        /\ Remember(t, work[t])
    BY <1>1, Running, FaultTypes DEF Replace
  <1>4. StoresTyped'
    BY <1>1, <1>2, Running DEF Replace, StoresTyped, graphVars
  <1>5. "cache" \in PCs \ {"idle"}
    BY DEF PCs
  <1> QED
    BY <1>1, <1>3, <1>4, <1>5, Running, StepTypeInv

LEMMA CacheChunksTypeInv ==
    ASSUME TypeInv, NEW t \in Handlers, CacheChunks(t)
    PROVE  TypeInv'
  <1>1. pc[t] # "idle"
    BY DEF CacheChunks
  <1> DEFINE same(k) == WithKey(job[t].chunks, work[t].to_process, k)
  <1>2. ASSUME NEW k \in Keys, same(k) # {}
        PROVE  job[t].chunks[LastOf(same(k))].hash \in Hashes
    <2>1. same(k) \subseteq DOMAIN job[t].chunks
      BY <1>1, Running DEF WithKey
    <2>2. LastOf(same(k)) \in DOMAIN job[t].chunks
      BY <1>1, <1>2, <2>1, Running, JobFields
    <2> QED
      BY <1>1, <2>2, Running, JobFields
  <1>3. cache' \in [Keys -> Hashes \cup {None}]
    BY <1>2 DEF CacheChunks, TypeInv, TypeOK
  <1>4. /\ failures' \in Nat /\ troubled' \subseteq Handlers
        /\ UNCHANGED <<job, delivered, crashes>>
        /\ StoresTyped'
    BY <1>1, <1>3, Running
       DEF CacheChunks, StoresTyped, pgVars, graphVars, faultVars, TypeInv, TypeOK
  <1> DEFINE links == ChainLinks(job[t].chunks, work[t].to_process)
  <1> DEFINE w == [work[t] EXCEPT !.left = work[t].to_process, !.links = links]
  <1>5. links \subseteq Keys \X Keys
    BY DEF ChainLinks
  <1>6. /\ w \in Work
        /\ w.to_process = work[t].to_process
        /\ w.left = work[t].to_process
    <2> HIDE DEF links
    <2> QED
      BY <1>1, <1>5, Running DEF Work
  <1>7. Remember(t, w)
    BY DEF CacheChunks
  <1>8. (IF work[t].to_process = {} THEN "metadata" ELSE "store") \in PCs \ {"idle"}
    BY DEF PCs
  <1>9. Goto(t, IF work[t].to_process = {} THEN "metadata" ELSE "store")
    BY DEF CacheChunks
  <1> HIDE DEF w
  <1> QED
    BY <1>1, <1>4, <1>6, <1>7, <1>8, <1>9, Running, StepTypeInv

LEMMA StoreNodeTypeInv ==
    ASSUME TypeInv, NEW t \in Handlers, StoreNode(t)
    PROVE  TypeInv'
  <1>1. pc[t] # "idle"
    BY DEF StoreNode
  <1>2. PICK i \in work[t].left :
          LET rest == work[t].left \ {i}
              next == IF rest = {} THEN ToPublish(t) ELSE rest
          IN  /\ \/ /\ Succeeds
                    /\ nodes' = [nodes EXCEPT ![UserGraph(t)] =
                                    MergeNode(@, job[t].chunks[i])]
                 \/ Fails(t, "store") /\ UNCHANGED nodes
              /\ Remember(t, [work[t] EXCEPT !.left = next])
              /\ Goto(t, IF rest = {} THEN AfterStore(t) ELSE "store")
    BY DEF StoreNode
  <1> DEFINE rest == work[t].left \ {i}
  <1> DEFINE next == IF rest = {} THEN ToPublish(t) ELSE rest
  <1> DEFINE w == [work[t] EXCEPT !.left = next]
  <1>3. ASSUME NEW g \in [Keys -> Node \cup {None}]
        PROVE  MergeNode(g, job[t].chunks[i]) \in [Keys -> Node \cup {None}]
    <2>1. job[t].chunks[i].key \in Keys /\ job[t].chunks[i].hash \in Hashes
      BY <1>1, Running, JobFields
    <2> QED
      BY <2>1 DEF MergeNode, Node
  <1>4. nodes' \in [Users -> [Keys -> Node \cup {None}]]
    <2> DEFINE new == MergeNode(nodes[UserGraph(t)], job[t].chunks[i])
    <2>1. new \in [Keys -> Node \cup {None}]
      BY <1>1, <1>3, Running DEF TypeInv, TypeOK
    <2>2. nodes' = nodes \/ nodes' = [nodes EXCEPT ![UserGraph(t)] = new]
      BY <1>2
    <2> HIDE DEF new
    <2> QED
      BY <1>1, <2>1, <2>2, Running DEF TypeInv, TypeOK
  <1>5. /\ failures' \in Nat /\ troubled' \subseteq Handlers
        /\ UNCHANGED <<job, delivered, crashes>>
        /\ StoresTyped'
    BY <1>1, <1>2, <1>4, Running, FaultTypes DEF StoreNode, StoresTyped, pgVars
  <1>6. next \subseteq DOMAIN job[t].chunks
    BY <1>1, Running DEF ToPublish
  <1>7. /\ w \in Work
        /\ w.to_process = work[t].to_process
        /\ w.left = next
    <2> HIDE DEF next
    <2> QED
      BY <1>1, <1>6, Running DEF Work
  <1>8. (IF rest = {} THEN AfterStore(t) ELSE "store") \in PCs \ {"idle"}
    BY DEF PCs, AfterStore
  <1>9. /\ Remember(t, w)
        /\ Goto(t, IF rest = {} THEN AfterStore(t) ELSE "store")
    BY <1>2
  <1> HIDE DEF w, next, rest
  <1> QED
    BY <1>1, <1>5, <1>6, <1>7, <1>8, <1>9, Running, StepTypeInv

LEMMA StoreLinkTypeInv ==
    ASSUME TypeInv, NEW t \in Handlers, StoreLink(t)
    PROVE  TypeInv'
  <1>1. pc[t] # "idle"
    BY DEF StoreLink
  <1>2. PICK link \in work[t].links :
          /\ \/ /\ Succeeds
                /\ nodes' = [nodes EXCEPT ![UserGraph(t)] = MergeEnds(@, link)]
                /\ edges' = [edges EXCEPT ![UserGraph(t)] = @ \cup {link}]
             \/ Fails(t, "relate") /\ UNCHANGED graphVars
          /\ Remember(t, [work[t] EXCEPT !.links = @ \ {link}])
          /\ Goto(t, IF work[t].links # {link} THEN "relate"
                     ELSE IF work[t].left # {} THEN "publish" ELSE "metadata")
    BY DEF StoreLink
  <1>3. ASSUME NEW g \in [Keys -> Node \cup {None}]
        PROVE  MergeEnds(g, link) \in [Keys -> Node \cup {None}]
    BY DEF MergeEnds, Node, Phantom
  <1>4. nodes' \in [Users -> [Keys -> Node \cup {None}]]
    BY <1>1, <1>2, <1>3, Running DEF TypeInv, TypeOK, graphVars
  <1>5. edges' \in [Users -> SUBSET (Keys \X Keys)]
    <2> DEFINE new == edges[UserGraph(t)] \cup {link}
    <2>1. link \in Keys \X Keys
      BY <1>1, Running DEF Work
    <2>2. edges[UserGraph(t)] \in SUBSET (Keys \X Keys)
      BY <1>1, Running DEF TypeInv, TypeOK
    <2>3. new \in SUBSET (Keys \X Keys)
      BY <2>1, <2>2
    <2>4. edges' = edges \/ edges' = [edges EXCEPT ![UserGraph(t)] = new]
      BY <1>2 DEF graphVars
    <2> HIDE DEF new
    <2> QED
      BY <1>1, <2>3, <2>4, Running DEF TypeInv, TypeOK
  <1>6. /\ failures' \in Nat /\ troubled' \subseteq Handlers
        /\ UNCHANGED <<job, delivered, crashes>>
        /\ StoresTyped'
    BY <1>1, <1>2, <1>4, <1>5, Running, FaultTypes DEF StoreLink, StoresTyped, pgVars
  <1> DEFINE w == [work[t] EXCEPT !.links = @ \ {link}]
  <1>7. /\ w \in Work
        /\ w.to_process = work[t].to_process
        /\ w.left = work[t].left
    BY <1>1, Running DEF Work
  <1>8. (IF work[t].links # {link} THEN "relate"
         ELSE IF work[t].left # {} THEN "publish" ELSE "metadata") \in PCs \ {"idle"}
    BY DEF PCs
  <1> QED
    BY <1>1, <1>2, <1>6, <1>7, <1>8, Running, StepTypeInv

LEMMA PublishTypeInv ==
    ASSUME TypeInv, NEW t \in Handlers, Publish(t)
    PROVE  TypeInv'
  <1>1. pc[t] # "idle"
    BY DEF Publish
  <1> DEFINE sent == NextBatch(work[t].left)
  <1> DEFINE message == [user |-> job[t].user, chunks |-> job[t].chunks, sent |-> sent]
  <1>2. message \in Message
    BY <1>1, Running, JobFields DEF NextBatch, Message
  <1>3. chunks_raw' \in Seq(Message)
    <2>1. chunks_raw' = chunks_raw \/ chunks_raw' = Append(chunks_raw, message)
      BY DEF Publish
    <2>2. chunks_raw \in Seq(Message)
      BY DEF TypeInv, TypeOK
    <2> HIDE DEF message
    <2>3. Append(chunks_raw, message) \in Seq(Message)
      BY <1>2, <2>2
    <2> QED
      BY <2>1, <2>2, <2>3
  <1>4. /\ failures' \in Nat /\ troubled' \subseteq Handlers
        /\ UNCHANGED <<job, delivered, crashes>>
        /\ StoresTyped'
    BY <1>1, <1>3, Running, FaultTypes DEF Publish, StoresTyped, pgVars, graphVars
  <1>5. PICK next \in {work[t].left \ sent, {}}, p \in {"publish", "metadata"} :
          Remember(t, [work[t] EXCEPT !.left = next]) /\ Goto(t, p)
    BY DEF Publish
  <1> DEFINE w == [work[t] EXCEPT !.left = next]
  <1>6. next \subseteq DOMAIN job[t].chunks
    BY <1>1, Running
  <1>7. /\ w \in Work
        /\ w.to_process = work[t].to_process
        /\ w.left = next
    <2>1. next \subseteq Nat
      BY <1>1, <1>6, Running
    <2> HIDE DEF sent
    <2> QED
      BY <1>1, <2>1, Running DEF Work
  <1>8. p \in PCs \ {"idle"}
    BY DEF PCs
  <1> HIDE DEF w, sent, message
  <1> QED
    BY <1>1, <1>4, <1>5, <1>6, <1>7, <1>8, Running, StepTypeInv DEF w

(* The steps that end a task, and the deletion of a file's nodes. *)
LEMMA LastStepsTypeInv ==
    ASSUME TypeInv, NEW t \in Handlers,
           StoreMetadata(t) \/ DeleteNodes(t) \/ DeleteMetadata(t)
    PROVE  TypeInv'
  <1> USE DEF Goto, Finish, Remember, pgVars, graphVars, faultVars, Succeeds, Fails
  <1>1. pc[t] # "idle" /\ job[t].user \in Users /\ UserGraph(t) \in Users
    BY JobFields DEF TypeInv, TasksOK, StoreMetadata, DeleteNodes, DeleteMetadata, UserGraph
  <1>2. NoWork \in Work
    BY DEF NoWork, Work
  <1>3. CASE StoreMetadata(t)
    <2>1. TypeOK'
      BY <1>1, <1>2, <1>3 DEF StoreMetadata, TypeInv, TypeOK, PCs
    <2>2. TasksOK'
      BY <1>1, <1>2, <1>3 DEF StoreMetadata, TypeInv, TypeOK, TasksOK
    <2> QED
      BY <2>1, <2>2 DEF TypeInv
  <1>4. CASE DeleteNodes(t)
    <2>1. /\ nodes' \in [Users -> [Keys -> Node \cup {None}]]
          /\ edges' \in [Users -> SUBSET (Keys \X Keys)]
      <3>1. CASE DetachDelete(UserGraph(t), FileNodes(nodes[UserGraph(t)]))
        BY <1>1, <3>1, DetachDeleteTypes
      <3>2. CASE UNCHANGED graphVars
        BY <3>2 DEF TypeInv, TypeOK
      <3> QED
        BY <1>4, <3>1, <3>2 DEF DeleteNodes
    <2>2. TypeOK'
      <3>1. CASE Succeeds /\ Goto(t, "delete_metadata") /\ UNCHANGED <<job, work>>
        BY <1>4, <2>1, <3>1 DEF DeleteNodes, TypeInv, TypeOK, PCs
      <3>2. CASE Fails(t, "delete_nodes") /\ Finish(t)
        BY <1>2, <1>4, <2>1, <3>2 DEF DeleteNodes, TypeInv, TypeOK, PCs
      <3> QED
        BY <1>4, <3>1, <3>2 DEF DeleteNodes
    <2>3. TasksOK'
      BY <1>1, <1>2, <1>4 DEF DeleteNodes, TypeInv, TypeOK, TasksOK
    <2> QED
      BY <2>2, <2>3 DEF TypeInv
  <1>5. CASE DeleteMetadata(t)
    <2>1. TypeOK'
      BY <1>1, <1>2, <1>5 DEF DeleteMetadata, TypeInv, TypeOK, PCs
    <2>2. TasksOK'
      BY <1>1, <1>2, <1>5 DEF DeleteMetadata, TypeInv, TypeOK, TasksOK
    <2> QED
      BY <2>1, <2>2 DEF TypeInv
  <1> QED
    BY <1>3, <1>4, <1>5

LEMMA CrashTypeInv == ASSUME TypeInv, Crash PROVE TypeInv'
  <1>1. NoWork \in Work
    BY DEF NoWork, Work
  <1> QED
    BY <1>1 DEF Crash, TypeInv, TypeOK, TasksOK, PCs, pgVars, graphVars

LEMMA CrowdOutTypeInv == ASSUME TypeInv, CrowdOut PROVE TypeInv'
  BY DEF CrowdOut, TypeInv, TypeOK, TasksOK, pgVars, graphVars, taskVars, faultVars

LEMMA NextTypeInv == TypeInv /\ [Next]_vars => TypeInv'
  <1> SUFFICES ASSUME TypeInv, [Next]_vars PROVE TypeInv'
    OBVIOUS
  <1>1. ASSUME NEW t \in Handlers, Step(t) PROVE TypeInv'
    BY <1>1, FirstDiffTypeInv, MarkDeletedTypeInv, DeleteOrphansTypeInv,
       SecondDiffTypeInv, ReplaceTypeInv, CacheChunksTypeInv, StoreNodeTypeInv,
       StoreLinkTypeInv, PublishTypeInv, LastStepsTypeInv DEF Step
  <1>2. ASSUME NEW t \in Handlers, NEW e \in Job, Deliver(t, e) PROVE TypeInv'
    BY <1>2, DeliverTypeInv
  <1>3. CASE Crash
    BY <1>3, CrashTypeInv
  <1>4. CASE CrowdOut
    BY <1>4, CrowdOutTypeInv
  <1>5. CASE UNCHANGED vars
    BY <1>5 DEF vars, pgVars, graphVars, taskVars, faultVars, TypeInv, TypeOK, TasksOK
  <1> QED
    BY <1>1, <1>2, <1>3, <1>4, <1>5 DEF Next

(* Every variable keeps its type, and every running task its event. *)
THEOREM SpecTypeInv == Spec => []TypeInv
  BY InitTypeInv, NextTypeInv, PTL DEF Spec

(* Every variable keeps its type, whatever fails, crashes or interleaves. *)
THEOREM SpecTypeOK == Spec => []TypeOK
  <1>1. TypeInv => TypeOK
    BY DEF TypeInv
  <1> QED
    BY <1>1, SpecTypeInv, PTL

-----------------------------------------------------------------------------
(* Every node is on record.                                                *)

(* From the transaction to the last message, the batch of task t is on     *)
(* record, and what is left to store, link or send is of the batch.        *)
OnRecord(t) ==
    /\ pc[t] \in {"cache", "store", "relate", "publish"} =>
          \A i \in work[t].to_process :
              IdOf(job[t].chunks[i]) \in Recorded(chunk_snapshot)
    /\ pc[t] \in {"store", "relate", "publish"} =>
          work[t].left \subseteq work[t].to_process
    /\ pc[t] \in {"store", "relate"} =>
          \A link \in work[t].links : \E i, j \in work[t].to_process :
              link = <<job[t].chunks[i].key, job[t].chunks[j].key>>

BatchOnRecord == \A t \in Handlers : OnRecord(t)

(* So is every chunk that was sent to the embeddings service. *)
SentOnRecord ==
    \A n \in DOMAIN chunks_raw : \A i \in chunks_raw[n].sent :
        IdOf(chunks_raw[n].chunks[i]) \in Recorded(chunk_snapshot)

TrackInv == TypeInv /\ BatchOnRecord /\ SentOnRecord /\ NodesTracked

(* No step forgets a row: rows are inserted, revived and tombstoned only. *)
LEMMA RowsKept ==
    ASSUME TypeInv, [Next]_vars
    PROVE  Recorded(chunk_snapshot) \subseteq Recorded(chunk_snapshot')
  <1> DEFINE Kept == Recorded(chunk_snapshot) \subseteq Recorded(chunk_snapshot')
  <1>1. CASE UNCHANGED chunk_snapshot
    BY <1>1
  <1>2. ASSUME NEW t \in Handlers, MarkDeleted(t)
        PROVE  Kept
    BY <1>1, <1>2, TombstonedRows DEF MarkDeleted, TypeInv, TypeOK
  <1>3. ASSUME NEW t \in Handlers, Replace(t)
        PROVE  Kept
    <2>1. pc[t] # "idle"
      BY <1>3 DEF Replace
    <2>2. CASE chunk_snapshot' = Replaced(chunk_snapshot, work[t].to_delete,
                                          job[t].chunks, work[t].to_process)
      BY <2>1, <2>2, Running, ReplacedRows DEF TypeInv, TypeOK
    <2> QED
      BY <1>1, <1>3, <2>2 DEF Replace
  <1>4. ASSUME NEW t \in Handlers, Step(t), ~MarkDeleted(t), ~Replace(t)
        PROVE  UNCHANGED chunk_snapshot
    BY <1>4 DEF Step, FirstDiff, DeleteOrphans, SecondDiff, CacheChunks, StoreNode,
                StoreLink, Publish, StoreMetadata, DeleteNodes, DeleteMetadata, pgVars
  <1>5. ASSUME NEW t \in Handlers, NEW e \in Job, Deliver(t, e)
        PROVE  UNCHANGED chunk_snapshot
    BY <1>5 DEF Deliver, pgVars
  <1>6. Crash \/ CrowdOut => UNCHANGED chunk_snapshot
    BY DEF Crash, CrowdOut, pgVars
  <1>7. UNCHANGED vars => UNCHANGED chunk_snapshot
    BY DEF vars, pgVars
  <1> QED
    BY <1>1, <1>2, <1>3, <1>4, <1>5, <1>6, <1>7 DEF Next

(* A step of one task does not touch the locals of another. *)
LEMMA OthersKeep ==
    ASSUME TypeInv, NEW t \in Handlers, Step(t), NEW s \in Handlers, s # t
    PROVE  pc'[s] = pc[s] /\ job'[s] = job[s] /\ work'[s] = work[s]
  BY DEF Step, FirstDiff, MarkDeleted, DeleteOrphans, SecondDiff, Replace, CacheChunks,
         StoreNode, StoreLink, Publish, StoreMetadata, DeleteNodes, DeleteMetadata,
         Goto, Remember, Finish, TypeInv, TypeOK

LEMMA StepOnRecord ==
    ASSUME "replace" \notin Faults, TypeInv, BatchOnRecord,
           NEW t \in Handlers, Step(t)
    PROVE  OnRecord(t)'
  <1>1. OnRecord(t)
    BY DEF BatchOnRecord, OnRecord
  <1>2. /\ Recorded(chunk_snapshot) \subseteq Recorded(chunk_snapshot')
        /\ chunk_snapshot' = chunk_snapshot => Recorded(chunk_snapshot') = Recorded(chunk_snapshot)
    BY RowsKept DEF Next
  <1>3. /\ pc \in [Handlers -> PCs]
        /\ work \in [Handlers -> Work]
        /\ job \in [Handlers -> Job \cup {None}]
    BY DEF TypeInv, TypeOK
  <1>4. CASE pc'[t] \notin {"cache", "store", "relate", "publish"}
    BY <1>4 DEF OnRecord
  <1>5. CASE Replace(t)
    <2>1. /\ chunk_snapshot' = Replaced(chunk_snapshot, work[t].to_delete,
                                        job[t].chunks, work[t].to_process)
          /\ pc'[t] = "cache" /\ work'[t] = work[t] /\ job'[t] = job[t]
      BY <1>3, <1>5 DEF Replace, Fails, Goto
    <2>2. pc[t] # "idle"
      BY <1>5 DEF Replace
    <2>3. \A i \in work[t].to_process :
             IdOf(job[t].chunks[i]) \in Recorded(chunk_snapshot')
      BY <2>1, <2>2, Running, ReplacedRows DEF TypeInv, TypeOK
    <2> QED
      BY <2>1, <2>3 DEF OnRecord
  <1>6. CASE CacheChunks(t)
    <2> DEFINE batch == work[t].to_process
    <2>1. /\ pc[t] = "cache" /\ pc'[t] \in {"store", "metadata"}
          /\ job'[t] = job[t]
          /\ work'[t] = [work[t] EXCEPT !.left = batch,
                                        !.links = ChainLinks(job[t].chunks, batch)]
      BY <1>3, <1>6 DEF CacheChunks, Goto, Remember
    <2>2. /\ work'[t].to_process = batch
          /\ work'[t].left = batch
          /\ work'[t].links = ChainLinks(job[t].chunks, batch)
      BY <1>3, <2>1 DEF Work
    <2>3. \A link \in ChainLinks(job[t].chunks, batch) : \E i, j \in batch :
             link = <<job[t].chunks[i].key, job[t].chunks[j].key>>
      BY DEF ChainLinks
    <2> QED
      BY <1>1, <1>2, <2>1, <2>2, <2>3 DEF OnRecord
  <1>7. CASE StoreNode(t)
    <2>1. PICK i \in work[t].left :
             LET rest == work[t].left \ {i}
                 next == IF rest = {} THEN ToPublish(t) ELSE rest
             IN  /\ Remember(t, [work[t] EXCEPT !.left = next])
                 /\ Goto(t, IF rest = {} THEN AfterStore(t) ELSE "store")
      BY <1>7 DEF StoreNode
    <2> DEFINE rest == work[t].left \ {i}
    <2> DEFINE next == IF rest = {} THEN ToPublish(t) ELSE rest
    <2>2. /\ pc[t] = "store" /\ job'[t] = job[t]
          /\ pc'[t] = IF rest = {} THEN AfterStore(t) ELSE "store"
      BY <1>3, <1>7, <2>1 DEF StoreNode, Goto
    <2>3. work'[t] = [work[t] EXCEPT !.left = next]
      BY <1>3, <2>1 DEF Remember
    <2>4. /\ work'[t].to_process = work[t].to_process
          /\ work'[t].left = next
          /\ work'[t].links = work[t].links
      <3> HIDE DEF next
      <3> QED
        BY <1>3, <2>3 DEF Work
    <2>5. next \subseteq work[t].to_process
      BY <1>1, <2>2 DEF ToPublish, OnRecord
    <2> HIDE DEF next
    <2> QED
      BY <1>1, <1>2, <2>2, <2>4, <2>5 DEF OnRecord
  <1>8. CASE StoreLink(t)
    <2>1. PICK link \in work[t].links :
             /\ Remember(t, [work[t] EXCEPT !.links = @ \ {link}])
             /\ Goto(t, IF work[t].links # {link} THEN "relate"
                        ELSE IF work[t].left # {} THEN "publish" ELSE "metadata")
      BY <1>8 DEF StoreLink
    <2>2. /\ pc[t] = "relate" /\ job'[t] = job[t] /\ pc'[t] # "store"
      BY <1>3, <1>8, <2>1 DEF StoreLink, Goto
    <2>3. /\ work'[t].to_process = work[t].to_process
          /\ work'[t].links = work[t].links \ {link}
          /\ work'[t].left = work[t].left
      BY <1>3, <2>1 DEF Remember, Work
    <2> QED
      BY <1>1, <1>2, <2>2, <2>3 DEF OnRecord
  <1>9. CASE Publish(t)
    <2>1. /\ pc[t] = "publish" /\ job'[t] = job[t]
          /\ pc'[t] \in {"publish", "metadata"}
      BY <1>3, <1>9 DEF Publish, Goto
    <2>2. PICK next : /\ next \subseteq work[t].left
                      /\ Remember(t, [work[t] EXCEPT !.left = next])
      BY <1>9 DEF Publish
    <2>3. /\ work'[t].to_process = work[t].to_process
          /\ work'[t].left = next
      BY <1>3, <2>2 DEF Remember, Work
    <2> QED
      BY <1>1, <1>2, <2>1, <2>2, <2>3 DEF OnRecord
  <1>10. ASSUME Step(t), ~Replace(t), ~CacheChunks(t), ~StoreNode(t), ~StoreLink(t),
                ~Publish(t)
         PROVE  pc'[t] \notin {"cache", "store", "relate", "publish"}
    BY <1>3, <1>10
       DEF Step, FirstDiff, MarkDeleted, DeleteOrphans, SecondDiff, StoreMetadata,
           DeleteNodes, DeleteMetadata, Goto, Finish, AfterFirstDiff
  <1> QED
    BY <1>4, <1>5, <1>6, <1>7, <1>8, <1>9, <1>10

LEMMA NextBatchOnRecord ==
    ASSUME "replace" \notin Faults, TypeInv, BatchOnRecord, [Next]_vars
    PROVE  BatchOnRecord'
  <1> SUFFICES ASSUME NEW s \in Handlers PROVE OnRecord(s)'
    BY DEF BatchOnRecord, OnRecord
  <1>1. OnRecord(s)
    BY DEF BatchOnRecord, OnRecord
  <1>2. Recorded(chunk_snapshot) \subseteq Recorded(chunk_snapshot')
    BY RowsKept
  <1>3. ASSUME NEW t \in Handlers, Step(t)
        PROVE  OnRecord(s)'
    <2>1. CASE s = t
      BY <1>3, <2>1, StepOnRecord
    <2>2. CASE s # t
      BY <1>1, <1>2, <1>3, <2>2, OthersKeep DEF OnRecord
    <2> QED
      BY <2>1, <2>2
  <1>4. ASSUME NEW t \in Handlers, NEW e \in Job, Deliver(t, e)
        PROVE  OnRecord(s)'
    <2>1. CASE s = t
      BY <1>4, <2>1 DEF Deliver, Goto, OnRecord, TypeInv, TypeOK
    <2>2. CASE s # t
      BY <1>1, <1>2, <1>4, <2>2 DEF Deliver, Goto, OnRecord, TypeInv, TypeOK
    <2> QED
      BY <2>1, <2>2
  <1>5. CASE Crash
    BY <1>5 DEF Crash, OnRecord
  <1>6. CASE UNCHANGED vars \/ CrowdOut
    BY <1>1, <1>6 DEF vars, CrowdOut, pgVars, taskVars, OnRecord
  <1> QED
    BY <1>3, <1>4, <1>5, <1>6 DEF Next

LEMMA NextSentOnRecord ==
    ASSUME TypeInv, BatchOnRecord, SentOnRecord, [Next]_vars
    PROVE  SentOnRecord'
  <1>1. Recorded(chunk_snapshot) \subseteq Recorded(chunk_snapshot')
    BY RowsKept
  <1>2. CASE UNCHANGED chunks_raw
    BY <1>1, <1>2 DEF SentOnRecord
  <1>3. ASSUME NEW t \in Handlers, Publish(t)
        PROVE  SentOnRecord'
    <2> DEFINE message == [user |-> job[t].user, chunks |-> job[t].chunks,
                           sent |-> NextBatch(work[t].left)]
    <2>1. \A i \in message.sent : IdOf(message.chunks[i]) \in Recorded(chunk_snapshot)
      BY <1>3 DEF Publish, BatchOnRecord, OnRecord, NextBatch
    <2>2. chunks_raw' \in {chunks_raw, Append(chunks_raw, message)}
      BY <1>3 DEF Publish
    <2>3. chunks_raw \in Seq(Message)
      BY DEF TypeInv, TypeOK
    <2> HIDE DEF message
    <2>4. \A n \in DOMAIN chunks_raw' :
             \/ n \in DOMAIN chunks_raw /\ chunks_raw'[n] = chunks_raw[n]
             \/ chunks_raw'[n] = message
      BY <2>2, <2>3
    <2> QED
      BY <1>1, <2>1, <2>4 DEF SentOnRecord
  <1>4. ASSUME NEW t \in Handlers, Step(t), ~Publish(t)
        PROVE  UNCHANGED chunks_raw
    BY <1>4 DEF Step, FirstDiff, MarkDeleted, DeleteOrphans, SecondDiff, Replace,
                CacheChunks, StoreNode, StoreLink, StoreMetadata, DeleteNodes,
                DeleteMetadata
  <1>5. ASSUME NEW t \in Handlers, NEW e \in Job, Deliver(t, e)
        PROVE  UNCHANGED chunks_raw
    BY <1>5 DEF Deliver
  <1>6. Crash \/ CrowdOut \/ UNCHANGED vars => UNCHANGED chunks_raw
    BY DEF Crash, CrowdOut, vars
  <1> QED
    BY <1>2, <1>3, <1>4, <1>5, <1>6 DEF Next

(* The keys on record. *)
RecordedKeys == {KeyOf(id) : id \in Recorded(chunk_snapshot)}

LEMMA TrackedKeys == NodesTracked <=> \A u \in Users : NodeKeys(u) \subseteq RecordedKeys
  BY DEF NodesTracked, RecordedKeys

(* A step adds to a graph only chunks of the batch its task put on record. *)
LEMMA StepNodeKeys ==
    ASSUME TypeInv, BatchOnRecord, NEW t \in Handlers, Step(t), NEW u \in Users
    PROVE  NodeKeys(u)' \subseteq NodeKeys(u) \cup RecordedKeys
  <1> USE DEF NodeKeys
  <1>1. CASE UNCHANGED nodes
    BY <1>1
  <1>2. ASSUME NEW v \in Users, NEW keys, DetachDelete(v, keys)
        PROVE  NodeKeys(u)' \subseteq NodeKeys(u)
    BY <1>2 DEF DetachDelete, TypeInv, TypeOK
  <1>3. ASSUME NEW i \in work[t].to_process, pc[t] \in {"store", "relate"}
        PROVE  job[t].chunks[i].key \in RecordedKeys
    <2>1. IdOf(job[t].chunks[i]) \in Recorded(chunk_snapshot)
      BY <1>3 DEF BatchOnRecord, OnRecord
    <2> QED
      BY <2>1 DEF RecordedKeys, IdOf, KeyOf
  <1>4. CASE StoreNode(t)
    <2>1. PICK i \in work[t].left :
             nodes' = [nodes EXCEPT ![UserGraph(t)] = MergeNode(@, job[t].chunks[i])]
               \/ UNCHANGED nodes
      BY <1>4 DEF StoreNode
    <2>2. pc[t] = "store" /\ job[t].chunks[i].key \in RecordedKeys
      BY <1>3, <1>4 DEF StoreNode, BatchOnRecord, OnRecord
    <2>3. ASSUME NEW g \in [Keys -> Node \cup {None}], NEW k \in Keys,
                 MergeNode(g, job[t].chunks[i])[k] # None
          PROVE  g[k] # None \/ k \in RecordedKeys
      BY <2>2, <2>3 DEF MergeNode
    <2>4. UserGraph(t) \in Users /\ nodes \in [Users -> [Keys -> Node \cup {None}]]
      BY <2>2, Running DEF TypeInv, TypeOK
    <2> DEFINE new == MergeNode(nodes[UserGraph(t)], job[t].chunks[i])
    <2>5. \A k \in Keys : new[k] # None => nodes[UserGraph(t)][k] # None \/ k \in RecordedKeys
      BY <2>3, <2>4
    <2>6. nodes' = nodes \/ nodes' = [nodes EXCEPT ![UserGraph(t)] = new]
      BY <2>1
    <2> HIDE DEF new
    <2> QED
      BY <2>4, <2>5, <2>6
  <1>5. CASE StoreLink(t)
    <2>1. PICK link \in work[t].links :
             nodes' = [nodes EXCEPT ![UserGraph(t)] = MergeEnds(@, link)]
               \/ UNCHANGED nodes
      BY <1>5 DEF StoreLink, graphVars
    <2>2. pc[t] = "relate" /\ link[1] \in RecordedKeys /\ link[2] \in RecordedKeys
      BY <1>3, <1>5 DEF StoreLink, BatchOnRecord, OnRecord
    <2>3. UserGraph(t) \in Users /\ nodes \in [Users -> [Keys -> Node \cup {None}]]
      BY <2>2, Running DEF TypeInv, TypeOK
    <2> DEFINE new == MergeEnds(nodes[UserGraph(t)], link)
    <2>4. \A k \in Keys : new[k] # None => nodes[UserGraph(t)][k] # None \/ k \in RecordedKeys
      BY <2>2 DEF MergeEnds
    <2>5. nodes' = nodes \/ nodes' = [nodes EXCEPT ![UserGraph(t)] = new]
      BY <2>1
    <2> HIDE DEF new
    <2> QED
      BY <2>3, <2>4, <2>5
  <1>6. CASE DeleteOrphans(t)
    <2>1. UserGraph(t) \in Users
      BY <1>6, Running DEF DeleteOrphans
    <2> QED
      BY <1>1, <1>2, <1>6, <2>1 DEF DeleteOrphans, graphVars
  <1>7. CASE DeleteNodes(t)
    <2>1. UserGraph(t) \in Users
      BY <1>7, Running DEF DeleteNodes
    <2> QED
      BY <1>1, <1>2, <1>7, <2>1 DEF DeleteNodes, graphVars
  <1>8. ASSUME ~StoreNode(t), ~StoreLink(t), ~DeleteOrphans(t), ~DeleteNodes(t)
        PROVE  UNCHANGED nodes
    BY <1>8 DEF Step, FirstDiff, MarkDeleted, SecondDiff, Replace, CacheChunks, Publish,
                StoreMetadata, DeleteMetadata, graphVars
  <1> QED
    BY <1>1, <1>4, <1>5, <1>6, <1>7, <1>8

LEMMA NextTrackInv ==
    ASSUME "replace" \notin Faults, TrackInv, [Next]_vars
    PROVE  TrackInv'
  <1>1. TypeInv' /\ BatchOnRecord' /\ SentOnRecord'
    BY NextTypeInv, NextBatchOnRecord, NextSentOnRecord DEF TrackInv
  <1>2. RecordedKeys \subseteq RecordedKeys'
    BY RowsKept DEF TrackInv, RecordedKeys
  <1>3. ASSUME NEW u \in Users PROVE NodeKeys(u)' \subseteq RecordedKeys'
    <2>1. NodeKeys(u) \subseteq RecordedKeys
      BY TrackedKeys DEF TrackInv
    <2>2. ASSUME NEW t \in Handlers, Step(t)
          PROVE  NodeKeys(u)' \subseteq RecordedKeys'
      BY <1>2, <2>1, <2>2, StepNodeKeys DEF TrackInv
    <2>3. UNCHANGED nodes => NodeKeys(u)' \subseteq RecordedKeys'
      BY <1>2, <2>1 DEF NodeKeys
    <2>4. ASSUME NEW t \in Handlers, NEW e \in Job, Deliver(t, e)
          PROVE  UNCHANGED nodes
      BY <2>4 DEF Deliver, graphVars
    <2>5. Crash \/ CrowdOut \/ UNCHANGED vars => UNCHANGED nodes
      BY DEF Crash, CrowdOut, vars, graphVars
    <2> QED
      BY <2>2, <2>3, <2>4, <2>5 DEF Next
  <1>4. NodesTracked'
    BY <1>3 DEF NodesTracked, RecordedKeys
  <1> QED
    BY <1>1, <1>4 DEF TrackInv

LEMMA InitTrackInv == Init => TrackInv
  BY InitTypeInv DEF TrackInv, Init, BatchOnRecord, OnRecord, SentOnRecord,
                      NodesTracked, NodeKeys

(* Unless the transaction of atomic_replace_file_chunks fails, no node is  *)
(* ever in a graph whose key chunk_snapshot does not know: not for any     *)
(* interleaving of tasks, any other failed call or any crash.              *)
THEOREM SpecNodesTracked ==
    ASSUME "replace" \notin Faults
    PROVE  Spec => []NodesTracked
  <1>1. TrackInv => NodesTracked
    BY DEF TrackInv
  <1>2. TrackInv /\ [Next]_vars => TrackInv'
    BY NextTrackInv
  <1> QED
    BY <1>1, <1>2, InitTrackInv, PTL DEF Spec

-----------------------------------------------------------------------------
(* Every content was delivered for the owner of its graph.                 *)

(* What a task writes comes from its event; this ties it to the history.   *)
JobsDelivered ==
    \A t \in Handlers :
        pc[t] # "idle" => \E n \in DOMAIN delivered : delivered[n] = job[t]

WasRequested(u, k, h) ==
    \E n \in EventsOf(u) : \E i \in DOMAIN delivered[n].chunks :
        delivered[n].chunks[i] = [key |-> k, hash |-> h]

OwnInv == TypeInv /\ JobsDelivered /\ GraphHoldsOwnRequests

(* The history only grows. *)
LEMMA HistoryGrows ==
    ASSUME TypeInv, [Next]_vars
    PROVE  \A n \in DOMAIN delivered :
              n \in DOMAIN delivered' /\ delivered'[n] = delivered[n]
  <1>1. CASE UNCHANGED delivered
    BY <1>1
  <1>2. ASSUME NEW t \in Handlers, Step(t) PROVE UNCHANGED delivered
    BY <1>2 DEF Step, FirstDiff, MarkDeleted, DeleteOrphans, SecondDiff, Replace,
                CacheChunks, StoreNode, StoreLink, Publish, StoreMetadata, DeleteNodes,
                DeleteMetadata
  <1>3. ASSUME NEW t \in Handlers, NEW e \in Job, Deliver(t, e)
        PROVE  /\ delivered \in Seq(Job)
               /\ delivered' = Append(delivered, e)
    BY <1>3 DEF Deliver, TypeInv, TypeOK
  <1>4. Crash \/ CrowdOut \/ UNCHANGED vars => UNCHANGED delivered
    BY DEF Crash, CrowdOut, vars
  <1> QED
    BY <1>1, <1>2, <1>3, <1>4 DEF Next

LEMMA NextJobsDelivered ==
    ASSUME TypeInv, JobsDelivered, [Next]_vars
    PROVE  JobsDelivered'
  <1> SUFFICES ASSUME NEW s \in Handlers, pc'[s] # "idle"
               PROVE  \E n \in DOMAIN delivered' : delivered'[n] = job'[s]
    BY DEF JobsDelivered
  <1>1. CASE pc[s] # "idle" /\ job'[s] = job[s]
    BY <1>1, HistoryGrows DEF JobsDelivered
  <1>2. ASSUME NEW t \in Handlers, Step(t)
        PROVE  pc[s] # "idle" /\ job'[s] = job[s]
    <2>1. CASE s # t
      BY <1>2, <2>1, OthersKeep
    <2>2. CASE s = t
      <3>1. pc[t] # "idle"
        BY <1>2 DEF Step, FirstDiff, MarkDeleted, DeleteOrphans, SecondDiff, Replace,
                    CacheChunks, StoreNode, StoreLink, Publish, StoreMetadata,
                    DeleteNodes, DeleteMetadata
      <3>2. ~Finish(t)
        BY <2>2 DEF Finish, Goto, TypeInv, TypeOK
      <3>3. UNCHANGED job
        BY <1>2, <3>2
           DEF Step, FirstDiff, MarkDeleted, DeleteOrphans, SecondDiff, Replace,
               CacheChunks, StoreNode, StoreLink, Publish, StoreMetadata,
               DeleteNodes, DeleteMetadata
      <3> QED
        BY <2>2, <3>1, <3>3
    <2> QED
      BY <2>1, <2>2
  <1>3. ASSUME NEW t \in Handlers, NEW e \in Job, Deliver(t, e)
        PROVE  \E n \in DOMAIN delivered' : delivered'[n] = job'[s]
    <2>1. CASE s # t
      BY <1>1, <1>3, <2>1 DEF Deliver, Goto, TypeInv, TypeOK
    <2>2. CASE s = t
      <3>1. delivered \in Seq(Job) /\ delivered' = Append(delivered, e) /\ job'[s] = e
        BY <1>3, <2>2 DEF Deliver, TypeInv, TypeOK
      <3>2. Len(delivered) + 1 \in DOMAIN delivered'
               /\ delivered'[Len(delivered) + 1] = e
        BY <3>1
      <3> QED
        BY <3>1, <3>2
    <2> QED
      BY <2>1, <2>2
  <1>4. CASE Crash
    BY <1>4 DEF Crash
  <1>5. CASE UNCHANGED vars \/ CrowdOut
    BY <1>1, <1>5 DEF vars, CrowdOut, taskVars
  <1> QED
    BY <1>1, <1>2, <1>3, <1>4, <1>5 DEF Next

(* A step writes to its user's graph only, and only chunks of its event. *)
LEMMA StepContents ==
    ASSUME TypeInv, NEW t \in Handlers, Step(t), NEW u \in Users, NEW k \in Keys,
           nodes'[u][k] # None, nodes'[u][k].content # None
    PROVE  \/ nodes[u][k] # None /\ nodes[u][k].content = nodes'[u][k].content
           \/ /\ pc[t] # "idle" /\ u = job[t].user
              /\ \E i \in DOMAIN job[t].chunks :
                    job[t].chunks[i] = [key |-> k, hash |-> nodes'[u][k].content]
  <1> DEFINE Same == nodes'[u][k] = nodes[u][k]
  <1>1. nodes \in [Users -> [Keys -> Node \cup {None}]]
    BY DEF TypeInv, TypeOK
  <1>2. ASSUME NEW v \in Users, NEW keys, DetachDelete(v, keys)
        PROVE  Same
    BY <1>1, <1>2 DEF DetachDelete
  <1>3. CASE StoreNode(t)
    <2>1. PICK i \in work[t].left :
             nodes' = [nodes EXCEPT ![UserGraph(t)] = MergeNode(@, job[t].chunks[i])]
               \/ UNCHANGED nodes
      BY <1>3 DEF StoreNode
    <2>2. /\ pc[t] # "idle"
          /\ job[t] \in Job /\ i \in DOMAIN job[t].chunks
          /\ UserGraph(t) \in Users
      <3>1. pc[t] # "idle"
        BY <1>3 DEF StoreNode
      <3> QED
        BY <2>1, <3>1, Running
    <2> DEFINE c == job[t].chunks[i]
    <2> DEFINE new == MergeNode(nodes[UserGraph(t)], c)
    <2>3. c = [key |-> c.key, hash |-> c.hash] /\ c.key \in Keys
      <3>1. c \in Chunk
        BY <2>2, JobFields
      <3> QED
        BY <3>1 DEF Chunk
    <2>4. k # c.key => new[k] = nodes[UserGraph(t)][k]
      BY <1>1, <2>2 DEF MergeNode
    <2>5. k = c.key => new[k].content = c.hash
      BY <1>1, <2>2, <2>3 DEF MergeNode
    <2>6. nodes' = nodes \/ nodes' = [nodes EXCEPT ![UserGraph(t)] = new]
      BY <2>1
    <2>7. u # UserGraph(t) => Same
      BY <1>1, <2>6
    <2>8. u = UserGraph(t) => Same \/ nodes'[u][k] = new[k]
      BY <1>1, <2>6
    <2> HIDE DEF new, c
    <2>9. k = c.key /\ u = UserGraph(t) /\ nodes'[u][k] = new[k]
             => c = [key |-> k, hash |-> nodes'[u][k].content]
      BY <2>3, <2>5
    <2> QED
      BY <2>2, <2>4, <2>7, <2>8, <2>9 DEF UserGraph, c
  <1>4. CASE StoreLink(t)
    <2>1. PICK link \in work[t].links :
             nodes' = [nodes EXCEPT ![UserGraph(t)] = MergeEnds(@, link)]
               \/ UNCHANGED nodes
      BY <1>4 DEF StoreLink, graphVars
    <2>2. UserGraph(t) \in Users
      BY <1>4, Running DEF StoreLink
    <2> DEFINE new == MergeEnds(nodes[UserGraph(t)], link)
    <2>3. new[k] = nodes[UserGraph(t)][k] \/ new[k] = Phantom
      BY DEF MergeEnds
    <2>4. nodes' = nodes \/ nodes' = [nodes EXCEPT ![UserGraph(t)] = new]
      BY <2>1
    <2> HIDE DEF new
    <2>5. Same \/ nodes'[u][k] = Phantom
      BY <1>1, <2>2, <2>3, <2>4
    <2> QED
      BY <2>5 DEF Phantom
  <1>5. CASE DeleteOrphans(t)
    BY <1>2, <1>5, Running DEF DeleteOrphans, graphVars
  <1>6. CASE DeleteNodes(t)
    BY <1>2, <1>6, Running DEF DeleteNodes, graphVars
  <1>7. ASSUME ~StoreNode(t), ~StoreLink(t), ~DeleteOrphans(t), ~DeleteNodes(t)
        PROVE  UNCHANGED nodes
    BY <1>7 DEF Step, FirstDiff, MarkDeleted, SecondDiff, Replace, CacheChunks, Publish,
                StoreMetadata, DeleteMetadata, graphVars
  <1> QED
    BY <1>3, <1>4, <1>5, <1>6, <1>7

LEMMA NextOwnInv == OwnInv /\ [Next]_vars => OwnInv'
  <1> SUFFICES ASSUME OwnInv, [Next]_vars PROVE OwnInv'
    OBVIOUS
  <1>1. TypeInv /\ JobsDelivered /\ GraphHoldsOwnRequests
    BY DEF OwnInv
  <1>2. TypeInv' /\ JobsDelivered'
    BY <1>1, NextTypeInv, NextJobsDelivered
  <1>3. ASSUME NEW u, NEW k, NEW h, WasRequested(u, k, h)
        PROVE  WasRequested(u, k, h)'
    BY <1>1, <1>3, HistoryGrows DEF WasRequested, EventsOf
  <1>4. ASSUME NEW u \in Users, NEW k \in Keys, NEW h, h # None,
               nodes'[u][k] # None, nodes'[u][k].content = h
        PROVE  WasRequested(u, k, h)'
    <2>1. CASE nodes[u][k] # None /\ nodes[u][k].content = h
      <3>1. WasRequested(u, k, h)
        BY <1>1, <1>4, <2>1 DEF GraphHoldsOwnRequests, NodeKeys, WasRequested
      <3> QED
        BY <1>3, <3>1
    <2>2. ASSUME NEW t \in Handlers, Step(t),
                 ~(nodes[u][k] # None /\ nodes[u][k].content = h)
          PROVE  WasRequested(u, k, h)
      <3>1. PICK i \in DOMAIN job[t].chunks : job[t].chunks[i] = [key |-> k, hash |-> h]
        BY <1>1, <1>4, <2>2, StepContents
      <3>2. pc[t] # "idle" /\ u = job[t].user
        BY <1>1, <1>4, <2>2, StepContents
      <3>3. PICK n \in DOMAIN delivered : delivered[n] = job[t]
        BY <1>1, <3>2 DEF JobsDelivered
      <3> QED
        BY <3>1, <3>2, <3>3 DEF WasRequested, EventsOf
    <2>3. ASSUME NEW t \in Handlers, NEW e \in Job, Deliver(t, e)
          PROVE  UNCHANGED nodes
      BY <2>3 DEF Deliver, graphVars
    <2>4. Crash \/ CrowdOut \/ UNCHANGED vars => UNCHANGED nodes
      BY DEF Crash, CrowdOut, vars, graphVars
    <2>5. UNCHANGED nodes => nodes[u][k] # None /\ nodes[u][k].content = h
      BY <1>4
    <2>6. WasRequested(u, k, h) => WasRequested(u, k, h)'
      BY <1>3
    <2> QED
      BY <2>1, <2>2, <2>3, <2>4, <2>5, <2>6 DEF Next
  <1>5. GraphHoldsOwnRequests'
    BY <1>4 DEF GraphHoldsOwnRequests, NodeKeys, WasRequested
  <1> QED
    BY <1>2, <1>5 DEF OwnInv

(* No graph ever holds a content that was not delivered for its owner      *)
(* under that key: not for any number of users and tasks sharing the rows  *)
(* and the cache, whatever fails or crashes.                               *)
THEOREM SpecGraphHoldsOwnRequests == Spec => []GraphHoldsOwnRequests
  <1>1. Init => OwnInv
    BY InitTypeInv DEF OwnInv, Init, JobsDelivered, GraphHoldsOwnRequests, NodeKeys
  <1>2. OwnInv => GraphHoldsOwnRequests
    BY DEF OwnInv
  <1> QED
    BY <1>1, <1>2, NextOwnInv, PTL DEF Spec
=============================================================================
