----------------------- MODULE IngestSequentialProofs -----------------------
(***************************************************************************)
(* What the ingest path promises when a file's events come one at a time,  *)
(* for one user: theorems for any chunk keys, versions and bounds.  With   *)
(* two tasks each of them is false; the README says what each hypothesis   *)
(* is needed for.                                                          *)
(***************************************************************************)
EXTENDS IngestRefinement, IngestPipelineProofs

(* No two chunks of a version have the same key. *)
UniqueKeys ==
    \A v \in Versions : \A i, j \in DOMAIN v : v[i].key = v[j].key => i = j

(* No content occurs under two keys, in one version or in two. *)
OneKeyPerHash ==
    \A v, w \in Versions : \A i \in DOMAIN v, j \in DOMAIN w :
        v[i].hash = w[j].hash => v[i].key = w[j].key

(* The event last delivered. *)
Last == delivered[Len(delivered)]

(* A running task handles the last event; its operation says where it is. *)
HandlesLast(t) ==
    pc[t] # "idle" =>
        /\ delivered # <<>> /\ Last = job[t]
        /\ job[t].op \in Operations
        /\ job[t].op = "delete" <=> pc[t] \in {"delete_nodes", "delete_metadata"}

-----------------------------------------------------------------------------
(* After a run that met no failure, no node of another version is left.    *)

PurgedUpTo(t, u) ==
    LET asked == KeysOf(job[t].chunks)
    IN  /\ pc[t] \in {"mark", "delete_orphans"} => NodeKeys(u) \subseteq asked \cup work[t].orphans
        /\ pc[t] \in {"second_diff", "replace", "cache", "store", "relate", "publish",
                      "metadata"} => NodeKeys(u) \subseteq asked
        /\ (pc[t] = "idle" /\ delivered # <<>> /\ Last.op = "process") =>
              NodeKeys(u) \subseteq KeysOf(Last.chunks)

PurgeInv(t, u) ==
    /\ TrackInv
    /\ HandlesLast(t)
    /\ t \notin troubled => PurgedUpTo(t, u)

-----------------------------------------------------------------------------
(* Before any failure or crash, the live rows and the user's graph move    *)
(* together from one version to the next.                                  *)

PairAt(chunks, i) == <<chunks[i].key, chunks[i].hash>>
PairsOf(chunks) == {PairAt(chunks, i) : i \in DOMAIN chunks}
LivePairs(rows) == {<<KeyOf(id), rows[id].hash>> : id \in Live(rows)}

(* A row is the row of a chunk of some version, and holds its hash. *)
RowsNamed(rows) ==
    \A id \in Recorded(rows) : \E v \in Versions : \E i \in DOMAIN v :
        id = IdOf(v[i]) /\ rows[id].hash = v[i].hash

OnePerKey(pairs) == \A p, q \in pairs : p[1] = q[1] => p = q

(* Where the rows are, step by step, on the way to the version asked for. *)
RowsInStep(t) ==
    LET W == job[t].chunks
        live == LivePairs(chunk_snapshot)
    IN  /\ RowsNamed(chunk_snapshot)
        /\ OnePerKey(live)
        /\ pc[t] \in {"mark", "delete_orphans"} =>
              /\ \A p \in live : p[1] \in KeysOf(W) \cup work[t].to_mark
              /\ work[t].orphans \cap KeysOf(W) = {}
              /\ work[t].to_mark \subseteq work[t].orphans
              /\ pc[t] = "delete_orphans" => work[t].to_mark = {}
        /\ pc[t] \in {"second_diff", "replace"} => \A p \in live : p[1] \in KeysOf(W)
        /\ pc[t] = "replace" =>
              /\ work[t].to_process = {i \in DOMAIN W : PairAt(W, i) \notin live}
              /\ work[t].to_delete =
                    {id \in Live(chunk_snapshot) :
                        <<KeyOf(id), chunk_snapshot[id].hash>> \notin PairsOf(W)}
        /\ pc[t] \in {"cache", "store", "relate", "publish", "metadata"} => live = PairsOf(W)
        /\ pc[t] = "store" => work[t].left \subseteq work[t].to_process
        /\ pc[t] \in {"store", "relate"} =>
              \A link \in work[t].links : \E i, j \in work[t].to_process :
                  link = <<W[i].key, W[j].key>>
        /\ (pc[t] = "idle" /\ delivered # <<>> /\ Last.op = "process") =>
              live = PairsOf(Last.chunks)

(* The graph holds nothing but what the rows, or the chunks still to       *)
(* store, account for.                                                     *)
GraphInStep(t, u) ==
    LET W == job[t].chunks
        live == LivePairs(chunk_snapshot)
        held == Contents(u)
    IN  /\ pc[t] \in {"idle", "first_diff", "second_diff", "replace", "delete_nodes"} =>
              held \subseteq live
        /\ pc[t] \in {"mark", "delete_orphans"} =>
              \A p \in held : p \in live \/ p[1] \in work[t].orphans
        /\ pc[t] = "cache" =>
              \A p \in held : p \in live \/ \E i \in work[t].to_process : W[i].key = p[1]
        /\ pc[t] = "store" =>
              /\ \A p \in held : p \in live \/ \E i \in work[t].left : W[i].key = p[1]
              /\ \A i \in work[t].to_process \ work[t].left : PairAt(W, i) \in held
        /\ pc[t] = "relate" => \A i \in work[t].to_process : PairAt(W, i) \in held
        /\ pc[t] \in {"relate", "publish", "metadata"} => held \subseteq live
        /\ pc[t] = "delete_metadata" => held = {}
        /\ (pc[t] = "idle" /\ delivered # <<>> /\ Last.op = "delete") => held = {}

(* Without deletions it also holds everything that they account for. *)
GraphComplete(t, u) ==
    LET W == job[t].chunks
        held == Contents(u)
    IN  /\ pc[t] \in {"idle", "first_diff", "mark", "delete_orphans", "second_diff", "replace"} =>
              LivePairs(chunk_snapshot) \subseteq held
        /\ pc[t] = "cache" =>
              \A i \in DOMAIN W \ work[t].to_process : PairAt(W, i) \in held
        /\ pc[t] = "store" => \A i \in DOMAIN W \ work[t].left : PairAt(W, i) \in held
        /\ pc[t] \in {"relate", "publish", "metadata"} => PairsOf(W) \subseteq held

InStep(t, u) ==
    /\ RowsInStep(t)
    /\ GraphInStep(t, u)
    /\ "delete" \notin Operations => GraphComplete(t, u)

FlowInv(t, u) ==
    /\ TypeInv
    /\ HandlesLast(t)
    /\ delivered = <<>> => LivePairs(chunk_snapshot) = {}
    /\ (failures = 0 /\ crashes = 0) => InStep(t, u)
-----------------------------------------------------------------------------
(* The one task and its events.                                            *)

DeletePCs == {"delete_nodes", "delete_metadata"}

(* A step keeps its task's event until it ends it, and stays within the    *)
(* operation of the event.                                                 *)
LEMMA StepKeepsJob ==
    ASSUME TypeInv, NEW t \in Handlers, Step(t)
    PROVE  /\ pc[t] # "idle" /\ delivered' = delivered
           /\ pc'[t] # "idle" => job' = job
           /\ pc'[t] # "idle" => (pc'[t] \in DeletePCs <=> pc[t] \in DeletePCs)
  <1>1. pc \in [Handlers -> PCs]
    BY DEF TypeInv, TypeOK
  <1>2. pc[t] # "idle" /\ delivered' = delivered
    BY DEF Step, FirstDiff, MarkDeleted, DeleteOrphans, SecondDiff, Replace, CacheChunks,
           StoreNode, StoreLink, Publish, StoreMetadata, DeleteNodes, DeleteMetadata
  <1>3. pc'[t] # "idle" => ~Finish(t)
    BY <1>1 DEF Finish, Goto
  <1>4. pc'[t] # "idle" => job' = job
    BY <1>3 DEF Step, FirstDiff, MarkDeleted, DeleteOrphans, SecondDiff, Replace,
                CacheChunks, StoreNode, StoreLink, Publish, StoreMetadata, DeleteNodes,
                DeleteMetadata
  <1>5. pc'[t] # "idle" => (pc'[t] \in DeletePCs <=> pc[t] \in DeletePCs)
    BY <1>1, <1>3
       DEF Step, FirstDiff, MarkDeleted, DeleteOrphans, SecondDiff, Replace,
           CacheChunks, StoreNode, StoreLink, Publish, StoreMetadata, DeleteNodes,
           DeleteMetadata, DeletePCs, Goto, AfterFirstDiff, AfterStore
  <1> QED
    BY <1>2, <1>4, <1>5

(* The delivered event is the last one, and its task's. *)
LEMMA DeliverLast ==
    ASSUME TypeInv, NEW t \in Handlers, NEW e \in Job, Deliver(t, e)
    PROVE  /\ pc[t] = "idle" /\ e.op \in Operations
           /\ delivered' # <<>> /\ Last' = e /\ job'[t] = e /\ e.op \in {"process", "delete"}
           /\ pc'[t] = IF e.op = "delete" THEN "delete_nodes" ELSE "first_diff"
  <1>1. delivered \in Seq(Job) /\ delivered' = Append(delivered, e)
    BY DEF Deliver, TypeInv, TypeOK
  <1>2. /\ Len(delivered') = Len(delivered) + 1 /\ delivered' # <<>>
        /\ delivered'[Len(delivered')] = e
    BY <1>1
  <1> QED
    BY <1>2 DEF Deliver, Goto, TypeInv, TypeOK, Job, Last

LEMMA NextHandlesLast ==
    ASSUME NEW t, Handlers = {t}, TypeInv, HandlesLast(t), [Next]_vars
    PROVE  HandlesLast(t)'
  <1>1. CASE Step(t)
    BY <1>1, StepKeepsJob DEF HandlesLast, Last, DeletePCs
  <1>2. ASSUME NEW e \in Job, Deliver(t, e)
        PROVE  HandlesLast(t)'
    BY <1>2, DeliverLast DEF HandlesLast
  <1>3. CASE Crash
    BY <1>3 DEF Crash, HandlesLast
  <1>4. CASE UNCHANGED vars \/ CrowdOut
    BY <1>4 DEF vars, CrowdOut, taskVars, HandlesLast, Last
  <1> QED
    BY <1>1, <1>2, <1>3, <1>4 DEF Next

(* With one user, what was last asked for is what was last delivered. *)
LEMMA RequestedLast ==
    ASSUME TypeInv, NEW u, Users = {u}
    PROVE  /\ delivered = <<>> => EventsOf(u) = {} /\ Requested(u) = <<>>
           /\ delivered # <<>> => EventsOf(u) # {} /\ Last \in Job /\ Requested(u) = Last.chunks
  <1>1. delivered \in Seq(Job)
    BY DEF TypeInv, TypeOK
  <1>2. \A n \in DOMAIN delivered : delivered[n] \in Job /\ delivered[n].user = u
    BY <1>1, JobFields
  <1>3. EventsOf(u) = 1 .. Len(delivered) /\ Len(delivered) \in Nat
    BY <1>1, <1>2 DEF EventsOf
  <1>4. CASE delivered = <<>>
    BY <1>3, <1>4 DEF Requested
  <1>5. CASE delivered # <<>>
    <2>1. Len(delivered) \in 1 .. Len(delivered)
      BY <1>1, <1>5
    <2> DEFINE n == CHOOSE n \in EventsOf(u) : \A m \in EventsOf(u) : m <= n
    <2>2. n \in EventsOf(u) /\ \A m \in EventsOf(u) : m <= n
      BY <1>3, <2>1
    <2>3. n = Len(delivered)
      BY <1>3, <2>1, <2>2
    <2>4. EventsOf(u) # {}
      BY <1>3, <2>1
    <2>5. Requested(u) = delivered[n].chunks
      BY <2>4 DEF Requested
    <2> HIDE DEF n
    <2> QED
      BY <1>2, <1>3, <1>5, <2>1, <2>3, <2>4, <2>5 DEF Last
  <1> QED
    BY <1>4, <1>5
-----------------------------------------------------------------------------
(* What each step does when the call it makes succeeds.                    *)

Smooth(t) == \A call \in Calls : ~Fails(t, call)

LEMMA SmoothSucceeds ==
    ASSUME NEW t \in Handlers, Step(t), Smooth(t)
    PROVE  Succeeds /\ crashes' = crashes
  BY DEF Step, FirstDiff, MarkDeleted, DeleteOrphans, SecondDiff, Replace, CacheChunks,
         StoreNode, StoreLink, Publish, StoreMetadata, DeleteNodes, DeleteMetadata,
         Smooth, Calls, Succeeds

(* A task that is not troubled after a step met no failure in it, and no   *)
(* call failed in a step after which none has failed.                      *)
LEMMA NotTroubled ==
    ASSUME TypeInv, NEW t \in Handlers, t \notin troubled' \/ failures' = 0
    PROVE  Smooth(t)
  BY DEF Smooth, Fails, TypeInv, TypeOK

(* The task works for the only user there is, on one of the versions. *)
LEMMA OnlyUser ==
    ASSUME TypeInv, NEW t \in Handlers, pc[t] # "idle", NEW u, Users = {u}
    PROVE  /\ UserGraph(t) = u /\ job[t] \in Job /\ work[t] \in Work
           /\ nodes \in [Users -> [Keys -> Node \cup {None}]]
           /\ nodes[u] \in [Keys -> Node \cup {None}]
           /\ edges \in [Users -> SUBSET (Keys \X Keys)]
           /\ chunk_snapshot \in [Ids -> Row \cup {None}]
           /\ pc \in [Handlers -> PCs] /\ work \in [Handlers -> Work]
  <1>1. UserGraph(t) \in Users
    BY Running
  <1> QED
    BY <1>1, Running DEF TypeInv, TypeOK

LEMMA FirstDiffEffect ==
    ASSUME TypeInv, NEW t \in Handlers, NEW u, Users = {u}, FirstDiff(t), Smooth(t)
    PROVE  LET gone == RecordedKeys \ KeysOf(job[t].chunks)
           IN  /\ UNCHANGED <<chunk_snapshot, nodes>>
               /\ pc'[t] = IF gone = {} THEN AfterFirstDiff(t) ELSE "mark"
               /\ work'[t].orphans = gone /\ work'[t].to_mark = gone
  <1>1. PICK m \in SnapshotMaps(chunk_snapshot) :
          LET gone == DOMAIN m \ KeysOf(job[t].chunks)
              clean == CleanChunks(job[t].chunks, chunk_snapshot, m)
          IN  /\ Remember(t, [work[t] EXCEPT !.clean = clean, !.to_mark = gone,
                                             !.orphans = gone])
              /\ Goto(t, IF gone = {} THEN AfterFirstDiff(t) ELSE "mark")
    BY DEF FirstDiff, Smooth, Calls
  <1>2. DOMAIN m = RecordedKeys
    BY DEF SnapshotMaps, DiffRows, RecordedKeys
  <1> DEFINE gone == RecordedKeys \ KeysOf(job[t].chunks)
  <1> DEFINE clean == CleanChunks(job[t].chunks, chunk_snapshot, m)
  <1>3. /\ work' = [work EXCEPT ![t] = [work[t] EXCEPT !.clean = clean, !.to_mark = gone,
                                                      !.orphans = gone]]
        /\ pc' = [pc EXCEPT ![t] = IF gone = {} THEN AfterFirstDiff(t) ELSE "mark"]
    BY <1>1, <1>2 DEF Remember, Goto
  <1>4. pc[t] # "idle"
    BY DEF FirstDiff
  <1> HIDE DEF gone, clean
  <1>5. work'[t].orphans = gone /\ work'[t].to_mark = gone
    BY <1>3, <1>4, OnlyUser DEF Work
  <1>6. pc'[t] = IF gone = {} THEN AfterFirstDiff(t) ELSE "mark"
    BY <1>3, <1>4, OnlyUser
  <1> QED
    BY <1>5, <1>6 DEF FirstDiff, pgVars, graphVars, gone

LEMMA MarkDeletedEffect ==
    ASSUME TypeInv, NEW t \in Handlers, NEW u, Users = {u}, MarkDeleted(t), Smooth(t)
    PROVE  /\ UNCHANGED nodes
           /\ work'[t].orphans = work[t].orphans
           /\ \E k \in work[t].to_mark :
                 /\ chunk_snapshot' = Tombstoned(chunk_snapshot, {id \in Ids : KeyOf(id) = k})
                 /\ work'[t].to_mark = work[t].to_mark \ {k}
                 /\ pc'[t] = IF work[t].to_mark = {k} THEN "delete_orphans" ELSE "mark"
  <1>1. PICK k \in work[t].to_mark :
          /\ chunk_snapshot' = Tombstoned(chunk_snapshot, {id \in Ids : KeyOf(id) = k})
          /\ Remember(t, [work[t] EXCEPT !.to_mark = @ \ {k}])
          /\ Goto(t, IF work[t].to_mark = {k} THEN "delete_orphans" ELSE "mark")
    BY DEF MarkDeleted, Smooth, Calls
  <1>2. pc[t] # "idle"
    BY DEF MarkDeleted
  <1>3. /\ work'[t].orphans = work[t].orphans
        /\ work'[t].to_mark = work[t].to_mark \ {k}
    BY <1>1, <1>2, OnlyUser DEF Remember, Work
  <1>4. pc'[t] = IF work[t].to_mark = {k} THEN "delete_orphans" ELSE "mark"
    BY <1>1, <1>2, OnlyUser DEF Goto
  <1> QED
    BY <1>1, <1>3, <1>4 DEF MarkDeleted, graphVars

LEMMA DetachDeleteEffect ==
    ASSUME TypeInv, NEW u \in Users, NEW keys, DetachDelete(u, keys)
    PROVE  \A k \in Keys : nodes'[u][k] = IF k \in keys THEN None ELSE nodes[u][k]
  BY DEF DetachDelete, TypeInv, TypeOK

LEMMA DeleteOrphansEffect ==
    ASSUME TypeInv, NEW t \in Handlers, NEW u, Users = {u}, DeleteOrphans(t), Smooth(t)
    PROVE  /\ UNCHANGED <<chunk_snapshot, work>>
           /\ pc'[t] = AfterFirstDiff(t)
           /\ \A k \in Keys :
                 nodes'[u][k] = IF k \in work[t].orphans THEN None ELSE nodes[u][k]
  <1>1. pc[t] # "idle"
    BY DEF DeleteOrphans
  <1>2. DetachDelete(u, work[t].orphans)
    BY <1>1, OnlyUser DEF DeleteOrphans, Smooth, Calls
  <1>3. pc'[t] = AfterFirstDiff(t)
    BY <1>1, OnlyUser DEF DeleteOrphans, Goto
  <1> QED
    BY <1>2, <1>3, DetachDeleteEffect DEF DeleteOrphans, pgVars

LEMMA SecondDiffEffect ==
    ASSUME TypeInv, NEW t \in Handlers, NEW u, Users = {u}, SecondDiff(t), Smooth(t)
    PROVE  /\ UNCHANGED <<chunk_snapshot, nodes>>
           /\ \E m \in ExistingMaps(chunk_snapshot) :
                 /\ work'[t].to_process = ChunksToProcess(job[t].chunks, m)
                 /\ work'[t].to_delete = ToDelete(job[t].chunks, m)
                 /\ pc'[t] = IF /\ ChunksToProcess(job[t].chunks, m) = {}
                                /\ ToDelete(job[t].chunks, m) = {}
                             THEN "metadata" ELSE "replace"
  <1>1. PICK m \in ExistingMaps(chunk_snapshot) :
          LET batch == ChunksToProcess(job[t].chunks, m)
              gone == ToDelete(job[t].chunks, m)
          IN  /\ Remember(t, [work[t] EXCEPT !.to_process = batch, !.to_delete = gone])
              /\ Goto(t, IF batch = {} /\ gone = {} THEN "metadata" ELSE "replace")
    BY DEF SecondDiff, Smooth, Calls
  <1>2. pc[t] # "idle"
    BY DEF SecondDiff
  <1> DEFINE batch == ChunksToProcess(job[t].chunks, m)
  <1> DEFINE gone == ToDelete(job[t].chunks, m)
  <1>3. /\ work' = [work EXCEPT ![t] = [work[t] EXCEPT !.to_process = batch, !.to_delete = gone]]
        /\ pc' = [pc EXCEPT ![t] = IF batch = {} /\ gone = {} THEN "metadata" ELSE "replace"]
    BY <1>1 DEF Remember, Goto
  <1> HIDE DEF batch, gone
  <1>4. work'[t].to_process = batch /\ work'[t].to_delete = gone
    BY <1>2, <1>3, OnlyUser DEF Work
  <1>5. pc'[t] = IF batch = {} /\ gone = {} THEN "metadata" ELSE "replace"
    BY <1>2, <1>3, OnlyUser
  <1> QED
    BY <1>4, <1>5 DEF SecondDiff, pgVars, graphVars, batch, gone

LEMMA ReplaceEffect ==
    ASSUME TypeInv, NEW t \in Handlers, NEW u, Users = {u}, Replace(t), Smooth(t)
    PROVE  /\ UNCHANGED <<nodes, work>>
           /\ pc'[t] = "cache"
           /\ chunk_snapshot' = Replaced(chunk_snapshot, work[t].to_delete, job[t].chunks,
                                         work[t].to_process)
  <1>1. pc[t] # "idle"
    BY DEF Replace
  <1> QED
    BY <1>1, OnlyUser DEF Replace, Smooth, Calls, Goto, graphVars

LEMMA CacheChunksEffect ==
    ASSUME TypeInv, NEW t \in Handlers, NEW u, Users = {u}, CacheChunks(t)
    PROVE  /\ UNCHANGED <<chunk_snapshot, nodes>>
           /\ work'[t].to_process = work[t].to_process
           /\ work'[t].left = work[t].to_process
           /\ work'[t].links = ChainLinks(job[t].chunks, work[t].to_process)
           /\ pc'[t] = IF work[t].to_process = {} THEN "metadata" ELSE "store"
  <1>1. pc[t] # "idle"
    BY DEF CacheChunks
  <1> DEFINE links == ChainLinks(job[t].chunks, work[t].to_process)
  <1>2. work' = [work EXCEPT ![t] = [work[t] EXCEPT !.left = work[t].to_process, !.links = links]]
    BY DEF CacheChunks, Remember
  <1> HIDE DEF links
  <1>3. /\ work'[t].to_process = work[t].to_process
        /\ work'[t].left = work[t].to_process /\ work'[t].links = links
    BY <1>1, <1>2, OnlyUser DEF Work
  <1>4. pc'[t] = IF work[t].to_process = {} THEN "metadata" ELSE "store"
    BY <1>1, OnlyUser DEF CacheChunks, Goto
  <1> QED
    BY <1>3, <1>4 DEF CacheChunks, pgVars, graphVars, links

LEMMA StoreNodeEffect ==
    ASSUME TypeInv, NEW t \in Handlers, NEW u, Users = {u}, StoreNode(t), Smooth(t)
    PROVE  /\ UNCHANGED chunk_snapshot
           /\ work'[t].to_process = work[t].to_process /\ work'[t].links = work[t].links
           /\ \E i \in work[t].left :
                 /\ nodes'[u] = MergeNode(nodes[u], job[t].chunks[i])
                 /\ work'[t].left = IF work[t].left = {i} THEN ToPublish(t)
                                    ELSE work[t].left \ {i}
                 /\ pc'[t] = IF work[t].left = {i} THEN AfterStore(t) ELSE "store"
  <1>1. PICK i \in work[t].left :
          LET rest == work[t].left \ {i}
              next == IF rest = {} THEN ToPublish(t) ELSE rest
          IN  /\ nodes' = [nodes EXCEPT ![UserGraph(t)] = MergeNode(@, job[t].chunks[i])]
              /\ Remember(t, [work[t] EXCEPT !.left = next])
              /\ Goto(t, IF rest = {} THEN AfterStore(t) ELSE "store")
    BY DEF StoreNode, Smooth, Calls
  <1>2. pc[t] # "idle"
    BY DEF StoreNode
  <1> DEFINE rest == work[t].left \ {i}
  <1> DEFINE next == IF rest = {} THEN ToPublish(t) ELSE rest
  <1>3. work' = [work EXCEPT ![t] = [work[t] EXCEPT !.left = next]]
    BY <1>1 DEF Remember
  <1>4. /\ work'[t].to_process = work[t].to_process
        /\ work'[t].links = work[t].links
        /\ work'[t].left = next
    <2> HIDE DEF next
    <2> QED
      BY <1>2, <1>3, OnlyUser DEF Work
  <1>5. pc'[t] = IF rest = {} THEN AfterStore(t) ELSE "store"
    BY <1>1, <1>2, OnlyUser DEF Goto
  <1> DEFINE new == MergeNode(nodes[u], job[t].chunks[i])
  <1>6. nodes' = [nodes EXCEPT ![u] = new]
    BY <1>1, <1>2, OnlyUser
  <1>7. nodes'[u] = new
    <2> HIDE DEF new
    <2> QED
      BY <1>2, <1>6, OnlyUser
  <1>8. rest = {} <=> work[t].left = {i}
    OBVIOUS
  <1> QED
    BY <1>4, <1>5, <1>7, <1>8 DEF StoreNode, pgVars

LEMMA StoreLinkEffect ==
    ASSUME TypeInv, NEW t \in Handlers, NEW u, Users = {u}, StoreLink(t), Smooth(t)
    PROVE  /\ UNCHANGED chunk_snapshot
           /\ work'[t].to_process = work[t].to_process
           /\ \E link \in work[t].links :
                 /\ nodes'[u] = MergeEnds(nodes[u], link)
                 /\ work'[t].links = work[t].links \ {link}
                 /\ pc'[t] \in {"relate", "publish", "metadata"}
  <1>1. PICK link \in work[t].links :
          /\ nodes' = [nodes EXCEPT ![UserGraph(t)] = MergeEnds(@, link)]
          /\ Remember(t, [work[t] EXCEPT !.links = @ \ {link}])
          /\ Goto(t, IF work[t].links # {link} THEN "relate"
                     ELSE IF work[t].left # {} THEN "publish" ELSE "metadata")
    BY DEF StoreLink, Smooth, Calls
  <1>2. pc[t] # "idle"
    BY DEF StoreLink
  <1>3. /\ work'[t].to_process = work[t].to_process
        /\ work'[t].links = work[t].links \ {link}
    BY <1>1, <1>2, OnlyUser DEF Remember, Work
  <1>4. pc'[t] \in {"relate", "publish", "metadata"}
    BY <1>1, <1>2, OnlyUser DEF Goto
  <1> DEFINE new == MergeEnds(nodes[u], link)
  <1>5. nodes' = [nodes EXCEPT ![u] = new]
    BY <1>1, <1>2, OnlyUser
  <1>6. nodes'[u] = new
    <2> HIDE DEF new
    <2> QED
      BY <1>2, <1>5, OnlyUser
  <1> QED
    BY <1>3, <1>4, <1>6 DEF StoreLink, pgVars

LEMMA LastStepsEffect ==
    ASSUME TypeInv, NEW t \in Handlers, NEW u, Users = {u}, Smooth(t)
    PROVE  /\ Publish(t) => /\ UNCHANGED <<chunk_snapshot, nodes>>
                            /\ pc'[t] \in {"publish", "metadata"}
           /\ StoreMetadata(t) => UNCHANGED <<chunk_snapshot, nodes>> /\ pc'[t] = "idle"
           /\ DeleteMetadata(t) => UNCHANGED <<chunk_snapshot, nodes>> /\ pc'[t] = "idle"
           /\ DeleteNodes(t) =>
                 /\ UNCHANGED chunk_snapshot /\ pc'[t] = "delete_metadata"
                 /\ \A k \in Keys :
                       nodes'[u][k] = IF k \in FileNodes(nodes[u]) THEN None ELSE nodes[u][k]
  <1>1. pc \in [Handlers -> PCs]
    BY DEF TypeInv, TypeOK
  <1>2. ASSUME Publish(t)
        PROVE  UNCHANGED <<chunk_snapshot, nodes>> /\ pc'[t] \in {"publish", "metadata"}
    BY <1>1, <1>2 DEF Publish, Goto, pgVars, graphVars
  <1>3. ASSUME StoreMetadata(t) \/ DeleteMetadata(t)
        PROVE  UNCHANGED <<chunk_snapshot, nodes>> /\ pc'[t] = "idle"
    BY <1>1, <1>3 DEF StoreMetadata, DeleteMetadata, Finish, Goto, graphVars
  <1>4. ASSUME DeleteNodes(t)
        PROVE  /\ UNCHANGED chunk_snapshot /\ pc'[t] = "delete_metadata"
               /\ \A k \in Keys :
                     nodes'[u][k] = IF k \in FileNodes(nodes[u]) THEN None ELSE nodes[u][k]
    <2>1. pc[t] # "idle"
      BY <1>4 DEF DeleteNodes
    <2>2. DetachDelete(u, FileNodes(nodes[u])) /\ pc'[t] = "delete_metadata"
      BY <1>1, <1>4, <2>1, OnlyUser DEF DeleteNodes, Smooth, Calls, Goto
    <2> QED
      BY <1>4, <2>2, DetachDeleteEffect DEF DeleteNodes, pgVars
  <1> QED
    BY <1>2, <1>3, <1>4
-----------------------------------------------------------------------------
(* A run without a failure leaves no node of another version.              *)

(* What StoreNode and StoreLink add is of the version asked for. *)
LEMMA AddedKeys ==
    ASSUME TypeInv, BatchOnRecord, NEW t \in Handlers, NEW u, Users = {u},
           StoreNode(t) \/ StoreLink(t), Smooth(t)
    PROVE  NodeKeys(u)' \subseteq NodeKeys(u) \cup KeysOf(job[t].chunks)
  <1>1. pc[t] \in {"store", "relate"}
    BY DEF StoreNode, StoreLink
  <1>2. \A i \in work[t].to_process \cup work[t].left :
           job[t].chunks[i].key \in KeysOf(job[t].chunks)
    BY <1>1, Running DEF KeysOf
  <1>3. CASE StoreNode(t)
    <2>1. PICK i \in work[t].left :
             /\ nodes'[u] = MergeNode(nodes[u], job[t].chunks[i])
             /\ work'[t].left = IF work[t].left = {i} THEN ToPublish(t)
                                ELSE work[t].left \ {i}
             /\ pc'[t] = IF work[t].left = {i} THEN AfterStore(t) ELSE "store"
      BY <1>3, StoreNodeEffect
    <2>2. \A k \in Keys : k # job[t].chunks[i].key =>
             MergeNode(nodes[u], job[t].chunks[i])[k] = nodes[u][k]
      BY <1>1, OnlyUser DEF MergeNode
    <2> QED
      BY <1>2, <2>1, <2>2 DEF NodeKeys
  <1>4. CASE StoreLink(t)
    <2>1. PICK link \in work[t].links : nodes'[u] = MergeEnds(nodes[u], link)
      BY <1>4, StoreLinkEffect
    <2>2. PICK i \in work[t].to_process, j \in work[t].to_process :
             link = <<job[t].chunks[i].key, job[t].chunks[j].key>>
      BY <1>1, <2>1 DEF BatchOnRecord, OnRecord
    <2>3. \A k \in Keys : k \notin {link[1], link[2]} =>
             MergeEnds(nodes[u], link)[k] = nodes[u][k]
      BY DEF MergeEnds
    <2>4. \A k \in Keys : k \notin {link[1], link[2]} => nodes'[u][k] = nodes[u][k]
      BY <2>1, <2>3
    <2>5. link[1] \in {job[t].chunks[n].key : n \in work[t].to_process}
          /\ link[2] \in {job[t].chunks[n].key : n \in work[t].to_process}
      BY <2>2
    <2> QED
      BY <1>2, <2>4, <2>5 DEF NodeKeys
  <1> QED
    BY <1>3, <1>4

LEMMA StepPurged ==
    ASSUME NEW t, Handlers = {t}, NEW u, Users = {u}, TrackInv, HandlesLast(t),
           t \notin troubled => PurgedUpTo(t, u), Step(t), t \notin troubled'
    PROVE  PurgedUpTo(t, u)'
  <1>1. TypeInv /\ BatchOnRecord /\ t \in Handlers
    BY DEF TrackInv
  <1>2. Smooth(t)
    BY <1>1, NotTroubled
  <1>3. PurgedUpTo(t, u)
    BY <1>1, <1>2, SmoothSucceeds DEF Succeeds, faultVars
  <1>4. /\ pc[t] # "idle" /\ delivered' = delivered /\ Last' = Last
        /\ pc'[t] # "idle" => job' = job
        /\ delivered # <<>> /\ Last = job[t]
        /\ job[t].op = "delete" <=> pc[t] \in {"delete_nodes", "delete_metadata"}
    BY <1>1, StepKeepsJob DEF Last, HandlesLast
  <1>5. NodeKeys(u) \subseteq RecordedKeys
    BY <1>1, TrackedKeys DEF TrackInv
  <1>6. CASE FirstDiff(t)
    BY <1>1, <1>2, <1>4, <1>5, <1>6, FirstDiffEffect
       DEF PurgedUpTo, AfterFirstDiff, NodeKeys
  <1>7. CASE MarkDeleted(t)
    <2>1. pc[t] = "mark" /\ pc'[t] \in {"mark", "delete_orphans"}
      BY <1>1, <1>2, <1>7, MarkDeletedEffect DEF MarkDeleted
    <2> QED
      BY <1>1, <1>2, <1>3, <1>4, <1>7, <2>1, MarkDeletedEffect DEF PurgedUpTo, NodeKeys
  <1>8. CASE DeleteOrphans(t)
    <2>1. pc[t] = "delete_orphans" /\ pc'[t] \in {"metadata", "second_diff"}
      BY <1>1, <1>2, <1>8, DeleteOrphansEffect DEF DeleteOrphans, AfterFirstDiff
    <2>2. \A k \in Keys : nodes'[u][k] = IF k \in work[t].orphans THEN None ELSE nodes[u][k]
      BY <1>1, <1>2, <1>8, DeleteOrphansEffect
    <2>3. NodeKeys(u)' = NodeKeys(u) \ work[t].orphans
      BY <2>2 DEF NodeKeys
    <2> QED
      BY <1>3, <1>4, <2>1, <2>3 DEF PurgedUpTo
  <1>9. CASE SecondDiff(t) \/ Replace(t) \/ CacheChunks(t) \/ Publish(t)
    <2>1. pc[t] \in {"second_diff", "replace", "cache", "publish"} /\ UNCHANGED nodes
      BY <1>9 DEF SecondDiff, Replace, CacheChunks, Publish, graphVars
    <2>2. pc'[t] \in {"replace", "cache", "store", "publish", "metadata"}
      BY <1>1, <1>2, <1>9, SecondDiffEffect, ReplaceEffect, CacheChunksEffect, LastStepsEffect
    <2> QED
      BY <1>3, <1>4, <2>1, <2>2 DEF PurgedUpTo, NodeKeys
  <1>10. CASE StoreNode(t) \/ StoreLink(t)
    <2>1. pc[t] \in {"store", "relate"}
      BY <1>10 DEF StoreNode, StoreLink
    <2>2. pc'[t] \in {"store", "relate", "publish", "metadata"}
      BY <1>1, <1>2, <1>10, StoreNodeEffect, StoreLinkEffect DEF AfterStore
    <2> QED
      BY <1>1, <1>2, <1>3, <1>4, <1>10, <2>1, <2>2, AddedKeys DEF PurgedUpTo
  <1>11. CASE StoreMetadata(t)
    <2>1. pc[t] = "metadata" /\ pc'[t] = "idle" /\ UNCHANGED nodes
      BY <1>1, <1>2, <1>11, LastStepsEffect DEF StoreMetadata
    <2> QED
      BY <1>3, <1>4, <2>1 DEF PurgedUpTo, NodeKeys
  <1>12. CASE DeleteNodes(t) \/ DeleteMetadata(t)
    <2>1. pc[t] \in {"delete_nodes", "delete_metadata"} /\ pc'[t] \in {"delete_metadata", "idle"}
      BY <1>1, <1>2, <1>12, LastStepsEffect DEF DeleteNodes, DeleteMetadata
    <2> QED
      BY <1>4, <2>1 DEF PurgedUpTo
  <1> QED
    BY <1>6, <1>7, <1>8, <1>9, <1>10, <1>11, <1>12 DEF Step

LEMMA NextPurgeInv ==
    ASSUME NEW t, Handlers = {t}, NEW u, Users = {u}, "replace" \notin Faults,
           PurgeInv(t, u), [Next]_vars
    PROVE  PurgeInv(t, u)'
  <1>1. TrackInv /\ TypeInv /\ HandlesLast(t)
    BY DEF PurgeInv, TrackInv
  <1>2. TrackInv' /\ HandlesLast(t)'
    BY <1>1, NextTrackInv, NextHandlesLast
  <1>3. ASSUME t \notin troubled' PROVE PurgedUpTo(t, u)'
    <2>1. CASE Step(t)
      BY <1>1, <1>3, <2>1, StepPurged DEF PurgeInv
    <2>2. ASSUME NEW e \in Job, Deliver(t, e)
          PROVE  PurgedUpTo(t, u)'
      BY <1>1, <2>2, DeliverLast DEF PurgedUpTo
    <2>3. CASE Crash
      <3>1. pc[t] = "idle" /\ pc'[t] = "idle" /\ t \notin troubled
        BY <1>3, <2>3 DEF Crash
      <3> QED
        BY <2>3, <3>1 DEF Crash, PurgeInv, PurgedUpTo, Last, graphVars, NodeKeys
    <2>4. CASE UNCHANGED vars \/ CrowdOut
      BY <1>3, <2>4
         DEF vars, CrowdOut, taskVars, graphVars, faultVars, PurgeInv, PurgedUpTo, Last, NodeKeys
    <2> QED
      BY <2>1, <2>2, <2>3, <2>4 DEF Next
  <1> QED
    BY <1>2, <1>3 DEF PurgeInv

(* With one task and one user, a run of process_file that met no failure   *)
(* leaves only nodes of its own version, whatever failed or crashed        *)
(* before: for any versions, any keys and any bounds, as long as the       *)
(* transaction of atomic_replace_file_chunks does not fail.                *)
THEOREM SpecOrphansPurged ==
    ASSUME NEW t, Handlers = {t}, NEW u, Users = {u}, "replace" \notin Faults
    PROVE  Spec => []OrphansPurged
  <1>1. Init => PurgeInv(t, u)
    BY InitTrackInv DEF Init, PurgeInv, HandlesLast, PurgedUpTo
  <1>2. PurgeInv(t, u) /\ [Next]_vars => PurgeInv(t, u)'
    BY NextPurgeInv
  <1>3. PurgeInv(t, u) => OrphansPurged
    <2> SUFFICES ASSUME PurgeInv(t, u), pc[t] = "idle", t \notin troubled,
                        Requested(u) # <<>>
                 PROVE  NodeKeys(u) \subseteq KeysOf(Requested(u))
      BY DEF OrphansPurged, Quiescent
    <2>1. TypeInv
      BY DEF PurgeInv, TrackInv
    <2>2. delivered # <<>> /\ Last \in Job /\ Requested(u) = Last.chunks
      BY <2>1, RequestedLast
    <2>3. Last.op = "process"
      BY <2>2 DEF Job
    <2> QED
      BY <2>2, <2>3 DEF PurgeInv, PurgedUpTo
  <1> QED
    BY <1>1, <1>2, <1>3, PTL DEF Spec
-----------------------------------------------------------------------------
(* The operators on rows, when keys and hashes tell the chunks apart.      *)

Distinct == UniqueKeys /\ OneKeyPerHash

(* The chunks of an event: a version's, or none. *)
Chunkings == Versions \cup {<<>>}

LEMMA ChunkingFields ==
    ASSUME NEW W \in Chunkings
    PROVE  /\ DOMAIN W \subseteq Nat
           /\ \A S \in SUBSET DOMAIN W : S # {} => LastOf(S) \in S
           /\ W # <<>> => W \in Versions
           /\ \A i \in DOMAIN W :
                 /\ W \in Versions
                 /\ W[i].hash \in Hashes /\ W[i].key \in Keys
                 /\ IdOf(W[i]) \in Ids /\ KeyOf(IdOf(W[i])) = W[i].key
  <1>1. W \in Seq(Chunk)
    <2>1. <<>> \in Seq(Chunk) /\ Versions \subseteq Seq(Chunk)
      BY ConstantsAssumption
    <2> QED
      BY <2>1 DEF Chunkings
  <1>2. DOMAIN W = 1 .. Len(W) /\ Len(W) \in Nat /\ \A i \in DOMAIN W : W[i] \in Chunk
    BY <1>1
  <1>3. ASSUME NEW S \in SUBSET DOMAIN W, S # {} PROVE LastOf(S) \in S
    BY <1>2, <1>3, LastIndex
  <1>4. \A i \in DOMAIN W : W \in Versions
    BY DEF Chunkings
  <1> QED
    BY <1>2, <1>3, <1>4 DEF Chunkings, Chunk, IdOf, KeyOf, Ids

(* Within a version, a key and a hash each name one chunk. *)
LEMMA OneIndex ==
    ASSUME Distinct, NEW W \in Chunkings, NEW i \in DOMAIN W, NEW j \in DOMAIN W,
           W[i].key = W[j].key \/ W[i].hash = W[j].hash
    PROVE  i = j
  <1>1. W \in Versions
    BY ChunkingFields
  <1>2. W[i].key = W[j].key
    BY <1>1 DEF Distinct, OneKeyPerHash
  <1> QED
    BY <1>1, <1>2 DEF Distinct, UniqueKeys

(* The hash of a row names its id, *)
LEMMA OneRowPerHash ==
    ASSUME Distinct, NEW rows, RowsNamed(rows),
           NEW a \in Recorded(rows), NEW b \in Recorded(rows), rows[a].hash = rows[b].hash
    PROVE  a = b
  <1>1. PICK v \in Versions : \E i \in DOMAIN v : a = IdOf(v[i]) /\ rows[a].hash = v[i].hash
    BY DEF RowsNamed
  <1>2. PICK w \in Versions : \E j \in DOMAIN w : b = IdOf(w[j]) /\ rows[b].hash = w[j].hash
    BY DEF RowsNamed
  <1>3. PICK i \in DOMAIN v : a = IdOf(v[i]) /\ rows[a].hash = v[i].hash
    BY <1>1
  <1>4. PICK j \in DOMAIN w : b = IdOf(w[j]) /\ rows[b].hash = w[j].hash
    BY <1>2
  <1>5. v[i].key = w[j].key
    BY <1>3, <1>4 DEF Distinct, OneKeyPerHash
  <1> QED
    BY <1>3, <1>4, <1>5 DEF IdOf

(* so a row with the hash of a chunk is the row of that chunk. *)
LEMMA RowOfChunk ==
    ASSUME Distinct, NEW rows, RowsNamed(rows), NEW id \in Recorded(rows),
           NEW W \in Chunkings, NEW i \in DOMAIN W, rows[id].hash = W[i].hash
    PROVE  id = IdOf(W[i]) /\ KeyOf(id) = W[i].key
  <1>1. PICK v \in Versions : \E j \in DOMAIN v : id = IdOf(v[j]) /\ rows[id].hash = v[j].hash
    BY DEF RowsNamed
  <1>2. PICK j \in DOMAIN v : id = IdOf(v[j]) /\ rows[id].hash = v[j].hash
    BY <1>1
  <1>3. W \in Versions
    BY ChunkingFields
  <1>4. v[j].key = W[i].key
    BY <1>2, <1>3 DEF Distinct, OneKeyPerHash
  <1> QED
    BY <1>2, <1>4 DEF IdOf, KeyOf

LEMMA InLivePairs ==
    ASSUME NEW rows, NEW p
    PROVE  p \in LivePairs(rows) <=> \E id \in Live(rows) : p = <<KeyOf(id), rows[id].hash>>
  BY DEF LivePairs

(* The second diff finds exactly the chunks that no live row holds, and    *)
(* the live rows that hold none of the chunks.                             *)
LEMMA SecondDiffExact ==
    ASSUME Distinct, NEW rows, RowsNamed(rows), NEW W \in Chunkings, NEW m \in ExistingMaps(rows)
    PROVE  /\ ChunksToProcess(W, m) =
                  {i \in DOMAIN W : PairAt(W, i) \notin LivePairs(rows)}
           /\ ToDelete(W, m) =
                  {id \in Live(rows) : <<KeyOf(id), rows[id].hash>> \notin PairsOf(W)}
  <1>1. /\ \A h : h \in DOMAIN m <=> \E id \in Live(rows) : rows[id].hash = h
        /\ \A h \in DOMAIN m : m[h] \in Live(rows) /\ rows[m[h]].hash = h
    BY DEF ExistingMaps
  <1>2. Live(rows) \subseteq Recorded(rows) /\ DOMAIN W \subseteq Nat
    BY ChunkingFields DEF Live
  <1>3. ASSUME NEW i \in DOMAIN W
        PROVE  W[i].hash \in DOMAIN m <=> PairAt(W, i) \in LivePairs(rows)
    <2>1. ASSUME NEW id \in Live(rows), rows[id].hash = W[i].hash
          PROVE  PairAt(W, i) = <<KeyOf(id), rows[id].hash>>
      BY <1>2, <2>1, RowOfChunk DEF PairAt
    <2>2. ASSUME NEW id \in Live(rows), PairAt(W, i) = <<KeyOf(id), rows[id].hash>>
          PROVE  rows[id].hash = W[i].hash
      BY <2>2 DEF PairAt
    <2> QED
      BY <1>1, <2>1, <2>2, InLivePairs
  <1>4. ASSUME NEW i \in DOMAIN W, NEW j \in DOMAIN W, W[j].hash = W[i].hash
        PROVE  i = j
    BY <1>4, OneIndex
  <1>5. \A i \in DOMAIN W : ~ \E j \in DOMAIN W : j < i /\ W[j].hash = W[i].hash
    BY <1>2, <1>4
  <1>6. ChunksToProcess(W, m) = {i \in DOMAIN W : PairAt(W, i) \notin LivePairs(rows)}
    BY <1>3, <1>5 DEF ChunksToProcess
  <1>7. ASSUME NEW h \in DOMAIN m \ HashesOf(W)
        PROVE  /\ m[h] \in Live(rows)
               /\ <<KeyOf(m[h]), rows[m[h]].hash>> \notin PairsOf(W)
    BY <1>1 DEF HashesOf, PairsOf, PairAt
  <1>8. ASSUME NEW id \in Live(rows), <<KeyOf(id), rows[id].hash>> \notin PairsOf(W)
        PROVE  \E h \in DOMAIN m \ HashesOf(W) : id = m[h]
    <2>1. rows[id].hash \in DOMAIN m
      BY <1>1
    <2>2. id = m[rows[id].hash]
      BY <1>1, <1>2, <2>1, OneRowPerHash
    <2>3. ASSUME NEW i \in DOMAIN W, rows[id].hash = W[i].hash
          PROVE  FALSE
      BY <1>2, <1>8, <2>3, RowOfChunk DEF PairsOf, PairAt
    <2>4. rows[id].hash \notin HashesOf(W)
      BY <2>3 DEF HashesOf
    <2> QED
      BY <2>1, <2>2, <2>4
  <1>9. ToDelete(W, m) = {id \in Live(rows) : <<KeyOf(id), rows[id].hash>> \notin PairsOf(W)}
    BY <1>7, <1>8 DEF ToDelete
  <1> QED
    BY <1>6, <1>9

(* The UPDATE of tombstones hides rows and changes nothing else of them. *)
LEMMA TombstonedRow ==
    ASSUME NEW rows \in [Ids -> Row \cup {None}], NEW ids, NEW id \in Ids
    PROVE  LET new == Tombstoned(rows, ids)
           IN  /\ new[id] = None <=> rows[id] = None
               /\ rows[id] # None => new[id].hash = rows[id].hash
               /\ id \in Live(new) <=> id \in Live(rows) /\ id \notin ids
  <1>1. None \notin Row
    BY ConstantsAssumption
  <1>2. \A r \in Row : LET d == [r EXCEPT !.tombstone = TRUE]
                       IN  d # None /\ d.hash = r.hash /\ d.tombstone
    BY <1>1 DEF Row
  <1>3. Tombstoned(rows, ids)[id] = IF id \in ids /\ rows[id] # None
                                    THEN [rows[id] EXCEPT !.tombstone = TRUE] ELSE rows[id]
    BY DEF Tombstoned
  <1>4. rows[id] # None => rows[id] \in Row
    OBVIOUS
  <1>5. CASE id \in ids /\ rows[id] # None
    BY <1>2, <1>3, <1>4, <1>5 DEF Live, Recorded
  <1>6. CASE ~(id \in ids /\ rows[id] # None)
    BY <1>3, <1>6 DEF Live, Recorded
  <1> QED
    BY <1>5, <1>6

LEMMA TombstonedNamed ==
    ASSUME NEW rows \in [Ids -> Row \cup {None}], NEW ids, RowsNamed(rows)
    PROVE  RowsNamed(Tombstoned(rows, ids))
  <1>1. ASSUME NEW id \in Recorded(Tombstoned(rows, ids))
        PROVE  id \in Recorded(rows) /\ Tombstoned(rows, ids)[id].hash = rows[id].hash
    BY TombstonedRow DEF Recorded
  <1> QED
    BY <1>1 DEF RowsNamed

LEMMA TombstonedPairs ==
    ASSUME NEW rows \in [Ids -> Row \cup {None}], NEW k
    PROVE  LivePairs(Tombstoned(rows, {id \in Ids : KeyOf(id) = k})) =
              {p \in LivePairs(rows) : p[1] # k}
  <1> DEFINE ids == {id \in Ids : KeyOf(id) = k}
  <1> DEFINE new == Tombstoned(rows, ids)
  <1>1. ASSUME NEW id \in Ids
        PROVE  /\ id \in Live(new) <=> id \in Live(rows) /\ KeyOf(id) # k
               /\ id \in Live(rows) => new[id].hash = rows[id].hash
    BY TombstonedRow DEF Live, Recorded
  <1>2. Live(new) \subseteq Ids /\ Live(rows) \subseteq Ids
    BY DEF Live, Recorded
  <1> HIDE DEF new
  <1>3. ASSUME NEW p \in LivePairs(new)
        PROVE  p \in LivePairs(rows) /\ p[1] # k
    <2>1. PICK id \in Live(new) : p = <<KeyOf(id), new[id].hash>>
      BY InLivePairs
    <2> QED
      BY <1>1, <1>2, <2>1, InLivePairs
  <1>4. ASSUME NEW p \in LivePairs(rows), p[1] # k
        PROVE  p \in LivePairs(new)
    <2>1. PICK id \in Live(rows) : p = <<KeyOf(id), rows[id].hash>>
      BY InLivePairs
    <2> QED
      BY <1>1, <1>2, <1>4, <2>1, InLivePairs
  <1> QED
    BY <1>3, <1>4 DEF new

LiveRow(chunk) == [hash |-> chunk.hash, tombstone |-> FALSE]

(* Of the chunks of a version, one at most has an id: the upsert writes    *)
(* its hash.                                                               *)
LEMMA UpsertedRow ==
    ASSUME Distinct, NEW rows, NEW W, NEW batch, NEW id,
           W \in Chunkings, batch \subseteq DOMAIN W, id \in Ids
    PROVE  /\ \A i \in batch : id = IdOf(W[i]) =>
                 Upserted(rows, W, batch)[id] = LiveRow(W[i])
           /\ (\A i \in batch : id # IdOf(W[i])) =>
                 Upserted(rows, W, batch)[id] = rows[id]
  <1> DEFINE same == {i \in batch : IdOf(W[i]) = id}
  <1>1. Upserted(rows, W, batch)[id] =
            IF same = {} THEN rows[id]
            ELSE [hash |-> W[LastOf(same)].hash, tombstone |-> FALSE]
    BY DEF Upserted
  <1>2. ASSUME NEW i \in batch, id = IdOf(W[i])
        PROVE  LastOf(same) = i
    <2>1. LastOf(same) \in same
      BY <1>2, ChunkingFields
    <2>2. W[LastOf(same)].key = W[i].key
      BY <1>2, <2>1, ChunkingFields
    <2> QED
      BY <2>1, <2>2, OneIndex
  <1>3. ASSUME NEW i \in batch, id = IdOf(W[i])
        PROVE  Upserted(rows, W, batch)[id] = LiveRow(W[i])
    <2>1. same # {}
      BY <1>3
    <2> HIDE DEF same
    <2> QED
      BY <1>1, <1>2, <1>3, <2>1 DEF LiveRow
  <1> QED
    BY <1>1, <1>3

(* The transaction that tombstones the one and upserts the other makes the *)
(* live rows those of the version, and nothing but them.                   *)
LEMMA ReplacedExact ==
    ASSUME Distinct, NEW rows \in [Ids -> Row \cup {None}], RowsNamed(rows), NEW W \in Chunkings
    PROVE  LET batch == {i \in DOMAIN W : PairAt(W, i) \notin LivePairs(rows)}
               gone == {id \in Live(rows) :
                           <<KeyOf(id), rows[id].hash>> \notin PairsOf(W)}
               new == Replaced(rows, gone, W, batch)
           IN  LivePairs(new) = PairsOf(W) /\ RowsNamed(new)
  <1> DEFINE batch == {i \in DOMAIN W : PairAt(W, i) \notin LivePairs(rows)}
  <1> DEFINE gone == {id \in Live(rows) : <<KeyOf(id), rows[id].hash>> \notin PairsOf(W)}
  <1> DEFINE mid == Tombstoned(rows, gone)
  <1> DEFINE new == Upserted(mid, W, batch)
  <1>1. \A i \in DOMAIN W : W[i].hash \in Hashes /\ IdOf(W[i]) \in Ids /\ KeyOf(IdOf(W[i])) = W[i].key
    BY ChunkingFields
  <1>2. ASSUME NEW i \in batch
        PROVE  /\ IdOf(W[i]) \in Live(new) /\ new[IdOf(W[i])].hash = W[i].hash
               /\ <<KeyOf(IdOf(W[i])), new[IdOf(W[i])].hash>> = PairAt(W, i)
    <2>1. new[IdOf(W[i])] = LiveRow(W[i])
      <3>1. batch \in SUBSET DOMAIN W /\ i \in batch /\ IdOf(W[i]) \in Ids
        BY <1>1
      <3>2. DOMAIN new = Ids
        BY DEF Upserted
      <3>3. ASSUME NEW id \in Ids, id = IdOf(W[i])
            PROVE  Upserted(mid, W, batch)[id] = LiveRow(W[i])
        <4> HIDE DEF batch, mid
        <4> QED
          BY <3>1, <3>3, UpsertedRow
      <3> QED
        BY <3>1, <3>3
    <2>2. None \notin Row
      BY ConstantsAssumption
    <2>3. /\ LiveRow(W[i]) \in Row /\ LiveRow(W[i]).hash = W[i].hash
          /\ ~LiveRow(W[i]).tombstone
      BY <1>1 DEF LiveRow, Row
    <2>4. IdOf(W[i]) \in Ids /\ KeyOf(IdOf(W[i])) = W[i].key
      BY <1>1
    <2> HIDE DEF new, batch
    <2> QED
      BY <2>1, <2>2, <2>3, <2>4 DEF Live, Recorded, PairAt
  <1>3. ASSUME NEW id \in Ids, \A i \in batch : id # IdOf(W[i])
        PROVE  /\ id \in Live(new) <=> id \in Live(rows) /\ id \notin gone
               /\ id \in Recorded(new) <=> id \in Recorded(rows)
               /\ id \in Recorded(rows) => new[id].hash = rows[id].hash
    <2>1. new[id] = mid[id]
      <3>1. batch \in SUBSET DOMAIN W
        OBVIOUS
      <3> HIDE DEF batch, mid
      <3> QED
        BY <1>3, <3>1, UpsertedRow
    <2>2. /\ mid[id] = None <=> rows[id] = None
          /\ rows[id] # None => mid[id].hash = rows[id].hash
          /\ id \in Live(mid) <=> id \in Live(rows) /\ id \notin gone
      BY TombstonedRow
    <2> HIDE DEF new, mid, gone, batch
    <2> QED
      BY <2>1, <2>2 DEF Live, Recorded
  <1>4. RowsNamed(new)
    <2> SUFFICES ASSUME NEW id \in Recorded(new)
                 PROVE  \E v \in Versions : \E i \in DOMAIN v :
                            id = IdOf(v[i]) /\ new[id].hash = v[i].hash
      BY DEF RowsNamed
    <2>1. id \in Ids
      BY DEF Recorded
    <2>2. ASSUME NEW i \in batch, id = IdOf(W[i])
          PROVE  W \in Versions /\ i \in DOMAIN W /\ new[id].hash = W[i].hash
      <3>1. i \in DOMAIN W /\ new[id].hash = W[i].hash
        BY <1>2, <2>2
      <3> QED
        BY <3>1, ChunkingFields
    <2>3. ASSUME \A i \in batch : id # IdOf(W[i])
          PROVE  id \in Recorded(rows) /\ new[id].hash = rows[id].hash
      BY <1>3, <2>1, <2>3
    <2> HIDE DEF new, batch
    <2> QED
      BY <2>2, <2>3 DEF RowsNamed
  <1>5. LivePairs(new) \subseteq PairsOf(W)
    <2> SUFFICES ASSUME NEW id \in Live(new)
                 PROVE  <<KeyOf(id), new[id].hash>> \in PairsOf(W)
      BY DEF LivePairs
    <2>1. id \in Ids
      BY DEF Live, Recorded
    <2>2. ASSUME NEW i \in batch, id = IdOf(W[i])
          PROVE  <<KeyOf(id), new[id].hash>> \in PairsOf(W)
      BY <1>2, <2>2 DEF PairsOf
    <2>3. ASSUME \A i \in batch : id # IdOf(W[i])
          PROVE  <<KeyOf(id), new[id].hash>> \in PairsOf(W)
      <3>1. id \in Live(rows) /\ id \notin gone /\ new[id].hash = rows[id].hash
        BY <1>3, <2>1, <2>3 DEF Live
      <3> QED
        BY <3>1
    <2> QED
      BY <2>2, <2>3
  <1>6. ASSUME NEW i \in DOMAIN W
        PROVE  PairAt(W, i) \in LivePairs(new)
    <2>1. CASE i \in batch
      BY <1>2, <2>1, InLivePairs
    <2>2. CASE i \notin batch
      <3>1. PICK id \in Live(rows) : PairAt(W, i) = <<KeyOf(id), rows[id].hash>>
        BY <2>2, InLivePairs
      <3>2. id \in Recorded(rows) /\ id \in Ids
        BY DEF Live, Recorded
      <3>3. id \notin gone
        BY <3>1 DEF PairsOf
      <3>4. ASSUME NEW j \in batch, id = IdOf(W[j])
            PROVE  FALSE
        <4>1. W[j].key = W[i].key
          BY <1>1, <3>1, <3>4 DEF PairAt
        <4> QED
          BY <2>2, <4>1, OneIndex
      <3>5. id \in Live(new) /\ new[id].hash = rows[id].hash
        BY <1>3, <3>2, <3>3, <3>4
      <3> QED
        BY <3>1, <3>5, InLivePairs
    <2> QED
      BY <2>1, <2>2
  <1>7. PairsOf(W) \subseteq LivePairs(new)
    BY <1>6 DEF PairsOf
  <1> QED
    BY <1>4, <1>5, <1>7 DEF Replaced
-----------------------------------------------------------------------------
(* The rows and the graph move together.                                   *)

LEMMA InContents ==
    ASSUME NEW u, NEW p
    PROVE  p \in Contents(u) <=>
              \E k \in Keys : nodes[u][k] # None /\ p = <<k, nodes[u][k].content>>
  BY DEF Contents, NodeKeys

LEMMA SameContents ==
    ASSUME NEW u, \A k \in Keys : nodes'[u][k] = nodes[u][k]
    PROVE  Contents(u)' = Contents(u)
  BY DEF Contents, NodeKeys

(* Deleting the nodes of some keys, *)
LEMMA ContentsDeleted ==
    ASSUME NEW u, NEW keys,
           \A k \in Keys : nodes'[u][k] = IF k \in keys THEN None ELSE nodes[u][k]
    PROVE  \A p : p \in Contents(u)' <=> p \in Contents(u) /\ p[1] \notin keys
  <1>1. ASSUME NEW p, p \in Contents(u)'
        PROVE  p \in Contents(u) /\ p[1] \notin keys
    <2>1. PICK k \in Keys : nodes'[u][k] # None /\ p = <<k, nodes'[u][k].content>>
      BY <1>1 DEF Contents, NodeKeys
    <2> QED
      BY <2>1, InContents
  <1>2. ASSUME NEW p, p \in Contents(u), p[1] \notin keys
        PROVE  p \in Contents(u)'
    <2>1. PICK k \in Keys : nodes[u][k] # None /\ p = <<k, nodes[u][k].content>>
      BY <1>2, InContents
    <2>2. nodes'[u][k] = nodes[u][k]
      BY <1>2, <2>1
    <2> QED
      BY <2>1, <2>2 DEF Contents, NodeKeys
  <1> QED
    BY <1>1, <1>2

(* storing a chunk, *)
LEMMA ContentsStored ==
    ASSUME NEW u, NEW c \in Chunk, nodes[u] \in [Keys -> Node \cup {None}],
           nodes'[u] = MergeNode(nodes[u], c)
    PROVE  \A p : p \in Contents(u)' <=>
              p = <<c.key, c.hash>> \/ (p \in Contents(u) /\ p[1] # c.key)
  <1>1. \A k \in Keys : k # c.key => nodes'[u][k] = nodes[u][k]
    BY DEF MergeNode
  <1>2. c.key \in Keys /\ c.hash \in Hashes
    BY DEF Chunk
  <1>3. nodes'[u][c.key] \in Node /\ nodes'[u][c.key].content = c.hash /\ None \notin Node
    BY <1>2, ConstantsAssumption DEF MergeNode, Node
  <1>4. ASSUME NEW p, p \in Contents(u)'
        PROVE  p = <<c.key, c.hash>> \/ (p \in Contents(u) /\ p[1] # c.key)
    <2>1. PICK k \in Keys : nodes'[u][k] # None /\ p = <<k, nodes'[u][k].content>>
      BY <1>4 DEF Contents, NodeKeys
    <2> QED
      BY <1>1, <1>3, <2>1, InContents
  <1>5. ASSUME NEW p, p \in Contents(u), p[1] # c.key
        PROVE  p \in Contents(u)'
    <2>1. PICK k \in Keys : nodes[u][k] # None /\ p = <<k, nodes[u][k].content>>
      BY <1>5, InContents
    <2>2. nodes'[u][k] = nodes[u][k]
      BY <1>1, <1>5, <2>1
    <2> QED
      BY <2>1, <2>2 DEF Contents, NodeKeys
  <1>6. <<c.key, c.hash>> \in Contents(u)'
    <2>1. nodes'[u][c.key] # None
      BY <1>3
    <2> QED
      BY <1>2, <1>3, <2>1 DEF Contents, NodeKeys
  <1> QED
    BY <1>4, <1>5, <1>6

(* and storing a link between nodes that are there. *)
LEMMA ContentsLinked ==
    ASSUME NEW u, NEW link, nodes'[u] = MergeEnds(nodes[u], link),
           nodes[u][link[1]] # None, nodes[u][link[2]] # None
    PROVE  (\A k \in Keys : nodes'[u][k] = nodes[u][k]) /\ Contents(u)' = Contents(u)
  <1>1. \A k \in Keys : nodes'[u][k] = nodes[u][k]
    BY DEF MergeEnds
  <1> QED
    BY <1>1, SameContents

(* What every step of a running task leaves alone. *)
LEMMA StepBase ==
    ASSUME NEW t, Handlers = {t}, TypeInv, HandlesLast(t), Step(t)
    PROVE  /\ t \in Handlers /\ pc[t] # "idle"
           /\ job[t].chunks \in Chunkings
           /\ work[t].to_process \subseteq DOMAIN job[t].chunks
           /\ delivered' = delivered /\ Last' = Last /\ delivered # <<>> /\ Last = job[t]
           /\ pc'[t] # "idle" => job' = job
           /\ job[t].op = "delete" <=> pc[t] \in DeletePCs
           /\ job[t].op \in Operations
  <1>1. pc[t] # "idle" /\ delivered' = delivered /\ (pc'[t] # "idle" => job' = job)
    BY StepKeepsJob
  <1>2. job[t] \in Job /\ work[t].to_process \subseteq DOMAIN job[t].chunks
    BY <1>1, Running
  <1> QED
    BY <1>1, <1>2, JobFields DEF HandlesLast, Last, DeletePCs, Chunkings

LEMMA LiveKeys == \A p \in LivePairs(chunk_snapshot) : p[1] \in RecordedKeys
  BY DEF LivePairs, Live, RecordedKeys

LEMMA NoChunks == KeysOf(<<>>) = {} /\ PairsOf(<<>>) = {} /\ DOMAIN <<>> = {}
  BY DEF KeysOf, PairsOf

LEMMA FirstDiffInStep ==
    ASSUME NEW t, Handlers = {t}, NEW u, Users = {u}, TypeInv, HandlesLast(t),
           InStep(t, u), FirstDiff(t), Smooth(t)
    PROVE  InStep(t, u)'
  <1> DEFINE W == job[t].chunks
  <1> DEFINE gone == RecordedKeys \ KeysOf(W)
  <1>1. /\ t \in Handlers /\ pc[t] = "first_diff"
        /\ UNCHANGED <<chunk_snapshot, nodes>>
        /\ pc'[t] = IF gone = {} THEN AfterFirstDiff(t) ELSE "mark"
        /\ work'[t].orphans = gone /\ work'[t].to_mark = gone
    BY FirstDiffEffect DEF FirstDiff
  <1>2. pc'[t] = IF gone = {} THEN IF W = <<>> THEN "metadata" ELSE "second_diff" ELSE "mark"
    BY <1>1 DEF AfterFirstDiff
  <1>3. job' = job
    BY <1>2, StepBase DEF Step
  <1>4. Contents(u)' = Contents(u)
    BY <1>1, SameContents
  <1>5. /\ RowsNamed(chunk_snapshot) /\ OnePerKey(LivePairs(chunk_snapshot))
        /\ Contents(u) \subseteq LivePairs(chunk_snapshot)
        /\ "delete" \notin Operations => LivePairs(chunk_snapshot) \subseteq Contents(u)
    BY <1>1 DEF InStep, RowsInStep, GraphInStep, GraphComplete
  <1>6. gone = {} => \A p \in LivePairs(chunk_snapshot) : p[1] \in KeysOf(W)
    BY LiveKeys
  <1>7. gone = {} /\ W = <<>> => LivePairs(chunk_snapshot) = {} /\ PairsOf(W) = {}
    BY <1>6, NoChunks
  <1>8. \A p \in LivePairs(chunk_snapshot) : p[1] \in KeysOf(W) \cup gone
    BY LiveKeys
  <1>9. gone \cap KeysOf(W) = {}
    OBVIOUS
  <1> HIDE DEF gone
  <1>10. RowsInStep(t)'
    BY <1>1, <1>2, <1>3, <1>5, <1>6, <1>7, <1>8, <1>9 DEF RowsInStep
  <1>11. GraphInStep(t, u)'
    BY <1>1, <1>2, <1>3, <1>4, <1>5 DEF GraphInStep
  <1>12. "delete" \notin Operations => GraphComplete(t, u)'
    BY <1>1, <1>2, <1>3, <1>4, <1>5, <1>7 DEF GraphComplete
  <1> QED
    BY <1>10, <1>11, <1>12 DEF InStep

LEMMA MarkDeletedInStep ==
    ASSUME NEW t, Handlers = {t}, NEW u, Users = {u}, TypeInv, HandlesLast(t),
           InStep(t, u), MarkDeleted(t), Smooth(t)
    PROVE  InStep(t, u)'
  <1> DEFINE W == job[t].chunks
  <1> DEFINE live == LivePairs(chunk_snapshot)
  <1>1. t \in Handlers /\ pc[t] = "mark" /\ chunk_snapshot \in [Ids -> Row \cup {None}]
    BY DEF MarkDeleted, TypeInv, TypeOK
  <1>2. PICK k \in work[t].to_mark :
           /\ chunk_snapshot' = Tombstoned(chunk_snapshot, {id \in Ids : KeyOf(id) = k})
           /\ work'[t].to_mark = work[t].to_mark \ {k}
           /\ pc'[t] = IF work[t].to_mark = {k} THEN "delete_orphans" ELSE "mark"
    BY <1>1, MarkDeletedEffect
  <1>3. UNCHANGED nodes /\ work'[t].orphans = work[t].orphans
    BY <1>1, MarkDeletedEffect
  <1>4. job' = job
    BY <1>2, StepBase DEF Step
  <1>5. Contents(u)' = Contents(u)
    BY <1>3, SameContents
  <1>6. LivePairs(chunk_snapshot') = {p \in live : p[1] # k}
    <2>1. LivePairs(Tombstoned(chunk_snapshot, {id \in Ids : KeyOf(id) = k})) =
             {p \in live : p[1] # k}
      BY <1>1, TombstonedPairs
    <2> QED
      BY <1>2, <2>1, Zenon
  <1>7. RowsNamed(chunk_snapshot')
    BY <1>1, <1>2, TombstonedNamed DEF InStep, RowsInStep
  <1>8. /\ OnePerKey(live)
        /\ \A p \in live : p[1] \in KeysOf(W) \cup work[t].to_mark
        /\ work[t].orphans \cap KeysOf(W) = {}
        /\ work[t].to_mark \subseteq work[t].orphans
        /\ \A p \in Contents(u) : p \in live \/ p[1] \in work[t].orphans
        /\ "delete" \notin Operations => live \subseteq Contents(u)
    BY <1>1 DEF InStep, RowsInStep, GraphInStep, GraphComplete
  <1> HIDE DEF live
  <1>9. OnePerKey(LivePairs(chunk_snapshot'))
    BY <1>6, <1>8 DEF OnePerKey
  <1>10. RowsInStep(t)'
    BY <1>2, <1>3, <1>4, <1>6, <1>7, <1>8, <1>9 DEF RowsInStep
  <1>11. GraphInStep(t, u)'
    BY <1>2, <1>3, <1>4, <1>5, <1>6, <1>8 DEF GraphInStep
  <1>12. "delete" \notin Operations => GraphComplete(t, u)'
    BY <1>2, <1>4, <1>5, <1>6, <1>8 DEF GraphComplete
  <1> QED
    BY <1>10, <1>11, <1>12 DEF InStep

LEMMA DeleteOrphansInStep ==
    ASSUME NEW t, Handlers = {t}, NEW u, Users = {u}, TypeInv, HandlesLast(t),
           InStep(t, u), DeleteOrphans(t), Smooth(t)
    PROVE  InStep(t, u)'
  <1> DEFINE W == job[t].chunks
  <1> DEFINE live == LivePairs(chunk_snapshot)
  <1>1. /\ t \in Handlers /\ pc[t] = "delete_orphans"
        /\ UNCHANGED <<chunk_snapshot, work>>
        /\ pc'[t] = AfterFirstDiff(t)
        /\ \A k \in Keys :
              nodes'[u][k] = IF k \in work[t].orphans THEN None ELSE nodes[u][k]
    BY DeleteOrphansEffect DEF DeleteOrphans
  <1>2. pc'[t] = IF W = <<>> THEN "metadata" ELSE "second_diff"
    BY <1>1 DEF AfterFirstDiff
  <1>3. job' = job
    BY <1>2, StepBase DEF Step
  <1>4. \A p : p \in Contents(u)' <=> p \in Contents(u) /\ p[1] \notin work[t].orphans
    BY <1>1, ContentsDeleted
  <1>5. /\ RowsNamed(chunk_snapshot) /\ OnePerKey(live)
        /\ \A p \in live : p[1] \in KeysOf(W)
        /\ work[t].orphans \cap KeysOf(W) = {}
        /\ \A p \in Contents(u) : p \in live \/ p[1] \in work[t].orphans
        /\ "delete" \notin Operations => live \subseteq Contents(u)
    BY <1>1 DEF InStep, RowsInStep, GraphInStep, GraphComplete
  <1>6. W = <<>> => live = {} /\ PairsOf(W) = {}
    BY <1>5, NoChunks
  <1>7. LivePairs(chunk_snapshot') = live
    BY <1>1
  <1> HIDE DEF live
  <1>8. Contents(u)' \subseteq live /\ ("delete" \notin Operations => live \subseteq Contents(u)')
    BY <1>4, <1>5
  <1>9. RowsInStep(t)'
    BY <1>1, <1>2, <1>3, <1>5, <1>6, <1>7 DEF RowsInStep
  <1>10. GraphInStep(t, u)'
    BY <1>1, <1>2, <1>3, <1>7, <1>8 DEF GraphInStep
  <1>11. "delete" \notin Operations => GraphComplete(t, u)'
    BY <1>1, <1>2, <1>3, <1>6, <1>7, <1>8 DEF GraphComplete
  <1> QED
    BY <1>9, <1>10, <1>11 DEF InStep

LEMMA SecondDiffInStep ==
    ASSUME Distinct, NEW t, Handlers = {t}, NEW u, Users = {u}, TypeInv, HandlesLast(t),
           InStep(t, u), SecondDiff(t), Smooth(t)
    PROVE  InStep(t, u)'
  <1> DEFINE W == job[t].chunks
  <1> DEFINE live == LivePairs(chunk_snapshot)
  <1> DEFINE batch == {i \in DOMAIN W : PairAt(W, i) \notin live}
  <1> DEFINE gone == {id \in Live(chunk_snapshot) :
                         <<KeyOf(id), chunk_snapshot[id].hash>> \notin PairsOf(W)}
  <1>1. /\ t \in Handlers /\ pc[t] = "second_diff" /\ W \in Chunkings
    BY StepBase DEF Step, SecondDiff
  <1>2. /\ RowsNamed(chunk_snapshot) /\ OnePerKey(live)
        /\ \A p \in live : p[1] \in KeysOf(W)
        /\ Contents(u) \subseteq live
        /\ "delete" \notin Operations => live \subseteq Contents(u)
    BY <1>1 DEF InStep, RowsInStep, GraphInStep, GraphComplete
  <1>3. PICK m \in ExistingMaps(chunk_snapshot) :
           /\ work'[t].to_process = ChunksToProcess(W, m)
           /\ work'[t].to_delete = ToDelete(W, m)
           /\ pc'[t] = IF ChunksToProcess(W, m) = {} /\ ToDelete(W, m) = {}
                       THEN "metadata" ELSE "replace"
    BY <1>1, SecondDiffEffect
  <1>4. ChunksToProcess(W, m) = batch /\ ToDelete(W, m) = gone
    BY <1>1, <1>2, SecondDiffExact
  <1>5. /\ work'[t].to_process = batch /\ work'[t].to_delete = gone
        /\ pc'[t] = IF batch = {} /\ gone = {} THEN "metadata" ELSE "replace"
    BY <1>3, <1>4
  <1>6. job' = job
    BY <1>5, StepBase DEF Step
  <1>7. Contents(u)' = Contents(u) /\ chunk_snapshot' = chunk_snapshot
    BY <1>1, SecondDiffEffect, SameContents
  <1>8. batch = {} /\ gone = {} => live = PairsOf(W)
    <2> SUFFICES ASSUME batch = {}, gone = {} PROVE live = PairsOf(W)
      OBVIOUS
    <2>1. \A i \in DOMAIN W : PairAt(W, i) \in live
      OBVIOUS
    <2>2. PairsOf(W) \subseteq live
      BY <2>1 DEF PairsOf
    <2>3. ASSUME NEW p \in live PROVE p \in PairsOf(W)
      <3>1. PICK id \in Live(chunk_snapshot) : p = <<KeyOf(id), chunk_snapshot[id].hash>>
        BY InLivePairs
      <3> QED
        BY <3>1
    <2> QED
      BY <2>2, <2>3
  <1>9. RowsInStep(t)'
    <2> HIDE DEF batch, gone
    <2>1. pc'[t] = "replace" =>
             /\ work'[t].to_process = {i \in DOMAIN W : PairAt(W, i) \notin live}
             /\ work'[t].to_delete =
                   {id \in Live(chunk_snapshot) :
                       <<KeyOf(id), chunk_snapshot[id].hash>> \notin PairsOf(W)}
      BY <1>5 DEF batch, gone
    <2> QED
      BY <1>2, <1>5, <1>6, <1>7, <1>8, <2>1 DEF RowsInStep
  <1> HIDE DEF batch, gone, live
  <1>10. GraphInStep(t, u)'
    BY <1>2, <1>5, <1>6, <1>7 DEF GraphInStep, live
  <1>11. "delete" \notin Operations => GraphComplete(t, u)'
    BY <1>2, <1>5, <1>6, <1>7, <1>8 DEF GraphComplete, live
  <1> QED
    BY <1>9, <1>10, <1>11 DEF InStep

LEMMA PairsOnePerKey ==
    ASSUME Distinct, NEW W \in Chunkings
    PROVE  OnePerKey(PairsOf(W))
  <1>1. ASSUME NEW i \in DOMAIN W, NEW j \in DOMAIN W, PairAt(W, i)[1] = PairAt(W, j)[1]
        PROVE  PairAt(W, i) = PairAt(W, j)
    BY <1>1, OneIndex DEF PairAt
  <1> QED
    BY <1>1 DEF OnePerKey, PairsOf

LEMMA ReplaceInStep ==
    ASSUME Distinct, NEW t, Handlers = {t}, NEW u, Users = {u}, TypeInv, HandlesLast(t),
           InStep(t, u), Replace(t), Smooth(t)
    PROVE  InStep(t, u)'
  <1> DEFINE W == job[t].chunks
  <1> DEFINE live == LivePairs(chunk_snapshot)
  <1> DEFINE batch == {i \in DOMAIN W : PairAt(W, i) \notin live}
  <1> DEFINE gone == {id \in Live(chunk_snapshot) :
                         <<KeyOf(id), chunk_snapshot[id].hash>> \notin PairsOf(W)}
  <1>1. /\ t \in Handlers /\ pc[t] = "replace" /\ W \in Chunkings
        /\ chunk_snapshot \in [Ids -> Row \cup {None}]
    BY StepBase DEF Step, Replace, TypeInv, TypeOK
  <1>2. /\ RowsNamed(chunk_snapshot) /\ OnePerKey(live)
        /\ \A p \in live : p[1] \in KeysOf(W)
        /\ Contents(u) \subseteq live
        /\ "delete" \notin Operations => live \subseteq Contents(u)
        /\ work[t].to_process = batch /\ work[t].to_delete = gone
    BY <1>1 DEF InStep, RowsInStep, GraphInStep, GraphComplete
  <1>3. /\ nodes' = nodes /\ work' = work /\ pc'[t] = "cache"
        /\ chunk_snapshot' = Replaced(chunk_snapshot, work[t].to_delete, W,
                                      work[t].to_process)
    BY <1>1, ReplaceEffect
  <1>4. job' = job
    BY <1>3, StepBase DEF Step
  <1>5. LivePairs(chunk_snapshot') = PairsOf(W) /\ RowsNamed(chunk_snapshot')
    BY <1>1, <1>2, <1>3, ReplacedExact
  <1>6. OnePerKey(PairsOf(W))
    BY <1>1, PairsOnePerKey
  <1>7. Contents(u)' = Contents(u)
    BY <1>3, SameContents
  <1>8. ASSUME NEW p \in Contents(u)
        PROVE  p \in PairsOf(W) \/ \E i \in batch : W[i].key = p[1]
    <2>1. PICK j \in DOMAIN W : W[j].key = p[1]
      BY <1>2 DEF KeysOf
    <2>2. CASE j \in batch
      BY <2>1, <2>2
    <2>3. CASE PairAt(W, j) \in live
      <3>1. p \in live /\ PairAt(W, j)[1] = p[1]
        BY <1>2, <2>1 DEF PairAt
      <3>2. p = PairAt(W, j)
        BY <1>2, <2>3, <3>1 DEF OnePerKey
      <3> QED
        BY <3>2 DEF PairsOf
    <2> QED
      BY <2>2, <2>3
  <1>9. "delete" \notin Operations => \A i \in DOMAIN W \ batch : PairAt(W, i) \in Contents(u)
    BY <1>2
  <1> HIDE DEF batch, gone, live
  <1>10. RowsInStep(t)'
    BY <1>3, <1>4, <1>5, <1>6 DEF RowsInStep
  <1>11. GraphInStep(t, u)'
    BY <1>2, <1>3, <1>4, <1>5, <1>7, <1>8 DEF GraphInStep
  <1>12. "delete" \notin Operations => GraphComplete(t, u)'
    BY <1>2, <1>3, <1>4, <1>7, <1>9 DEF GraphComplete
  <1> QED
    BY <1>10, <1>11, <1>12 DEF InStep

LEMMA CacheChunksInStep ==
    ASSUME Distinct, NEW t, Handlers = {t}, NEW u, Users = {u}, TypeInv, HandlesLast(t),
           InStep(t, u), CacheChunks(t)
    PROVE  InStep(t, u)'
  <1> DEFINE W == job[t].chunks
  <1> DEFINE batch == work[t].to_process
  <1>1. /\ t \in Handlers /\ pc[t] = "cache" /\ W \in Chunkings /\ batch \subseteq DOMAIN W
    BY StepBase DEF Step, CacheChunks
  <1>2. /\ RowsNamed(chunk_snapshot) /\ OnePerKey(LivePairs(chunk_snapshot))
        /\ LivePairs(chunk_snapshot) = PairsOf(W)
        /\ \A p \in Contents(u) : p \in PairsOf(W) \/ \E i \in batch : W[i].key = p[1]
        /\ "delete" \notin Operations =>
              \A i \in DOMAIN W \ batch : PairAt(W, i) \in Contents(u)
    BY <1>1 DEF InStep, RowsInStep, GraphInStep, GraphComplete
  <1>3. /\ chunk_snapshot' = chunk_snapshot /\ nodes' = nodes
        /\ work'[t].to_process = batch /\ work'[t].left = batch
        /\ work'[t].links = ChainLinks(W, batch)
        /\ pc'[t] = IF batch = {} THEN "metadata" ELSE "store"
    BY <1>1, CacheChunksEffect
  <1>4. job' = job
    BY <1>3, StepBase DEF Step
  <1>5. Contents(u)' = Contents(u)
    BY <1>3, SameContents
  <1>6. \A link \in ChainLinks(W, batch) : \E i, j \in batch : link = <<W[i].key, W[j].key>>
    BY DEF ChainLinks
  <1>7. batch = {} => Contents(u) \subseteq PairsOf(W)
    BY <1>2
  <1>8. "delete" \notin Operations /\ batch = {} => PairsOf(W) \subseteq Contents(u)
    BY <1>2 DEF PairsOf
  <1> DEFINE links == ChainLinks(W, batch)
  <1>9. RowsInStep(t)'
    <2> HIDE DEF links
    <2> QED
      BY <1>2, <1>3, <1>4, <1>6 DEF RowsInStep, links
  <1>10. GraphInStep(t, u)'
    BY <1>2, <1>3, <1>4, <1>5, <1>7 DEF GraphInStep
  <1>11. "delete" \notin Operations => GraphComplete(t, u)'
    BY <1>2, <1>3, <1>4, <1>5, <1>8 DEF GraphComplete
  <1> QED
    BY <1>9, <1>10, <1>11 DEF InStep

LEMMA StoreNodeInStep ==
    ASSUME Distinct, NEW t, Handlers = {t}, NEW u, Users = {u}, TypeInv, HandlesLast(t),
           InStep(t, u), StoreNode(t), Smooth(t)
    PROVE  InStep(t, u)'
  <1> DEFINE W == job[t].chunks
  <1> DEFINE batch == work[t].to_process
  <1> DEFINE left == work[t].left
  <1>1. /\ t \in Handlers /\ pc[t] = "store" /\ W \in Chunkings /\ batch \subseteq DOMAIN W
    BY StepBase DEF Step, StoreNode
  <1>2. /\ RowsNamed(chunk_snapshot) /\ OnePerKey(LivePairs(chunk_snapshot))
        /\ LivePairs(chunk_snapshot) = PairsOf(W)
        /\ left \subseteq batch
        /\ \A link \in work[t].links : \E i, j \in batch : link = <<W[i].key, W[j].key>>
        /\ \A p \in Contents(u) : p \in PairsOf(W) \/ \E i \in left : W[i].key = p[1]
        /\ \A i \in batch \ left : PairAt(W, i) \in Contents(u)
        /\ "delete" \notin Operations =>
              \A i \in DOMAIN W \ left : PairAt(W, i) \in Contents(u)
    BY <1>1 DEF InStep, RowsInStep, GraphInStep, GraphComplete
  <1>3. /\ chunk_snapshot' = chunk_snapshot
        /\ work'[t].to_process = batch /\ work'[t].links = work[t].links
    BY <1>1, StoreNodeEffect
  <1>4. PICK i \in left :
           /\ nodes'[u] = MergeNode(nodes[u], W[i])
           /\ work'[t].left = IF left = {i} THEN ToPublish(t) ELSE left \ {i}
           /\ pc'[t] = IF left = {i} THEN AfterStore(t) ELSE "store"
    BY <1>1, StoreNodeEffect
  <1>5. /\ pc'[t] \in {"store", "relate", "publish", "metadata"}
        /\ pc'[t] = "store" <=> left # {i}
    BY <1>4 DEF AfterStore
  <1>6. job' = job
    BY <1>5, StepBase DEF Step
  <1>7. i \in DOMAIN W /\ W[i] \in Chunk
    BY <1>1, <1>2, ChunkingFields, ConstantsAssumption DEF Chunkings
  <1>8. \A p : p \in Contents(u)' <=>
           p = PairAt(W, i) \/ (p \in Contents(u) /\ p[1] # W[i].key)
    BY <1>1, <1>4, <1>7, OnlyUser, ContentsStored DEF PairAt
  <1>9. PairAt(W, i) \in PairsOf(W)
    BY <1>7 DEF PairsOf
  <1>10. \A p \in Contents(u)' : p \in PairsOf(W) \/ \E j \in left \ {i} : W[j].key = p[1]
    BY <1>2, <1>8, <1>9
  <1>11. ASSUME NEW j \in DOMAIN W, j = i \/ PairAt(W, j) \in Contents(u)
         PROVE  PairAt(W, j) \in Contents(u)'
    <2>1. CASE j = i
      BY <1>8, <2>1
    <2>2. CASE j # i
      <3>1. PairAt(W, j)[1] # W[i].key
        BY <1>1, <1>7, <2>2, OneIndex DEF PairAt
      <3> QED
        BY <1>8, <1>11, <2>2, <3>1
    <2> QED
      BY <2>1, <2>2
  <1>12. \A j \in batch \ (left \ {i}) : PairAt(W, j) \in Contents(u)'
    BY <1>1, <1>2, <1>11
  <1>13. "delete" \notin Operations =>
            \A j \in DOMAIN W \ (left \ {i}) : PairAt(W, j) \in Contents(u)'
    BY <1>2, <1>11
  <1>14. left = {i} => /\ Contents(u)' \subseteq PairsOf(W)
                       /\ \A j \in batch : PairAt(W, j) \in Contents(u)'
                       /\ "delete" \notin Operations => PairsOf(W) \subseteq Contents(u)'
    BY <1>10, <1>12, <1>13 DEF PairsOf
  <1>15. left # {i} => work'[t].left = left \ {i}
    BY <1>4
  <1>16. RowsInStep(t)'
    BY <1>2, <1>3, <1>5, <1>6, <1>15 DEF RowsInStep
  <1>17. GraphInStep(t, u)'
    BY <1>2, <1>3, <1>5, <1>6, <1>10, <1>12, <1>14, <1>15 DEF GraphInStep
  <1>18. "delete" \notin Operations => GraphComplete(t, u)'
    BY <1>2, <1>3, <1>5, <1>6, <1>13, <1>14, <1>15 DEF GraphComplete
  <1> QED
    BY <1>16, <1>17, <1>18 DEF InStep

LEMMA StoreLinkInStep ==
    ASSUME Distinct, NEW t, Handlers = {t}, NEW u, Users = {u}, TypeInv, HandlesLast(t),
           InStep(t, u), StoreLink(t), Smooth(t)
    PROVE  InStep(t, u)' /\ \A k \in Keys : nodes'[u][k] = nodes[u][k]
  <1> DEFINE W == job[t].chunks
  <1> DEFINE batch == work[t].to_process
  <1>1. /\ t \in Handlers /\ pc[t] = "relate" /\ W \in Chunkings /\ batch \subseteq DOMAIN W
    BY StepBase DEF Step, StoreLink
  <1>2. /\ RowsNamed(chunk_snapshot) /\ OnePerKey(LivePairs(chunk_snapshot))
        /\ LivePairs(chunk_snapshot) = PairsOf(W)
        /\ \A link \in work[t].links : \E i, j \in batch : link = <<W[i].key, W[j].key>>
        /\ Contents(u) \subseteq PairsOf(W)
        /\ \A i \in batch : PairAt(W, i) \in Contents(u)
        /\ "delete" \notin Operations => PairsOf(W) \subseteq Contents(u)
    BY <1>1 DEF InStep, RowsInStep, GraphInStep, GraphComplete
  <1>3. chunk_snapshot' = chunk_snapshot /\ work'[t].to_process = batch
    BY <1>1, StoreLinkEffect
  <1>4. PICK link \in work[t].links :
           /\ nodes'[u] = MergeEnds(nodes[u], link)
           /\ work'[t].links = work[t].links \ {link}
           /\ pc'[t] \in {"relate", "publish", "metadata"}
    BY <1>1, StoreLinkEffect
  <1>5. job' = job
    BY <1>4, StepBase DEF Step
  <1>6. PICK i \in batch : \E j \in batch : link = <<W[i].key, W[j].key>>
    BY <1>2, <1>4
  <1>7. PICK j \in batch : link = <<W[i].key, W[j].key>>
    BY <1>6
  <1>8. ASSUME NEW m \in batch PROVE nodes[u][W[m].key] # None
    <2>1. PICK k \in Keys : nodes[u][k] # None /\ PairAt(W, m) = <<k, nodes[u][k].content>>
      BY <1>2, InContents
    <2> QED
      BY <2>1 DEF PairAt
  <1>9. (\A k \in Keys : nodes'[u][k] = nodes[u][k]) /\ Contents(u)' = Contents(u)
    <2>1. nodes[u][link[1]] # None /\ nodes[u][link[2]] # None
      BY <1>7, <1>8
    <2> QED
      BY <1>4, <2>1, ContentsLinked
  <1>10. RowsInStep(t)'
    BY <1>2, <1>3, <1>4, <1>5 DEF RowsInStep
  <1>11. GraphInStep(t, u)'
    BY <1>2, <1>3, <1>4, <1>5, <1>9 DEF GraphInStep
  <1>12. "delete" \notin Operations => GraphComplete(t, u)'
    BY <1>2, <1>3, <1>4, <1>5, <1>9 DEF GraphComplete
  <1> QED
    BY <1>9, <1>10, <1>11, <1>12 DEF InStep

LEMMA PublishInStep ==
    ASSUME NEW t, Handlers = {t}, NEW u, Users = {u}, TypeInv, HandlesLast(t),
           InStep(t, u), Publish(t) \/ StoreMetadata(t), Smooth(t)
    PROVE  InStep(t, u)'
  <1> DEFINE W == job[t].chunks
  <1>1. /\ t \in Handlers /\ pc[t] \in {"publish", "metadata"}
        /\ chunk_snapshot' = chunk_snapshot /\ nodes' = nodes
        /\ pc'[t] \in {"publish", "metadata", "idle"}
    BY LastStepsEffect DEF Publish, StoreMetadata
  <1>2. /\ Last' = Last /\ Last = job[t] /\ Last.op # "delete"
        /\ pc'[t] # "idle" => job' = job
    BY <1>1, StepBase DEF Step, DeletePCs
  <1>3. /\ RowsNamed(chunk_snapshot) /\ OnePerKey(LivePairs(chunk_snapshot))
        /\ LivePairs(chunk_snapshot) = PairsOf(W)
        /\ Contents(u) \subseteq PairsOf(W)
        /\ "delete" \notin Operations => PairsOf(W) \subseteq Contents(u)
    BY <1>1 DEF InStep, RowsInStep, GraphInStep, GraphComplete
  <1>4. Contents(u)' = Contents(u)
    BY <1>1, SameContents
  <1>5. RowsInStep(t)'
    BY <1>1, <1>2, <1>3 DEF RowsInStep
  <1>6. GraphInStep(t, u)'
    BY <1>1, <1>2, <1>3, <1>4 DEF GraphInStep
  <1>7. "delete" \notin Operations => GraphComplete(t, u)'
    BY <1>1, <1>2, <1>3, <1>4 DEF GraphComplete
  <1> QED
    BY <1>5, <1>6, <1>7 DEF InStep

LEMMA DeleteNodesInStep ==
    ASSUME NEW t, Handlers = {t}, NEW u, Users = {u}, TypeInv, HandlesLast(t),
           InStep(t, u), DeleteNodes(t), Smooth(t)
    PROVE  InStep(t, u)'
  <1>1. /\ t \in Handlers /\ pc[t] = "delete_nodes"
        /\ chunk_snapshot' = chunk_snapshot /\ pc'[t] = "delete_metadata"
        /\ \A k \in Keys :
              nodes'[u][k] = IF k \in FileNodes(nodes[u]) THEN None ELSE nodes[u][k]
    BY LastStepsEffect DEF DeleteNodes
  <1>2. job[t].op = "delete" /\ "delete" \in Operations
    BY <1>1, StepBase DEF Step, DeletePCs
  <1>3. /\ RowsNamed(chunk_snapshot) /\ OnePerKey(LivePairs(chunk_snapshot))
        /\ Contents(u) \subseteq LivePairs(chunk_snapshot)
    BY <1>1 DEF InStep, RowsInStep, GraphInStep
  <1>4. \A p \in LivePairs(chunk_snapshot) : p[2] # None
    <2>1. chunk_snapshot \in [Ids -> Row \cup {None}] /\ None \notin Hashes
      BY ConstantsAssumption DEF TypeInv, TypeOK
    <2> QED
      BY <2>1 DEF LivePairs, Live, Recorded, Row
  <1>5. ASSUME NEW p, p \in Contents(u)'
        PROVE  FALSE
    <2>1. p \in Contents(u) /\ p[1] \notin FileNodes(nodes[u])
      BY <1>1, <1>5, ContentsDeleted
    <2>2. PICK k \in Keys : nodes[u][k] # None /\ p = <<k, nodes[u][k].content>>
      BY <2>1, InContents
    <2>3. nodes[u][k].content # None
      BY <1>3, <1>4, <2>1, <2>2
    <2> QED
      BY <2>1, <2>2, <2>3 DEF FileNodes
  <1>6. Contents(u)' = {}
    BY <1>5
  <1>7. RowsInStep(t)'
    BY <1>1, <1>3 DEF RowsInStep
  <1>8. GraphInStep(t, u)'
    BY <1>1, <1>6 DEF GraphInStep
  <1> QED
    BY <1>2, <1>7, <1>8 DEF InStep

LEMMA DeleteMetadataInStep ==
    ASSUME NEW t, Handlers = {t}, NEW u, Users = {u}, TypeInv, HandlesLast(t),
           InStep(t, u), DeleteMetadata(t), Smooth(t)
    PROVE  InStep(t, u)'
  <1>1. /\ t \in Handlers /\ pc[t] = "delete_metadata" /\ pc'[t] = "idle"
        /\ chunk_snapshot' = chunk_snapshot /\ nodes' = nodes
    BY LastStepsEffect DEF DeleteMetadata
  <1>2. Last' = Last /\ Last.op = "delete" /\ "delete" \in Operations
    BY <1>1, StepBase DEF Step, DeletePCs
  <1>3. /\ RowsNamed(chunk_snapshot) /\ OnePerKey(LivePairs(chunk_snapshot))
        /\ Contents(u) = {}
    BY <1>1 DEF InStep, RowsInStep, GraphInStep
  <1>4. Contents(u)' = Contents(u)
    BY <1>1, SameContents
  <1>5. RowsInStep(t)'
    BY <1>1, <1>2, <1>3 DEF RowsInStep
  <1>6. GraphInStep(t, u)'
    BY <1>1, <1>3, <1>4 DEF GraphInStep
  <1> QED
    BY <1>2, <1>5, <1>6 DEF InStep

LEMMA DeliverInStep ==
    ASSUME NEW t, Handlers = {t}, NEW u, Users = {u}, TypeInv, InStep(t, u),
           NEW e \in Job, Deliver(t, e)
    PROVE  InStep(t, u)'
  <1>1. /\ t \in Handlers /\ pc[t] = "idle"
        /\ chunk_snapshot' = chunk_snapshot /\ nodes' = nodes
    BY DEF Deliver, pgVars, graphVars
  <1>2. pc'[t] \in {"first_diff", "delete_nodes"}
    BY <1>1, DeliverLast
  <1>3. /\ RowsNamed(chunk_snapshot) /\ OnePerKey(LivePairs(chunk_snapshot))
        /\ Contents(u) \subseteq LivePairs(chunk_snapshot)
        /\ "delete" \notin Operations => LivePairs(chunk_snapshot) \subseteq Contents(u)
    BY <1>1 DEF InStep, RowsInStep, GraphInStep, GraphComplete
  <1>4. Contents(u)' = Contents(u)
    BY <1>1, SameContents
  <1>5. RowsInStep(t)'
    BY <1>1, <1>2, <1>3 DEF RowsInStep
  <1>6. GraphInStep(t, u)'
    BY <1>1, <1>2, <1>3, <1>4 DEF GraphInStep
  <1>7. "delete" \notin Operations => GraphComplete(t, u)'
    BY <1>1, <1>2, <1>3, <1>4 DEF GraphComplete
  <1> QED
    BY <1>5, <1>6, <1>7 DEF InStep

LEMMA StepInStep ==
    ASSUME Distinct, NEW t, Handlers = {t}, NEW u, Users = {u}, TypeInv, HandlesLast(t),
           InStep(t, u), Step(t), Smooth(t)
    PROVE  InStep(t, u)'
  BY FirstDiffInStep, MarkDeletedInStep, DeleteOrphansInStep, SecondDiffInStep,
     ReplaceInStep, CacheChunksInStep, StoreNodeInStep, StoreLinkInStep, PublishInStep,
     DeleteNodesInStep, DeleteMetadataInStep
     DEF Step

LEMMA NextFlowInv ==
    ASSUME Distinct, NEW t, Handlers = {t}, NEW u, Users = {u}, FlowInv(t, u), [Next]_vars
    PROVE  FlowInv(t, u)'
  <1>1. TypeInv /\ HandlesLast(t) /\ t \in Handlers
    BY DEF FlowInv
  <1>2. TypeInv' /\ HandlesLast(t)'
    BY <1>1, NextTypeInv, NextHandlesLast
  <1>3. ASSUME failures' = 0, crashes' = 0 PROVE InStep(t, u)'
    <2>1. Smooth(t)
      BY <1>1, <1>3, NotTroubled
    <2>2. CASE Step(t)
      <3>1. failures = 0 /\ crashes = 0
        BY <1>1, <1>3, <2>1, <2>2, SmoothSucceeds DEF Succeeds, faultVars
      <3> QED
        BY <1>1, <2>1, <2>2, <3>1, StepInStep DEF FlowInv
    <2>3. ASSUME NEW e \in Job, Deliver(t, e)
          PROVE  InStep(t, u)'
      <3>1. failures = 0 /\ crashes = 0
        BY <1>3, <2>3 DEF Deliver
      <3> QED
        BY <1>1, <2>3, <3>1, DeliverInStep DEF FlowInv
    <2>4. CASE Crash
      <3>1. crashes \in Nat /\ crashes' = crashes + 1
        BY <1>1, <2>4 DEF Crash, TypeInv, TypeOK
      <3> QED
        BY <1>3, <3>1
    <2>5. CASE UNCHANGED vars \/ CrowdOut
      <3>1. failures = 0 /\ crashes = 0
        BY <1>3, <2>5 DEF vars, CrowdOut, faultVars
      <3>2. /\ UNCHANGED <<chunk_snapshot, nodes, pc, job, work, delivered>>
            /\ Contents(u)' = Contents(u)
        BY <2>5, SameContents DEF vars, CrowdOut, pgVars, graphVars, taskVars
      <3>3. InStep(t, u)
        BY <3>1 DEF FlowInv
      <3>4. RowsInStep(t)'
        BY <3>2, <3>3 DEF InStep, RowsInStep, Last
      <3>5. GraphInStep(t, u)'
        BY <3>2, <3>3 DEF InStep, GraphInStep, Last
      <3>6. "delete" \notin Operations => GraphComplete(t, u)'
        BY <3>2, <3>3 DEF InStep, GraphComplete
      <3> QED
        BY <3>4, <3>5, <3>6 DEF InStep
    <2> QED
      BY <1>1, <2>2, <2>3, <2>4, <2>5 DEF Next
  <1>4. ASSUME delivered' = <<>> PROVE LivePairs(chunk_snapshot)' = {}
    <2>1. delivered # <<>> => delivered' # <<>>
      BY <1>1, StepBase, DeliverLast DEF Next, Crash, CrowdOut, vars
    <2>2. ~Step(t) /\ ~ \E e \in Job : Deliver(t, e)
      BY <1>1, <1>4, StepBase, DeliverLast
    <2> QED
      BY <1>1, <1>4, <2>1, <2>2 DEF FlowInv, Next, Crash, CrowdOut, vars, pgVars
  <1> QED
    BY <1>2, <1>3, <1>4 DEF FlowInv

LEMMA InitFlowInv ==
    ASSUME NEW t, Handlers = {t}, NEW u, Users = {u}
    PROVE  Init => FlowInv(t, u)
  <1> SUFFICES ASSUME Init PROVE FlowInv(t, u)
    OBVIOUS
  <1>1. Recorded(chunk_snapshot) = {} /\ Contents(u) = {}
    BY DEF Init, Recorded, Contents, NodeKeys
  <1>2. Live(chunk_snapshot) = {} /\ LivePairs(chunk_snapshot) = {}
    BY <1>1 DEF Live, LivePairs
  <1>3. pc[t] = "idle" /\ delivered = <<>>
    BY DEF Init
  <1>4. TypeInv /\ HandlesLast(t)
    BY <1>3, InitTypeInv DEF HandlesLast
  <1>5. RowsInStep(t)
    BY <1>1, <1>2, <1>3 DEF RowsInStep, RowsNamed, OnePerKey
  <1>6. GraphInStep(t, u) /\ GraphComplete(t, u)
    BY <1>1, <1>2, <1>3 DEF GraphInStep, GraphComplete
  <1> QED
    BY <1>2, <1>4, <1>5, <1>6 DEF FlowInv, InStep
-----------------------------------------------------------------------------
(* What the task leaves behind when it ends.                               *)

LEMMA WantedPairs ==
    ASSUME NEW u
    PROVE  Wanted(u) = PairsOf(Requested(u))
  BY DEF Wanted, PairsOf, PairAt

(* With one task and one user, and before any failure or crash, the graph  *)
(* of a task that has ended holds only chunks of the version last asked    *)
(* for, deletions in between included.  Distinct is needed: two keys that  *)
(* exchange their contents are unchanged to the second diff.               *)
THEOREM SpecNothingStale ==
    ASSUME Distinct, NEW t, Handlers = {t}, NEW u, Users = {u}
    PROVE  Spec => []NothingStale
  <1>1. Init => FlowInv(t, u)
    BY InitFlowInv
  <1>2. FlowInv(t, u) /\ [Next]_vars => FlowInv(t, u)'
    BY NextFlowInv
  <1>3. FlowInv(t, u) => NothingStale
    <2> SUFFICES ASSUME FlowInv(t, u), pc[t] = "idle", failures = 0, crashes = 0
                 PROVE  Contents(u) \subseteq Wanted(u)
      BY DEF NothingStale, Quiescent
    <2>1. TypeInv /\ GraphInStep(t, u) /\ RowsInStep(t)
      BY DEF FlowInv, InStep
    <2>2. CASE delivered = <<>>
      BY <2>1, <2>2 DEF GraphInStep, FlowInv
    <2>3. CASE delivered # <<>>
      <3>1. Last \in Job /\ Requested(u) = Last.chunks
        BY <2>1, <2>3, RequestedLast
      <3>2. CASE Last.op = "process"
        BY <2>1, <2>3, <3>1, <3>2, WantedPairs DEF GraphInStep, RowsInStep
      <3>3. CASE Last.op = "delete"
        BY <2>1, <2>3, <3>3 DEF GraphInStep
      <3> QED
        BY <3>1, <3>2, <3>3 DEF Job
    <2> QED
      BY <2>2, <2>3
  <1> QED
    BY <1>1, <1>2, <1>3, PTL DEF Spec

(* Where nothing is deleted, fails or crashes, every state is in step. *)
QuietInv(t, u) ==
    /\ FlowInv(t, u)
    /\ failures = 0 /\ crashes = 0
    /\ delivered # <<>> => Last.op \in Operations

Quiet == "delete" \notin Operations /\ Faults = {} /\ MaxCrashes = 0

LEMMA QuietSteps ==
    ASSUME Quiet, NEW t, Handlers = {t}, NEW u, Users = {u}, QuietInv(t, u), [Next]_vars
    PROVE  Smooth(t) /\ ~Crash /\ failures' = 0 /\ crashes' = 0
  <1>1. Smooth(t)
    BY DEF Quiet, Smooth, Fails
  <1>2. ~Crash
    BY DEF Quiet, Crash, QuietInv
  <1>3. Step(t) => failures' = 0 /\ crashes' = 0
    BY <1>1, SmoothSucceeds DEF QuietInv, Succeeds, faultVars
  <1>4. \A e \in Job : Deliver(t, e) => failures' = 0 /\ crashes' = 0
    BY DEF QuietInv, Deliver
  <1>5. UNCHANGED vars \/ CrowdOut => failures' = 0 /\ crashes' = 0
    BY DEF QuietInv, vars, CrowdOut, faultVars
  <1> QED
    BY <1>1, <1>2, <1>3, <1>4, <1>5 DEF Next

LEMMA NextQuietInv ==
    ASSUME Distinct, Quiet, NEW t, Handlers = {t}, NEW u, Users = {u}
    PROVE  /\ Init => QuietInv(t, u)
           /\ QuietInv(t, u) /\ [Next]_vars => QuietInv(t, u)'
  <1>1. Init => QuietInv(t, u)
    BY InitFlowInv DEF Init, QuietInv
  <1>2. ASSUME QuietInv(t, u), [Next]_vars PROVE QuietInv(t, u)'
    <2>1. /\ FlowInv(t, u) /\ FlowInv(t, u)' /\ TypeInv /\ HandlesLast(t) /\ t \in Handlers
          /\ failures' = 0 /\ crashes' = 0 /\ ~Crash
      BY <1>2, QuietSteps, NextFlowInv DEF QuietInv, FlowInv
    <2>2. delivered' # <<>> => Last'.op \in Operations
      <3>1. ASSUME NEW e \in Job, Deliver(t, e) PROVE Last'.op \in Operations
        BY <2>1, <3>1, DeliverLast
      <3>2. ASSUME delivered' = delivered PROVE delivered' # <<>> => Last'.op \in Operations
        BY <1>2, <3>2 DEF QuietInv, Last
      <3>3. Step(t) \/ CrowdOut \/ UNCHANGED vars => delivered' = delivered
        BY <2>1, StepBase DEF CrowdOut, vars
      <3> QED
        BY <1>2, <2>1, <3>1, <3>2, <3>3 DEF Next
    <2> QED
      BY <2>1, <2>2 DEF QuietInv
  <1> QED
    BY <1>1, <1>2

(* What the graph then holds, and the rows, at the end of every task. *)
LEMMA QuietEnd ==
    ASSUME Quiet, NEW t, Handlers = {t}, NEW u, Users = {u}, QuietInv(t, u)
    PROVE  /\ pc[t] = "idle" => LivePairs(chunk_snapshot) = Wanted(u)
           /\ pc[t] = "metadata" => Contents(u) = Wanted(u)
           /\ pc[t] # "idle" => Requested(u) = job[t].chunks
  <1>1. TypeInv /\ HandlesLast(t) /\ InStep(t, u)
    BY DEF QuietInv, FlowInv
  <1>2. delivered # <<>> => Last \in Job /\ Requested(u) = Last.chunks
    BY <1>1, RequestedLast
  <1>3. CASE pc[t] = "idle"
    <2>1. CASE delivered = <<>>
      <3>1. Requested(u) = <<>> /\ LivePairs(chunk_snapshot) = {}
        BY <1>1, <2>1, RequestedLast DEF QuietInv, FlowInv
      <3> QED
        BY <1>3, <3>1, WantedPairs, NoChunks
    <2>2. CASE delivered # <<>>
      <3>1. Last.op = "process"
        BY <1>2, <2>2 DEF QuietInv, Quiet, Job
      <3> QED
        BY <1>1, <1>2, <1>3, <2>2, <3>1, WantedPairs DEF InStep, RowsInStep
    <2> QED
      BY <2>1, <2>2
  <1>4. CASE pc[t] # "idle"
    <2>1. Requested(u) = job[t].chunks
      BY <1>1, <1>2, <1>4 DEF HandlesLast
    <2>2. ASSUME pc[t] = "metadata" PROVE Contents(u) = PairsOf(job[t].chunks)
      <3>1. LivePairs(chunk_snapshot) = PairsOf(job[t].chunks)
        BY <1>1, <2>2 DEF InStep, RowsInStep
      <3>2. Contents(u) \subseteq LivePairs(chunk_snapshot)
        BY <1>1, <2>2 DEF InStep, GraphInStep
      <3>3. PairsOf(job[t].chunks) \subseteq Contents(u)
        BY <1>1, <2>2 DEF InStep, GraphComplete, Quiet
      <3> QED
        BY <3>1, <3>2, <3>3
    <2> QED
      BY <1>4, <2>1, <2>2, WantedPairs
  <1> QED
    BY <1>3, <1>4

(* Where no delivery asks for a deletion and no call fails or crash comes, *)
(* the live rows are, whenever the task has ended, exactly the chunks of   *)
(* the version last asked for: the next second diff starts from the truth. *)
THEOREM SpecSnapshotMatchesRequest ==
    ASSUME Distinct, Quiet, NEW t, Handlers = {t}, NEW u, Users = {u}
    PROVE  Spec => []SnapshotMatchesRequest
  <1>1. Init => QuietInv(t, u)
    BY NextQuietInv
  <1>2. QuietInv(t, u) /\ [Next]_vars => QuietInv(t, u)'
    BY NextQuietInv
  <1>3. QuietInv(t, u) => SnapshotMatchesRequest
    BY QuietEnd DEF SnapshotMatchesRequest, Quiescent, LivePairs
  <1> QED
    BY <1>1, <1>2, <1>3, PTL DEF Spec
-----------------------------------------------------------------------------
(* The implementation of FileIndex.                                        *)

(* The index of a version holds its chunks' hashes and nothing else. *)
LEMMA AsIndexOf ==
    ASSUME Distinct, NEW W \in Chunkings
    PROVE  /\ AsIndex(W) \in FI!Index
           /\ \A k \in Keys, h \in Hashes : AsIndex(W)[k] = h <=> <<k, h>> \in PairsOf(W)
           /\ \A k \in Keys : k \notin KeysOf(W) <=> AsIndex(W)[k] = None
  <1>1. None \notin Hashes
    BY ConstantsAssumption
  <1>2. ASSUME NEW k \in Keys, k \notin KeysOf(W)
        PROVE  AsIndex(W)[k] = None
    <2>1. WithKey(W, DOMAIN W, k) = {}
      BY <1>2 DEF KeysOf, WithKey
    <2> QED
      BY <2>1 DEF AsIndex
  <1>3. ASSUME NEW i \in DOMAIN W
        PROVE  AsIndex(W)[W[i].key] = W[i].hash /\ W[i].hash \in Hashes
    <2> DEFINE same == WithKey(W, DOMAIN W, W[i].key)
    <2>1. same \in SUBSET DOMAIN W /\ i \in same
      BY DEF WithKey
    <2>2. LastOf(same) \in same
      BY <2>1, ChunkingFields
    <2>3. LastOf(same) = i
      BY <2>2, OneIndex DEF WithKey
    <2>4. AsIndex(W)[W[i].key] = IF same = {} THEN None ELSE W[LastOf(same)].hash
      BY ChunkingFields DEF AsIndex
    <2> HIDE DEF same
    <2> QED
      BY <2>1, <2>3, <2>4, ChunkingFields
  <1>4. ASSUME NEW k \in Keys, k \in KeysOf(W)
        PROVE  \E i \in DOMAIN W : k = W[i].key /\ AsIndex(W)[k] = W[i].hash
    BY <1>3, <1>4 DEF KeysOf
  <1>5. \A k \in Keys : AsIndex(W)[k] \in Hashes \cup {None}
    BY <1>2, <1>3, <1>4
  <1>6. AsIndex(W) \in FI!Index
    <2>1. AsIndex(W) = [k \in Keys |-> AsIndex(W)[k]]
      BY DEF AsIndex
    <2> QED
      BY <1>5, <2>1 DEF FI!Index
  <1>7. ASSUME NEW k \in Keys, NEW h \in Hashes, AsIndex(W)[k] = h
        PROVE  <<k, h>> \in PairsOf(W)
    BY <1>1, <1>2, <1>4, <1>7 DEF PairsOf, PairAt
  <1>8. ASSUME NEW k \in Keys, NEW h \in Hashes, <<k, h>> \in PairsOf(W)
        PROVE  AsIndex(W)[k] = h
    BY <1>3, <1>8 DEF PairsOf, PairAt
  <1>9. \A k \in Keys : k \notin KeysOf(W) <=> AsIndex(W)[k] = None
    BY <1>1, <1>2, <1>3, <1>4
  <1> QED
    BY <1>6, <1>7, <1>8, <1>9

LEMMA ServedTyped ==
    ASSUME TypeInv, NEW u, Users = {u}
    PROVE  /\ Served \in FI!Index
           /\ \A k \in Keys, h \in Hashes : Served[k] = h <=> <<k, h>> \in Contents(u)
  <1>1. Owner = u
    BY DEF Owner
  <1>2. nodes[u] \in [Keys -> Node \cup {None}] /\ None \notin Hashes
    BY ConstantsAssumption DEF TypeInv, TypeOK
  <1>3. \A k \in Keys : Served[k] = IF nodes[u][k] = None THEN None ELSE nodes[u][k].content
    BY <1>1 DEF Served
  <1>4. \A k \in Keys : nodes[u][k] # None => nodes[u][k].content \in Hashes \cup {None}
    BY <1>2 DEF Node
  <1>5. Served \in FI!Index
    <2>1. \A k \in Keys : Served[k] \in Hashes \cup {None}
      BY <1>3, <1>4
    <2>2. Served = [k \in Keys |-> Served[k]]
      BY DEF Served
    <2> QED
      BY <2>1, <2>2 DEF FI!Index
  <1>6. ASSUME NEW k \in Keys, NEW h \in Hashes
        PROVE  Served[k] = h <=> <<k, h>> \in Contents(u)
    BY <1>2, <1>3, InContents
  <1> QED
    BY <1>5, <1>6

(* Two indexes that hold the same contents are the same. *)
LEMMA SameIndex ==
    ASSUME NEW f, NEW g, f \in FI!Index, g \in FI!Index,
           \A k \in Keys, h \in Hashes : f[k] = h <=> g[k] = h
    PROVE  f = g
  <1>1. ASSUME NEW k \in Keys PROVE f[k] = g[k]
    BY DEF FI!Index
  <1> QED
    BY <1>1 DEF FI!Index

LEMMA ServedAt ==
    ASSUME NEW u, Users = {u}
    PROVE  /\ Served' = [k \in Keys |-> Served'[k]]
           /\ \A k \in Keys : nodes'[u][k] = nodes[u][k] => Served'[k] = Served[k]
           /\ \A k \in Keys : nodes'[u][k] = None => Served'[k] = None
           /\ \A k \in Keys : nodes'[u][k] # None => Served'[k] = nodes'[u][k].content
  <1>1. Owner = u
    BY DEF Owner
  <1> QED
    BY <1>1 DEF Served

(* No step of the task shows a reader anything but the old content of a    *)
(* key or the one asked for.                                               *)
LEMMA StepMoves ==
    ASSUME Distinct, Quiet, NEW t, Handlers = {t}, NEW u, Users = {u}, QuietInv(t, u),
           Step(t), NEW k \in Keys
    PROVE  Served'[k] \in {Served[k], AsIndex(job[t].chunks)[k]}
  <1> DEFINE W == job[t].chunks
  <1>1. TypeInv /\ HandlesLast(t) /\ InStep(t, u) /\ Smooth(t) /\ t \in Handlers
    BY QuietSteps DEF QuietInv, FlowInv, Next
  <1>2. W \in Chunkings /\ job[t].op # "delete" /\ pc[t] \notin DeletePCs
    BY <1>1, StepBase DEF Quiet
  <1>3. nodes'[u][k] = nodes[u][k] => Served'[k] = Served[k]
    BY ServedAt
  <1>4. CASE DeleteOrphans(t)
    <2>1. pc[t] = "delete_orphans"
      BY <1>4 DEF DeleteOrphans
    <2>2. nodes'[u][k] = IF k \in work[t].orphans THEN None ELSE nodes[u][k]
      BY <1>1, <1>4, DeleteOrphansEffect
    <2>3. k \in work[t].orphans => k \notin KeysOf(W)
      BY <1>1, <2>1 DEF InStep, RowsInStep
    <2> QED
      BY <1>2, <1>3, <2>2, <2>3, ServedAt, AsIndexOf
  <1>5. CASE StoreNode(t)
    <2>1. PICK i \in work[t].left :
             /\ nodes'[u] = MergeNode(nodes[u], W[i])
             /\ work'[t].left = IF work[t].left = {i} THEN ToPublish(t)
                                ELSE work[t].left \ {i}
             /\ pc'[t] = IF work[t].left = {i} THEN AfterStore(t) ELSE "store"
      BY <1>1, <1>5, StoreNodeEffect
    <2>2. pc[t] # "idle"
      BY <1>5 DEF StoreNode
    <2>3. i \in DOMAIN W /\ nodes[u] \in [Keys -> Node \cup {None}]
      BY <1>1, <2>2, Running, OnlyUser
    <2>4. CASE k # W[i].key
      BY <1>3, <2>1, <2>3, <2>4 DEF MergeNode
    <2>5. CASE k = W[i].key
      <3>1. nodes'[u][k] \in Node /\ nodes'[u][k].content = W[i].hash /\ None \notin Node
        <4>1. W[i].key \in Keys /\ W[i].hash \in Hashes /\ None \notin Node
          BY <1>2, <2>3, ChunkingFields, ConstantsAssumption
        <4>2. /\ MergeNode(nodes[u], W[i])[k] \in Node
              /\ MergeNode(nodes[u], W[i])[k].content = W[i].hash
          BY <2>3, <2>5, <4>1 DEF MergeNode, Node
        <4> QED
          BY <2>1, <4>1, <4>2
      <3>2. Served'[k] = W[i].hash
        BY <3>1, ServedAt
      <3>3. <<k, W[i].hash>> \in PairsOf(W) /\ W[i].hash \in Hashes
        BY <1>2, <2>3, <2>5, ChunkingFields DEF PairsOf, PairAt
      <3> QED
        BY <1>2, <3>2, <3>3, AsIndexOf
    <2> QED
      BY <2>4, <2>5
  <1>6. CASE StoreLink(t)
    BY <1>1, <1>3, <1>6, StoreLinkInStep
  <1>7. CASE FirstDiff(t) \/ MarkDeleted(t) \/ SecondDiff(t) \/ Replace(t) \/ CacheChunks(t)
             \/ Publish(t) \/ StoreMetadata(t) \/ DeleteMetadata(t)
    <2>1. nodes' = nodes
      BY <1>7 DEF FirstDiff, MarkDeleted, SecondDiff, Replace, CacheChunks, Publish,
                  StoreMetadata, DeleteMetadata, graphVars
    <2> QED
      BY <1>3, <2>1
  <1>8. ~DeleteNodes(t)
    BY <1>2 DEF DeleteNodes, DeletePCs
  <1> QED
    BY <1>4, <1>5, <1>6, <1>7, <1>8 DEF Step

(* Without deletions a task ends with its metadata. *)
LEMMA EndsInMetadata ==
    ASSUME Quiet, TypeInv, NEW t, Handlers = {t}, HandlesLast(t), Smooth(t), Step(t),
           pc'[t] = "idle"
    PROVE  pc[t] = "metadata" /\ nodes' = nodes
  <1>1. pc \in [Handlers -> PCs] /\ t \in Handlers /\ pc[t] \notin DeletePCs
    BY StepBase DEF TypeInv, TypeOK, Quiet
  <1>2. StoreMetadata(t)
    BY <1>1 DEF Step, FirstDiff, MarkDeleted, DeleteOrphans, SecondDiff, Replace, CacheChunks,
                StoreNode, StoreLink, Publish, DeleteNodes, DeleteMetadata, DeletePCs, Goto,
                AfterFirstDiff, AfterStore
  <1> QED
    BY <1>2 DEF StoreMetadata, graphVars

LEMMA DeliveredRequest ==
    ASSUME TypeInv, TypeInv', NEW t, Handlers = {t}, NEW u, Users = {u},
           NEW e \in Job, Deliver(t, e)
    PROVE  Requested(u)' = e.chunks /\ e.chunks \in Chunkings
  <1>1. delivered' \in Seq(Job) /\ delivered' # <<>> /\ Last' = e
    BY DeliverLast DEF TypeInv, TypeOK
  <1>2. EventsOf(u)' = 1 .. Len(delivered') /\ Len(delivered') \in Nat
    <2>1. \A n \in DOMAIN delivered' : delivered'[n].user = u
      BY <1>1, JobFields
    <2> QED
      BY <1>1, <2>1 DEF EventsOf
  <1>3. Len(delivered') \in EventsOf(u)'
    BY <1>1, <1>2
  <1> DEFINE n == CHOOSE n \in EventsOf(u)' : \A m \in EventsOf(u)' : m <= n
  <1>4. n = Len(delivered')
    <2>1. \E w \in EventsOf(u)' : \A m \in EventsOf(u)' : m <= w
      BY <1>2, <1>3
    <2>2. n \in EventsOf(u)' /\ \A m \in EventsOf(u)' : m <= n
      BY Zenon, <2>1
    <2> HIDE DEF n
    <2> QED
      BY <1>2, <1>3, <2>2
  <1>5. Requested(u)' = delivered'[n].chunks
    BY <1>3, Zenon DEF Requested
  <1> HIDE DEF n
  <1> QED
    BY <1>1, <1>4, <1>5, JobFields DEF Last, Chunkings

(* Every step is a step of FileIndex, or changes nothing that it shows. *)
LEMMA NextImplements ==
    ASSUME Distinct, Quiet, NEW t, Handlers = {t}, NEW u, Users = {u}, QuietInv(t, u),
           TypeInv', [Next]_vars
    PROVE  [FI!Next]_<<AsIndex(Requested(Owner)), Served, ~Quiescent>>
  <1> DEFINE wanted == AsIndex(Requested(u))
  <1>1. Owner = u
    BY DEF Owner
  <1>2. TypeInv /\ HandlesLast(t) /\ InStep(t, u) /\ Smooth(t) /\ ~Crash /\ t \in Handlers
    BY QuietSteps DEF QuietInv, FlowInv
  <1>3. Quiescent <=> pc[t] = "idle"
    BY DEF Quiescent
  <1>4. Quiescent' <=> pc'[t] = "idle"
    BY DEF Quiescent
  <1>5. Served \in FI!Index
    BY <1>2, ServedTyped
  <1>6. ASSUME Step(t)
        PROVE  FI!Apply \/ FI!Done
    <2> DEFINE W == job[t].chunks
    <2>1. pc[t] # "idle" /\ W \in Chunkings /\ delivered' = delivered
      BY <1>2, <1>6, StepBase
    <2>2. Requested(u) = W /\ Requested(u)' = Requested(u)
      <3>1. Requested(u) = W
        BY <2>1, QuietEnd
      <3>2. Requested(u)' = Requested(u)
        BY <2>1 DEF Requested, EventsOf
      <3> QED
        BY <3>1, <3>2
    <2>3. AsIndex(W) \in FI!Index
      BY <2>1, AsIndexOf
    <2>4. \A k \in Keys : Served'[k] \in {Served[k], AsIndex(W)[k]}
      BY <1>6, StepMoves
    <2>5. CASE pc'[t] # "idle"
      <3>1. Served' \in FI!Index
        <4>1. \A k \in Keys : Served'[k] \in Hashes \cup {None}
          BY <1>5, <2>3, <2>4 DEF FI!Index
        <4> QED
          BY <4>1, ServedAt DEF FI!Index
      <3> QED
        BY <1>1, <1>3, <1>4, <2>1, <2>2, <2>4, <2>5, <3>1 DEF FI!Apply
    <2>6. CASE pc'[t] = "idle"
      <3>1. pc[t] = "metadata" /\ nodes' = nodes
        BY <1>2, <1>6, <2>6, EndsInMetadata
      <3>2. Contents(u) = PairsOf(W)
        BY <2>1, <2>2, <3>1, QuietEnd, WantedPairs
      <3>3. Served = AsIndex(W)
        <4>1. \A k \in Keys, h \in Hashes : Served[k] = h <=> AsIndex(W)[k] = h
          <5>1. \A k \in Keys, h \in Hashes : Served[k] = h <=> <<k, h>> \in PairsOf(W)
            BY <1>2, <3>2, ServedTyped
          <5>2. \A k \in Keys, h \in Hashes : AsIndex(W)[k] = h <=> <<k, h>> \in PairsOf(W)
            BY <2>1, AsIndexOf
          <5> QED
            BY <5>1, <5>2
        <4> QED
          BY <1>5, <2>3, <4>1, SameIndex
      <3>4. Served' = Served
        BY <3>1 DEF Served
      <3> QED
        BY <1>1, <1>3, <1>4, <2>1, <2>2, <2>6, <3>3, <3>4 DEF FI!Done
    <2> QED
      BY <2>5, <2>6
  <1>7. ASSUME NEW e \in Job, Deliver(t, e)
        PROVE  FI!Request
    <2>1. /\ pc[t] = "idle" /\ pc'[t] # "idle" /\ nodes' = nodes
      BY <1>2, <1>7, DeliverLast DEF Deliver, graphVars
    <2>2. AsIndex(Requested(u)') \in FI!Index
      BY <1>2, <1>7, DeliveredRequest, AsIndexOf
    <2>3. Served' = Served
      BY <2>1 DEF Served
    <2> QED
      BY <1>1, <1>3, <1>4, <2>1, <2>2, <2>3 DEF FI!Request, AsIndex, WithKey
  <1>8. CASE CrowdOut \/ UNCHANGED vars
    <2>1. delivered' = delivered /\ nodes' = nodes /\ pc' = pc
      BY <1>8 DEF CrowdOut, vars, graphVars, taskVars
    <2> QED
      BY <2>1 DEF Requested, EventsOf, Served, Quiescent
  <1> QED
    BY <1>2, <1>6, <1>7, <1>8 DEF Next, FI!Next

(* With one task, one user, no deletion, failure or crash, the ingest path *)
(* implements FileIndex: a reader of the graph sees, key by key, the old   *)
(* content or the one asked for, and a task ends only when the graph is    *)
(* the version asked for.                                                  *)
THEOREM SpecImplementsFileIndex ==
    ASSUME Distinct, Quiet, NEW t, Handlers = {t}, NEW u, Users = {u}
    PROVE  Spec => ImplementsFileIndex
  <1>1. Init => QuietInv(t, u)
    BY NextQuietInv
  <1>2. QuietInv(t, u) /\ [Next]_vars => QuietInv(t, u)'
    BY NextQuietInv
  <1>3. Init => FI!Init
    <2> SUFFICES ASSUME Init PROVE FI!Init
      OBVIOUS
    <2>1. Owner = u /\ u \in Users
      BY DEF Owner
    <2>2. Requested(u) = <<>> /\ <<>> \in Chunkings
      BY InitTypeInv, RequestedLast DEF Init, Chunkings
    <2>3. \A k \in Keys : AsIndex(<<>>)[k] = None
      BY NoChunks, <2>2, AsIndexOf
    <2>4. AsIndex(<<>>) = [k \in Keys |-> None]
      BY <2>3 DEF AsIndex
    <2>5. Served = [k \in Keys |-> None]
      BY <2>1 DEF Served, Init
    <2> QED
      BY <2>1, <2>2, <2>4, <2>5 DEF FI!Init, Init, Quiescent
  <1>4. QuietInv(t, u) /\ QuietInv(t, u)' /\ [Next]_vars
           => [FI!Next]_<<AsIndex(Requested(Owner)), Served, ~Quiescent>>
    BY NextImplements DEF QuietInv, FlowInv
  <1> QED
    BY <1>1, <1>2, <1>3, <1>4, PTL DEF Spec, ImplementsFileIndex, FI!Spec
-----------------------------------------------------------------------------
(* One task, any users: before a store fails, what is linked and sent is   *)
(* in the graph.                                                           *)

Held(u, k) == nodes[u][k] # None /\ nodes[u][k].content # None

StoredUpTo(t) ==
    LET W == job[t].chunks
        batch == work[t].to_process
    IN  /\ pc[t] = "store" =>
              /\ work[t].left \subseteq batch
              /\ \A i \in batch \ work[t].left : Held(UserGraph(t), W[i].key)
        /\ pc[t] \in {"relate", "publish"} =>
              /\ work[t].left \subseteq batch
              /\ \A i \in batch : Held(UserGraph(t), W[i].key)
        /\ pc[t] \in {"store", "relate"} =>
              \A link \in work[t].links : \E i, j \in batch :
                  link = <<W[i].key, W[j].key>>

StoredInv(t) ==
    /\ TypeInv
    /\ (failures = 0 \/ "store" \notin Faults) => StoredUpTo(t)

(* Storing and linking only add to what is held. *)
LEMMA HeldKept ==
    ASSUME TypeInv, NEW t \in Handlers, Step(t), pc[t] \in {"store", "relate", "publish"},
           NEW u \in Users, NEW k \in Keys, Held(u, k)
    PROVE  Held(u, k)'
  <1>1. /\ nodes \in [Users -> [Keys -> Node \cup {None}]] /\ None \notin Node
        /\ None \notin Hashes
    BY ConstantsAssumption DEF TypeInv, TypeOK
  <1>2. CASE nodes' = nodes
    BY <1>2 DEF Held
  <1>3. CASE StoreNode(t)
    <2>1. PICK i \in work[t].left :
             \/ nodes' = [nodes EXCEPT ![UserGraph(t)] = MergeNode(@, job[t].chunks[i])]
             \/ nodes' = nodes
      BY <1>3 DEF StoreNode
    <2>2. UserGraph(t) \in Users /\ job[t] \in Job /\ i \in DOMAIN job[t].chunks
      BY <2>1, Running
    <2> DEFINE c == job[t].chunks[i]
    <2>3. c.hash \in Hashes
      BY <2>2, JobFields
    <2> HIDE DEF c
    <2> DEFINE new == MergeNode(nodes[UserGraph(t)], c)
    <2>4. k # c.key => new[k] = nodes[UserGraph(t)][k]
      BY <1>1, <2>2 DEF MergeNode
    <2>5. k = c.key => new[k] \in Node /\ new[k].content = c.hash
      BY <1>1, <2>2, <2>3 DEF MergeNode, Node
    <2>6. nodes' = [nodes EXCEPT ![UserGraph(t)] = new] \/ nodes' = nodes
      BY <2>1 DEF c
    <2> HIDE DEF new
    <2>7. nodes'[u][k] = nodes[u][k] \/ (u = UserGraph(t) /\ nodes'[u][k] = new[k])
      BY <1>1, <2>2, <2>6
    <2> QED
      BY <1>1, <2>3, <2>4, <2>5, <2>7 DEF Held
  <1>4. CASE StoreLink(t)
    <2>1. PICK link \in work[t].links :
             \/ nodes' = [nodes EXCEPT ![UserGraph(t)] = MergeEnds(@, link)]
             \/ nodes' = nodes
      BY <1>4 DEF StoreLink, graphVars
    <2> DEFINE new == MergeEnds(nodes[UserGraph(t)], link)
    <2>2. u = UserGraph(t) => new[k] = nodes[u][k]
      BY DEF MergeEnds, Held
    <2>3. nodes' = [nodes EXCEPT ![UserGraph(t)] = new] \/ nodes' = nodes
      BY <2>1
    <2> HIDE DEF new
    <2>4. nodes'[u][k] = nodes[u][k]
      BY <1>1, <2>2, <2>3
    <2> QED
      BY <2>4 DEF Held
  <1>5. CASE Publish(t)
    BY <1>2, <1>5 DEF Publish, graphVars
  <1> QED
    BY <1>3, <1>4, <1>5
       DEF Step, FirstDiff, MarkDeleted, DeleteOrphans, SecondDiff, Replace, CacheChunks,
           StoreMetadata, DeleteNodes, DeleteMetadata

(* What StoreNode does to the locals, and to the node when it succeeds. *)
LEMMA StoreNodeHolds ==
    ASSUME TypeInv, NEW t \in Handlers, StoreNode(t), ~Fails(t, "store")
    PROVE  \E i \in work[t].left :
              /\ Held(UserGraph(t), job[t].chunks[i].key)'
              /\ work'[t].left = IF work[t].left = {i} THEN ToPublish(t) ELSE work[t].left \ {i}
              /\ pc'[t] = IF work[t].left = {i} THEN AfterStore(t) ELSE "store"
              /\ work'[t].to_process = work[t].to_process /\ work'[t].links = work[t].links
  <1> DEFINE rest(i) == work[t].left \ {i}
  <1> DEFINE next(i) == IF rest(i) = {} THEN ToPublish(t) ELSE rest(i)
  <1>1. PICK i \in work[t].left :
          /\ nodes' = [nodes EXCEPT ![UserGraph(t)] = MergeNode(@, job[t].chunks[i])]
          /\ Remember(t, [work[t] EXCEPT !.left = next(i)])
          /\ Goto(t, IF rest(i) = {} THEN AfterStore(t) ELSE "store")
    BY DEF StoreNode
  <1>2. pc[t] # "idle" /\ job' = job
    BY DEF StoreNode
  <1>3. /\ nodes \in [Users -> [Keys -> Node \cup {None}]] /\ None \notin Node
        /\ None \notin Hashes /\ pc \in [Handlers -> PCs] /\ work \in [Handlers -> Work]
        /\ UserGraph(t) \in Users /\ job[t] \in Job /\ i \in DOMAIN job[t].chunks
        /\ work[t] \in Work
    BY <1>2, Running, ConstantsAssumption DEF TypeInv, TypeOK
  <1>4. rest(i) = {} <=> work[t].left = {i}
    OBVIOUS
  <1>5. Held(UserGraph(t), job[t].chunks[i].key)'
    <2> DEFINE c == job[t].chunks[i]
    <2>1. c.hash \in Hashes /\ c.key \in Keys
      BY <1>3, JobFields
    <2> HIDE DEF c
    <2> DEFINE new == MergeNode(nodes[UserGraph(t)], c)
    <2>2. new[c.key] \in Node /\ new[c.key].content = c.hash
      BY <1>3, <2>1 DEF MergeNode, Node
    <2>3. nodes' = [nodes EXCEPT ![UserGraph(t)] = new]
      BY <1>1 DEF c
    <2> HIDE DEF new
    <2>4. nodes'[UserGraph(t)] = new
      BY <1>3, <2>3
    <2>5. UserGraph(t)' = UserGraph(t) /\ c' = c
      BY <1>2 DEF UserGraph, c
    <2> QED
      BY <1>3, <2>1, <2>2, <2>4, <2>5 DEF Held, c
  <1> HIDE DEF next
  <1>6. work'[t].left = next(i) /\ work'[t].to_process = work[t].to_process
           /\ work'[t].links = work[t].links
    BY <1>1, <1>3 DEF Remember, Work
  <1>7. pc'[t] = IF rest(i) = {} THEN AfterStore(t) ELSE "store"
    BY <1>1, <1>3 DEF Goto
  <1> QED
    BY <1>4, <1>5, <1>6, <1>7 DEF next

LEMMA StepStored ==
    ASSUME NEW t \in Handlers, TypeInv, TypeInv', StoredUpTo(t), Step(t), ~Fails(t, "store")
    PROVE  StoredUpTo(t)'
  <1> DEFINE W == job[t].chunks
  <1> DEFINE batch == work[t].to_process
  <1>1. pc[t] # "idle" /\ (pc'[t] # "idle" => job' = job)
    BY StepKeepsJob
  <1>2. /\ job[t] \in Job /\ work[t] \in Work /\ UserGraph(t) \in Users
        /\ batch \subseteq DOMAIN W
        /\ pc \in [Handlers -> PCs] /\ work \in [Handlers -> Work]
    BY <1>1, Running DEF TypeInv, TypeOK
  <1>3. pc'[t] # "idle" => UserGraph(t)' = UserGraph(t)
    BY <1>1 DEF UserGraph
  <1>4. \A i \in batch : W[i].key \in Keys
    BY <1>2, JobFields
  <1>5. ASSUME pc[t] \in {"store", "relate", "publish"}, NEW i \in batch, pc'[t] # "idle",
               Held(UserGraph(t), W[i].key)
        PROVE  Held(UserGraph(t), W[i].key)'
    BY <1>1, <1>2, <1>3, <1>4, <1>5, HeldKept DEF Held
  <1>6. CASE pc'[t] \notin {"store", "relate", "publish"}
    BY <1>6 DEF StoredUpTo
  <1>7. CASE CacheChunks(t)
    <2> DEFINE links == ChainLinks(W, batch)
    <2>1. /\ work' = [work EXCEPT ![t] = [work[t] EXCEPT !.left = batch, !.links = links]]
          /\ pc'[t] = IF batch = {} THEN "metadata" ELSE "store"
      BY <1>2, <1>7 DEF CacheChunks, Remember, Goto
    <2>2. \A link \in links : \E i, j \in batch : link = <<W[i].key, W[j].key>>
      BY DEF ChainLinks
    <2> HIDE DEF links
    <2>3. /\ work'[t].left = batch /\ work'[t].to_process = batch /\ work'[t].links = links
      BY <1>2, <2>1 DEF Work
    <2> QED
      BY <1>1, <1>6, <2>1, <2>2, <2>3 DEF StoredUpTo
  <1>8. CASE StoreNode(t)
    <2>1. /\ pc[t] = "store" /\ work[t].left \subseteq batch
          /\ \A i \in batch \ work[t].left : Held(UserGraph(t), W[i].key)
          /\ \A link \in work[t].links : \E i, j \in batch : link = <<W[i].key, W[j].key>>
      BY <1>8 DEF StoreNode, StoredUpTo
    <2>2. PICK i \in work[t].left :
              /\ Held(UserGraph(t), job[t].chunks[i].key)'
              /\ work'[t].left = IF work[t].left = {i} THEN ToPublish(t) ELSE work[t].left \ {i}
              /\ pc'[t] = IF work[t].left = {i} THEN AfterStore(t) ELSE "store"
              /\ work'[t].to_process = work[t].to_process /\ work'[t].links = work[t].links
      BY <1>8, StoreNodeHolds
    <2>3. pc'[t] # "idle" /\ job' = job
      BY <1>1, <2>2 DEF AfterStore
    <2>4. \A j \in batch \ (work[t].left \ {i}) : Held(UserGraph(t), W[j].key)'
      BY <1>5, <2>1, <2>2, <2>3
    <2>5. CASE work[t].left = {i}
      <3>1. pc'[t] \in {"relate", "publish", "metadata"} /\ work'[t].left \subseteq batch
        BY <2>2, <2>5 DEF AfterStore, ToPublish
      <3>2. \A j \in batch : Held(UserGraph(t), W[j].key)'
        BY <2>4, <2>5
      <3>3. \A link \in work'[t].links : \E j, k \in batch : link = <<W[j].key, W[k].key>>
        BY <2>1, <2>2
      <3>4. /\ work'[t].left \subseteq work'[t].to_process
            /\ (\A j \in work[t].to_process : Held(UserGraph(t), job[t].chunks[j].key))'
        BY <2>2, <2>3, <3>1, <3>2
      <3>5. (\A link \in work[t].links : \E j, k \in work[t].to_process :
                link = <<job[t].chunks[j].key, job[t].chunks[k].key>>)'
        BY <2>2, <2>3, <3>3
      <3>6. pc'[t] # "store"
        BY <3>1
      <3> QED
        BY Zenon, <3>4, <3>5, <3>6 DEF StoredUpTo
    <2>6. CASE work[t].left # {i}
      <3>1. pc'[t] = "store" /\ work'[t].left = work[t].left \ {i}
        BY <2>2, <2>6
      <3>2. \A link \in work'[t].links : \E j, k \in batch : link = <<W[j].key, W[k].key>>
        BY <2>1, <2>2
      <3>3. work'[t].left \subseteq batch
        BY <2>1, <3>1
      <3>4. \A j \in batch \ work'[t].left : Held(UserGraph(t), W[j].key)'
        BY <2>4, <3>1
      <3>5. /\ work'[t].left \subseteq work'[t].to_process
            /\ (\A j \in work[t].to_process \ work[t].left :
                   Held(UserGraph(t), job[t].chunks[j].key))'
        BY <2>2, <2>3, <3>3, <3>4
      <3>6. (\A link \in work[t].links : \E j, k \in work[t].to_process :
                link = <<job[t].chunks[j].key, job[t].chunks[k].key>>)'
        BY <2>2, <2>3, <3>2
      <3>7. pc'[t] \notin {"relate", "publish"}
        BY <3>1
      <3> QED
        BY Zenon, <3>5, <3>6, <3>7 DEF StoredUpTo
    <2> QED
      BY <2>5, <2>6
  <1>9. CASE StoreLink(t)
    <2>1. /\ pc[t] = "relate" /\ work[t].left \subseteq batch
          /\ \A i \in batch : Held(UserGraph(t), W[i].key)
          /\ \A link \in work[t].links : \E i, j \in batch : link = <<W[i].key, W[j].key>>
      BY <1>9 DEF StoreLink, StoredUpTo
    <2>2. PICK link \in work[t].links :
             /\ Remember(t, [work[t] EXCEPT !.links = @ \ {link}])
             /\ Goto(t, IF work[t].links # {link} THEN "relate"
                        ELSE IF work[t].left # {} THEN "publish" ELSE "metadata")
      BY <1>9 DEF StoreLink
    <2>3. /\ work'[t].to_process = batch /\ work'[t].left = work[t].left
          /\ work'[t].links = work[t].links \ {link}
      BY <1>2, <2>2 DEF Remember, Work
    <2>4. pc'[t] \in {"relate", "publish", "metadata"}
      BY <1>2, <2>2 DEF Goto
    <2>5. job' = job /\ \A i \in batch : Held(UserGraph(t), W[i].key)'
      BY <1>1, <1>5, <2>1, <2>4
    <2> QED
      BY <2>1, <2>3, <2>4, <2>5 DEF StoredUpTo
  <1>10. CASE Publish(t)
    <2>1. /\ pc[t] = "publish" /\ work[t].left \subseteq batch
          /\ \A i \in batch : Held(UserGraph(t), W[i].key)
      BY <1>10 DEF Publish, StoredUpTo
    <2>2. PICK rest \in {{}, work[t].left \ NextBatch(work[t].left)} :
             Remember(t, [work[t] EXCEPT !.left = rest])
      BY <1>10 DEF Publish
    <2>3. work'[t].to_process = batch /\ work'[t].left \subseteq work[t].left
      BY <1>2, <2>2 DEF Remember, Work
    <2>4. pc'[t] \in {"publish", "metadata"}
      BY <1>2, <1>10 DEF Publish, Goto
    <2>5. job' = job /\ \A i \in batch : Held(UserGraph(t), W[i].key)'
      BY <1>1, <1>5, <2>1, <2>4
    <2> QED
      BY <2>1, <2>3, <2>4, <2>5 DEF StoredUpTo
  <1>11. CASE FirstDiff(t) \/ MarkDeleted(t) \/ DeleteOrphans(t) \/ SecondDiff(t) \/ Replace(t)
              \/ StoreMetadata(t) \/ DeleteNodes(t) \/ DeleteMetadata(t)
    <2>1. pc'[t] \notin {"store", "relate", "publish"}
      BY <1>2, <1>11
         DEF FirstDiff, MarkDeleted, DeleteOrphans, SecondDiff, Replace, StoreMetadata,
             DeleteNodes, DeleteMetadata, Goto, Finish, AfterFirstDiff
    <2> QED
      BY <1>6, <2>1
  <1> QED
    BY <1>7, <1>8, <1>9, <1>10, <1>11 DEF Step

LEMMA NextStoredInv ==
    ASSUME NEW t, Handlers = {t}, StoredInv(t), [Next]_vars
    PROVE  StoredInv(t)'
  <1>1. TypeInv /\ TypeInv' /\ t \in Handlers
    BY NextTypeInv DEF StoredInv
  <1>2. ASSUME failures' = 0 \/ "store" \notin Faults PROVE StoredUpTo(t)'
    <2>1. ~Fails(t, "store")
      BY <1>1, <1>2 DEF Fails, TypeInv, TypeOK
    <2>2. CASE Step(t)
      <3>1. failures' = 0 => failures = 0
        <4>1. failures \in Nat
          BY <1>1 DEF TypeInv, TypeOK
        <4>2. Succeeds \/ \E call \in Calls : Fails(t, call)
          BY <2>2 DEF Step, FirstDiff, MarkDeleted, DeleteOrphans, SecondDiff, Replace,
                      CacheChunks, StoreNode, StoreLink, Publish, StoreMetadata, DeleteNodes,
                      DeleteMetadata, Calls, Succeeds
        <4> QED
          BY <4>1, <4>2 DEF Fails, Succeeds, faultVars
      <3> QED
        BY <1>1, <1>2, <2>1, <2>2, <3>1, StepStored DEF StoredInv
    <2>3. ASSUME NEW e \in Job, Deliver(t, e) PROVE StoredUpTo(t)'
      BY <1>1, <2>3, DeliverLast DEF StoredUpTo
    <2>4. CASE Crash
      BY <1>1, <2>4 DEF Crash, StoredUpTo
    <2>5. CASE UNCHANGED vars \/ CrowdOut
      <3>1. UNCHANGED <<nodes, pc, job, work, failures>>
        BY <2>5 DEF vars, CrowdOut, graphVars, taskVars, faultVars
      <3>2. StoredUpTo(t)
        BY <1>2, <3>1 DEF StoredInv
      <3>3. UserGraph(t)' = UserGraph(t)
        BY <3>1 DEF UserGraph
      <3>4. \A v, k : Held(v, k)' <=> Held(v, k)
        BY <3>1 DEF Held
      <3> QED
        BY <3>1, <3>2, <3>3, <3>4 DEF StoredUpTo
    <2> QED
      BY <1>1, <2>2, <2>3, <2>4, <2>5 DEF Next
  <1> QED
    BY <1>1, <1>2 DEF StoredInv

(* Without a failed call there are no phantoms, and delete_file finds      *)
(* every node of its user.                                                 *)
EmptyUpTo(t) ==
    /\ \A u \in Users, k \in Keys : nodes[u][k] # None => Held(u, k)
    /\ pc[t] = "delete_metadata" => NodeKeys(UserGraph(t)) = {}
    /\ (pc[t] = "idle" /\ delivered # <<>> /\ Last.op = "delete") => NodeKeys(Last.user) = {}

EmptyInv(t) ==
    /\ StoredInv(t)
    /\ HandlesLast(t)
    /\ (failures = 0 /\ crashes = 0) => EmptyUpTo(t)

LEMMA NoNewPhantom ==
    ASSUME TypeInv, NEW t \in Handlers, StoredUpTo(t), Step(t), Smooth(t),
           NEW u \in Users, NEW k \in Keys, nodes[u][k] # None => Held(u, k),
           nodes'[u][k] # None
    PROVE  Held(u, k)'
  <1>1. /\ nodes \in [Users -> [Keys -> Node \cup {None}]] /\ None \notin Node
        /\ None \notin Hashes
    BY ConstantsAssumption DEF TypeInv, TypeOK
  <1>2. CASE nodes'[u][k] = nodes[u][k]
    BY <1>2 DEF Held
  <1>3. ASSUME NEW v \in Users, NEW keys, DetachDelete(v, keys)
        PROVE  Held(u, k)'
    <2>1. nodes'[u][k] \in {None, nodes[u][k]}
      BY <1>1, <1>3 DEF DetachDelete
    <2> QED
      BY <1>2, <2>1
  <1>4. CASE StoreNode(t)
    <2>1. PICK i \in work[t].left :
             nodes' = [nodes EXCEPT ![UserGraph(t)] = MergeNode(@, job[t].chunks[i])]
      BY <1>4 DEF StoreNode, Smooth, Calls
    <2>2. UserGraph(t) \in Users /\ job[t] \in Job /\ i \in DOMAIN job[t].chunks
      BY <1>4, <2>1, Running DEF StoreNode
    <2> DEFINE c == job[t].chunks[i]
    <2>3. c.hash \in Hashes
      BY <2>2, JobFields
    <2> HIDE DEF c
    <2> DEFINE new == MergeNode(nodes[UserGraph(t)], c)
    <2>4. k # c.key => new[k] = nodes[UserGraph(t)][k]
      BY <1>1, <2>2 DEF MergeNode
    <2>5. k = c.key => new[k] \in Node /\ new[k].content = c.hash
      BY <1>1, <2>2, <2>3 DEF MergeNode, Node
    <2>6. nodes' = [nodes EXCEPT ![UserGraph(t)] = new]
      BY <2>1 DEF c
    <2> HIDE DEF new
    <2>7. nodes'[u][k] = nodes[u][k] \/ (u = UserGraph(t) /\ nodes'[u][k] = new[k])
      BY <1>1, <2>2, <2>6
    <2> QED
      BY <1>1, <1>2, <2>3, <2>4, <2>5, <2>7 DEF Held
  <1>5. CASE StoreLink(t)
    <2>1. PICK link \in work[t].links :
             nodes' = [nodes EXCEPT ![UserGraph(t)] = MergeEnds(@, link)]
      BY <1>5 DEF StoreLink, Smooth, Calls
    <2>2. UserGraph(t) \in Users /\ pc[t] = "relate"
      BY <1>5, Running DEF StoreLink
    <2>3. PICK i \in work[t].to_process : \E j \in work[t].to_process :
             link = <<job[t].chunks[i].key, job[t].chunks[j].key>>
      BY <2>1, <2>2 DEF StoredUpTo
    <2>4. Held(UserGraph(t), link[1]) /\ Held(UserGraph(t), link[2])
      BY <2>2, <2>3 DEF StoredUpTo
    <2> DEFINE new == MergeEnds(nodes[UserGraph(t)], link)
    <2>5. new[k] = nodes[UserGraph(t)][k]
      BY <2>4 DEF MergeEnds, Held
    <2>6. nodes' = [nodes EXCEPT ![UserGraph(t)] = new]
      BY <2>1
    <2> HIDE DEF new
    <2>7. nodes'[u][k] = nodes[u][k]
      BY <1>1, <2>2, <2>5, <2>6
    <2> QED
      BY <1>2, <2>7
  <1>6. CASE DeleteOrphans(t)
    BY <1>3, <1>6, Running DEF DeleteOrphans, Smooth, Calls
  <1>7. CASE DeleteNodes(t)
    BY <1>3, <1>7, Running DEF DeleteNodes, Smooth, Calls
  <1>8. ASSUME ~StoreNode(t), ~StoreLink(t), ~DeleteOrphans(t), ~DeleteNodes(t)
        PROVE  nodes' = nodes
    BY <1>8 DEF Step, FirstDiff, MarkDeleted, SecondDiff, Replace, CacheChunks, Publish,
                StoreMetadata, DeleteMetadata, graphVars
  <1> QED
    BY <1>2, <1>4, <1>5, <1>6, <1>7, <1>8

LEMMA StepEmpty ==
    ASSUME NEW t, Handlers = {t}, TypeInv, HandlesLast(t), StoredUpTo(t), EmptyUpTo(t),
           Step(t), Smooth(t)
    PROVE  EmptyUpTo(t)'
  <1>1. /\ t \in Handlers /\ pc[t] # "idle" /\ Last' = Last /\ Last = job[t]
        /\ pc'[t] # "idle" => job' = job
        /\ job[t].op = "delete" <=> pc[t] \in DeletePCs
    BY StepBase
  <1>2. pc \in [Handlers -> PCs] /\ UserGraph(t) \in Users /\ UserGraph(t) = job[t].user
    BY <1>1, Running DEF TypeInv, TypeOK, UserGraph
  <1>3. \A u \in Users, k \in Keys : nodes'[u][k] # None => Held(u, k)'
    BY <1>1, NoNewPhantom DEF EmptyUpTo
  <1>4. CASE DeleteNodes(t)
    <2>1. /\ DetachDelete(UserGraph(t), FileNodes(nodes[UserGraph(t)]))
          /\ pc'[t] = "delete_metadata"
      BY <1>2, <1>4 DEF DeleteNodes, Smooth, Calls, Goto
    <2>2. \A k \in Keys : nodes[UserGraph(t)][k] # None => k \in FileNodes(nodes[UserGraph(t)])
      BY <1>2 DEF EmptyUpTo, Held, FileNodes
    <2>3. \A k \in Keys : nodes'[UserGraph(t)][k] = None
      BY <1>2, <2>1, <2>2, DetachDeleteEffect
    <2>4. NodeKeys(UserGraph(t))' = {}
      BY <1>1, <2>1, <2>3 DEF NodeKeys, UserGraph
    <2> QED
      BY <1>3, <2>1, <2>4 DEF EmptyUpTo
  <1>5. CASE DeleteMetadata(t)
    <2>1. pc[t] = "delete_metadata" /\ nodes' = nodes /\ pc'[t] = "idle"
      BY <1>2, <1>5 DEF DeleteMetadata, Finish, Goto, graphVars
    <2>2. NodeKeys(Last.user)' = {}
      BY <1>1, <1>2, <2>1 DEF EmptyUpTo, NodeKeys
    <2> QED
      BY <1>3, <2>1, <2>2 DEF EmptyUpTo
  <1>6. ASSUME ~DeleteNodes(t), ~DeleteMetadata(t)
        PROVE  pc[t] \notin DeletePCs /\ pc'[t] # "delete_metadata"
    BY <1>2, <1>6
       DEF Step, FirstDiff, MarkDeleted, DeleteOrphans, SecondDiff, Replace, CacheChunks,
           StoreNode, StoreLink, Publish, StoreMetadata, Goto, Finish, AfterFirstDiff,
           AfterStore, DeletePCs
  <1>7. ASSUME ~DeleteNodes(t), ~DeleteMetadata(t) PROVE EmptyUpTo(t)'
    BY <1>1, <1>3, <1>6, <1>7 DEF EmptyUpTo
  <1> QED
    BY <1>4, <1>5, <1>7

LEMMA NextEmptyInv ==
    ASSUME NEW t, Handlers = {t}, EmptyInv(t), [Next]_vars
    PROVE  EmptyInv(t)'
  <1>1. TypeInv /\ StoredInv(t) /\ HandlesLast(t) /\ t \in Handlers
    BY DEF EmptyInv, StoredInv
  <1>2. StoredInv(t)' /\ HandlesLast(t)'
    BY <1>1, NextStoredInv, NextHandlesLast
  <1>3. ASSUME failures' = 0, crashes' = 0 PROVE EmptyUpTo(t)'
    <2>1. Smooth(t)
      BY <1>1, <1>3, NotTroubled
    <2>2. CASE Step(t)
      <3>1. failures = 0 /\ crashes = 0
        BY <1>1, <1>3, <2>1, <2>2, SmoothSucceeds DEF Succeeds, faultVars
      <3> QED
        BY <1>1, <2>1, <2>2, <3>1, StepEmpty DEF EmptyInv, StoredInv
    <2>3. ASSUME NEW e \in Job, Deliver(t, e)
          PROVE  EmptyUpTo(t)'
      <3>1. /\ failures = 0 /\ crashes = 0 /\ nodes' = nodes
            /\ pc'[t] \in {"first_diff", "delete_nodes"}
        BY <1>1, <1>3, <2>3, DeliverLast DEF Deliver, graphVars
      <3> QED
        BY <3>1 DEF EmptyInv, EmptyUpTo, Held
    <2>4. CASE Crash
      <3>1. crashes \in Nat /\ crashes' = crashes + 1
        BY <1>1, <2>4 DEF Crash, TypeInv, TypeOK
      <3> QED
        BY <1>3, <3>1
    <2>5. CASE UNCHANGED vars \/ CrowdOut
      <3>1. /\ failures = 0 /\ crashes = 0
            /\ UNCHANGED <<nodes, pc, job, delivered>>
        BY <1>3, <2>5 DEF vars, CrowdOut, faultVars, graphVars, taskVars
      <3> QED
        BY <3>1 DEF EmptyInv, EmptyUpTo, Held, NodeKeys, UserGraph, Last
    <2> QED
      BY <1>1, <2>2, <2>3, <2>4, <2>5 DEF Next
  <1> QED
    BY <1>2, <1>3 DEF EmptyInv

(* With one task, before any failure or crash, the graph of the user whose *)
(* deletion came last is empty when the task has ended: whoever else uses  *)
(* the file, and whatever the versions are.                                *)
THEOREM SpecDeletionEmptiesGraph ==
    ASSUME NEW t, Handlers = {t}
    PROVE  Spec => []DeletionEmptiesGraph
  <1>1. Init => EmptyInv(t)
    BY InitTypeInv DEF Init, EmptyInv, StoredInv, StoredUpTo, HandlesLast, EmptyUpTo
  <1>2. EmptyInv(t) /\ [Next]_vars => EmptyInv(t)'
    BY NextEmptyInv
  <1>3. EmptyInv(t) => DeletionEmptiesGraph
    BY DEF EmptyInv, EmptyUpTo, DeletionEmptiesGraph, Quiescent, Last
  <1> QED
    BY <1>1, <1>2, <1>3, PTL DEF Spec
=============================================================================
