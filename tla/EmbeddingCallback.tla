-------------------------- MODULE EmbeddingCallback --------------------------
(***************************************************************************)
(* The way back: the embeddings service answers a SimplifiedChunkRawEvent  *)
(* with an EMBEDDING_GENERATED event, whose task in handle_event           *)
(* (src/graph/consumer.rs) looks up each chunk's content, writes its       *)
(* vector to the user's graph, drops it from the cache and links it to the *)
(* next chunk of the event.  These tasks run next to those of              *)
(* IngestPipeline, on the same graph and the same cache.                   *)
(*                                                                         *)
(* The service and the two topics are outside the program: an answer may   *)
(* come late, more than once, in another order or never.  An embedding is  *)
(* named by the hash of the content it was computed from.  The handling of *)
(* a chunk ends with the LINKS_TO edges, which change nothing the tasks of *)
(* this model read and are left out, and with a call of fast-fetcher,      *)
(* whose answer changes nothing but may never come.                        *)
(***************************************************************************)
EXTENDS IngestPipeline

CONSTANTS
    Callbacks,       \* tasks that may handle answers at the same time
    CallbackFaults,  \* subset of {"lookup", "update", "link"}: may fail
    MaxAnswers,      \* bound: answers delivered
    TypedCells       \* whether FalkorDB wraps each cell of a reply in its type

ASSUME CallbackAssumption ==
    /\ CallbackFaults \subseteq {"lookup", "update", "link"}
    /\ MaxAnswers \in Nat
    /\ TypedCells \in BOOLEAN

VARIABLES
    cb_pc,      \* per callback task: the await it is at
    cb_event,   \* per callback task: the message that is answered, or NoEvent
    cb_left,    \* per callback task: chunks of the event still to handle
    answered,   \* history: the positions in chunks_raw answered, oldest first
    skipped     \* history: <<user, key>> of chunks the last answer for which
                \* found no content

historyVars == <<answered, skipped>>
cbVars == <<cb_pc, cb_event, cb_left, historyVars>>
ingestVars == <<pgVars, chunks_raw, taskVars, delivered, crashes>>
allVars == <<vars, cbVars>>

CallbackPCs == {"idle", "cache_lookup", "graph_lookup", "update", "evict", "link", "fetch"}

(* The event of an idle task. *)
NoEvent == None

EmbInit ==
    /\ Init
    /\ cb_pc = [c \in Callbacks |-> "idle"]
    /\ cb_event = [c \in Callbacks |-> NoEvent]
    /\ cb_left = [c \in Callbacks |-> {}]
    /\ answered = <<>>
    /\ skipped = {}

-----------------------------------------------------------------------------
(* The locals of a callback task.                                          *)

(* The chunks come in the order they were sent: the first of those left.   *)
First(left) == {i \in left : \A j \in left : i <= j}

ChunkAt(c, i) == cb_event[c].chunks[i]

HasContent(node) == node # None /\ node.content # None

(* parse_graphdb_response reads a cell that is a list, as the cells of a   *)
(* --compact reply are, as null: the content is there and is not found.    *)
ContentRead(node) == HasContent(node) /\ ~TypedCells

(* user_graph: the graph of the user the event names. *)
CallbackGraph_Metadata(c) ==
    IF file_metadata = None THEN cb_event[c].user ELSE file_metadata
CallbackGraph(c) == cb_event[c].user

CallbackGoto(c, p) ==
    /\ cb_pc' = [cb_pc EXCEPT ![c] = p]
    /\ UNCHANGED <<cb_event, cb_left>>

(* On to the chunk after the i-th, or to the end of the task. *)
Proceed_SameChunk(c, i) ==
    IF cb_left[c] # {i}
    THEN CallbackGoto(c, "cache_lookup")
    ELSE /\ cb_pc' = [cb_pc EXCEPT ![c] = "idle"]
         /\ cb_event' = [cb_event EXCEPT ![c] = NoEvent]
         /\ cb_left' = [cb_left EXCEPT ![c] = {}]
Proceed(c, i) ==
    IF cb_left[c] # {i}
    THEN /\ cb_pc' = [cb_pc EXCEPT ![c] = "cache_lookup"]
         /\ cb_left' = [cb_left EXCEPT ![c] = @ \ {i}]
         /\ UNCHANGED cb_event
    ELSE /\ cb_pc' = [cb_pc EXCEPT ![c] = "idle"]
         /\ cb_event' = [cb_event EXCEPT ![c] = NoEvent]
         /\ cb_left' = [cb_left EXCEPT ![c] = {}]

CallFails(call) ==
    /\ call \in CallbackFaults
    /\ failures < MaxFaults
    /\ failures' = failures + 1
    /\ UNCHANGED troubled

-----------------------------------------------------------------------------
(* An answer to the n-th message arrives and a task is spawned for it. *)
Answer(c, n) ==
    /\ cb_pc[c] = "idle"
    /\ Len(answered) < MaxAnswers
    /\ cb_pc' = [cb_pc EXCEPT ![c] = "cache_lookup"]
    /\ cb_event' = [cb_event EXCEPT ![c] = chunks_raw[n]]
    /\ cb_left' = [cb_left EXCEPT ![c] = chunks_raw[n].sent]
    /\ answered' = Append(answered, n)
    /\ UNCHANGED <<vars, skipped>>

(* get_chunk_content, first half: the cache, under its mutex. *)
LookInCache(c, i) ==
    /\ cb_pc[c] = "cache_lookup"
    /\ CallbackGoto(c, IF cache[ChunkAt(c, i).key] # None THEN "update"
                       ELSE "graph_lookup")
    /\ UNCHANGED <<vars, historyVars>>

(* Second half: the node's content in the graph.  A chunk whose content is *)
(* not found, or whose lookup fails, is skipped.                           *)
Skip(c, i) ==
    /\ skipped' = skipped \cup {<<CallbackGraph(c), ChunkAt(c, i).key>>}
    /\ Proceed(c, i)

LookInGraph(c, i) ==
    /\ cb_pc[c] = "graph_lookup"
    /\ LET node == nodes[CallbackGraph(c)][ChunkAt(c, i).key]
       IN  \/ ContentRead(node) /\ Succeeds /\ CallbackGoto(c, "update") /\ UNCHANGED skipped
           \/ ~ContentRead(node) /\ Succeeds /\ Skip(c, i)
           \/ CallFails("lookup") /\ Skip(c, i)
    /\ UNCHANGED <<ingestVars, graphVars, cache, answered>>

(* MATCH (c {id}) SET c.embeddings = ...: with no such node nothing is     *)
(* set, and the call succeeds all the same.  A call whose reply is lost    *)
(* counts as failed, whatever it set.                                      *)
Embedded(graph, chunk) ==
    [k \in Keys |-> IF k = chunk.key /\ graph[k] # None
                    THEN [graph[k] EXCEPT !.embeddings = chunk.hash]
                    ELSE graph[k]]

UpdateEmbedding(c, i) ==
    /\ cb_pc[c] = "update"
    /\ LET u == CallbackGraph(c)
           set == [nodes EXCEPT ![u] = Embedded(@, ChunkAt(c, i))]
       IN  /\ \/ Succeeds /\ nodes' = set /\ CallbackGoto(c, "evict")
              \/ CallFails("update") /\ nodes' \in {nodes, set} /\ Proceed(c, i)
           /\ skipped' = skipped \ {<<u, ChunkAt(c, i).key>>}
    /\ UNCHANGED <<ingestVars, edges, cache, answered>>

(* "Evict from cache once successfully stored to free memory" *)
Evict(c, i) ==
    /\ cb_pc[c] = "evict"
    /\ cache' = [cache EXCEPT ![ChunkAt(c, i).key] = None]
    /\ CallbackGoto(c, IF cb_left[c] # {i} THEN "link" ELSE "fetch")
    /\ UNCHANGED <<ingestVars, graphVars, faultVars, historyVars>>

(* MATCH (a {id}) MERGE (b {id}) MERGE (a)-[:NEXT_CHUNK]->(b): nothing     *)
(* without a; b is created, with its id only, when it is not there.        *)
LinkNext(c, i) ==
    /\ cb_pc[c] = "link"
    /\ LET u == CallbackGraph(c)
           a == ChunkAt(c, i).key
       IN  \/ \E j \in First(cb_left[c] \ {i}) :
                LET link == <<a, ChunkAt(c, j).key>>
                IN  /\ nodes[u][a] # None
                    /\ nodes' = [nodes EXCEPT ![u] = MergeEnds(@, link)]
                    /\ edges' = [edges EXCEPT ![u] = @ \cup {link}]
                    /\ Succeeds
           \/ nodes[u][a] = None /\ Succeeds /\ UNCHANGED graphVars
           \/ CallFails("link") /\ UNCHANGED graphVars
    /\ CallbackGoto(c, "fetch")
    /\ UNCHANGED <<ingestVars, cache, historyVars>>

(* The POST to fast-fetcher returns, with whatever outcome.  It has no     *)
(* timeout.                                                                *)
Fetch(c, i) ==
    /\ cb_pc[c] = "fetch"
    /\ Proceed(c, i)
    /\ UNCHANGED <<vars, historyVars>>

(* A restart ends the callback tasks with the others. *)
EmbCrash ==
    /\ Crash
    /\ cb_pc' = [c \in Callbacks |-> "idle"]
    /\ cb_event' = [c \in Callbacks |-> NoEvent]
    /\ cb_left' = [c \in Callbacks |-> {}]
    /\ UNCHANGED historyVars

CallbackStep(c) ==
    \E i \in First(cb_left[c]) :
        \/ LookInCache(c, i)
        \/ LookInGraph(c, i)
        \/ UpdateEmbedding(c, i)
        \/ Evict(c, i)
        \/ LinkNext(c, i)

FetchStep(c) == \E i \in First(cb_left[c]) : Fetch(c, i)

EmbNext ==
    \/ \E t \in Handlers : Step(t) /\ UNCHANGED cbVars
    \/ \E t \in Handlers, e \in Job : Deliver(t, e) /\ UNCHANGED cbVars
    \/ CrowdOut /\ UNCHANGED cbVars
    \/ EmbCrash
    \/ \E c \in Callbacks, n \in DOMAIN chunks_raw : Answer(c, n)
    \/ \E c \in Callbacks : CallbackStep(c) \/ FetchStep(c)

EmbSpec == EmbInit /\ [][EmbNext]_allVars

(* Every spawned task is polled until it ends.  Nothing makes fast-fetcher *)
(* answer.                                                                 *)
EmbFairSpec ==
    /\ EmbSpec
    /\ \A t \in Handlers : WF_allVars(Step(t) /\ UNCHANGED cbVars)
    /\ \A c \in Callbacks : WF_allVars(CallbackStep(c))

-----------------------------------------------------------------------------
(* Properties.                                                             *)

EmbTypeOK ==
    /\ TypeOK
    /\ cb_pc \in [Callbacks -> CallbackPCs]
    /\ cb_event \in [Callbacks -> Message \cup {NoEvent}]
    /\ cb_left \in [Callbacks -> SUBSET Nat]
    /\ answered \in Seq(Nat)
    /\ skipped \in SUBSET (Users \X Keys)

AllIdle == Quiescent /\ \A c \in Callbacks : cb_pc[c] = "idle"

(* A vector in a user's graph was computed from a content that was sent    *)
(* for this user under this key, whichever answers are late or repeated.   *)
EmbeddingsWereSent ==
    \A u \in Users : \A k \in NodeKeys(u) :
        nodes[u][k].embeddings # None =>
            \E n \in DOMAIN chunks_raw : \E i \in chunks_raw[n].sent :
                /\ chunks_raw[n].user = u
                /\ chunks_raw[n].chunks[i] = [key |-> k, hash |-> nodes[u][k].embeddings]

(* When a chunk is sent to the embeddings service, its content is in the   *)
(* cache or stored in the graph, whatever other files' tasks or earlier    *)
(* answers have evicted in the meantime.  (Whether the second can be read  *)
(* from a reply is ContentRead.)                                           *)
SentContentStored ==
    [][Len(chunks_raw') > Len(chunks_raw) =>
          LET m == chunks_raw'[Len(chunks_raw')]
          IN  \A i \in m.sent :
                 LET k == m.chunks[i].key
                 IN  \/ cache[k] # None
                     \/ HasContent(nodes[m.user][k])]_allVars

(* Every answer is worked off, whatever it still finds in the stores,      *)
(* unless its task waits for fast-fetcher for ever.                        *)
EveryAnswerHandled ==
    \A c \in Callbacks : cb_pc[c] # "idle" ~> (cb_pc[c] = "idle" \/ [](cb_pc[c] = "fetch"))

(* The messages have been answered once each and in their order. *)
AnsweredInOrder ==
    /\ Len(answered) = Len(chunks_raw)
    /\ \A n \in DOMAIN answered : answered[n] = n

(* No chunk comes back after a version of the file that was without it. *)
NothingReverted ==
    \A m, n \in DOMAIN delivered : \A l \in 1 .. m - 1 :
        m < n => {delivered[l].chunks[i] : i \in DOMAIN delivered[l].chunks}
                    \cap {delivered[n].chunks[i] : i \in DOMAIN delivered[n].chunks}
                 \subseteq {delivered[m].chunks[i] : i \in DOMAIN delivered[m].chunks}

(* The comment of Step 2 in store_and_publish_chunks: "When the embeddings *)
(* callback arrives later, it will MERGE-update the node with the actual   *)
(* embedding vector."  Asked when the answers came in the order of the     *)
(* messages: once the ingest is over and every message has been answered,  *)
(* each node's vector is that of its content.  An answer that comes        *)
(* between the steps of the next edit evicts the edited content, but never *)
(* leaves its vector on the edited chunk, unless that chunk's own answer   *)
(* was then skipped because its content could not be read from the graph,  *)
(* or the edit brings an earlier chunk back.                               *)
EmbeddingsFollowEdits ==
    (NothingReverted /\ AllIdle /\ failures = 0 /\ crashes = 0 /\ AnsweredInOrder) =>
        \A u \in Users, k \in Keys :
            HasContent(nodes[u][k]) =>
                \/ nodes[u][k].embeddings = nodes[u][k].content
                \/ TypedCells /\ <<u, k>> \in skipped
=============================================================================
