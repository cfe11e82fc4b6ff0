# repo-uni-proc in TLA+

`repo-uni-proc` is a Rust service. It receives the files of a source (a
repository, a document, a web site), cuts each into chunks, keeps a record of
the chunks in Postgres and the chunks themselves in a FalkorDB graph per user,
sends the changed ones to an embeddings service over Kafka, and writes the
vectors that come back to the graph. This directory models that service, checks
the models with TLC and proves theorems about them with TLAPS.

Paths below are relative to the repository's inner `src/` unless they begin
with `docs/` or `api/`.

## 1. The system

| part | state it keeps | operations | talks to |
|---|---|---|---|
| Kafka consumer (`graph/consumer.rs`) | subscription, offsets (in the broker) | `consume`, `handle_event` | spawns one tokio task per message and does not wait for it |
| `UnifiedProcessor` (`core/orchestrator.rs`) | none across events but the cache | `process_file`, `store_and_publish_chunks`, `extract_and_store_relationships`, `store_file_metadata`, `delete_file`, `get_chunk_content`, `trigger_graph_sync`, `get_processing_status` | Postgres, FalkorDB, publisher, cache, by awaited calls |
| chunk cache (`core/orchestrator.rs`, `graph/consumer.rs`) | `Mutex<HashMap>` id to content, with a limit | insert and evict at ingest, look up and remove at an answer | shared by all tasks |
| Postgres (`infra/storage.rs`) | `chunk_snapshot`, `file_metadata`, `jobs` | diff reads, tombstones, one transaction for a file's rows, upserts, job records, deletion of a source | shared by all users of a source |
| FalkorDB (`infra/storage.rs`) | one graph per user: `Vector_Chunk`, entity, page and repository nodes, edges | MERGE and MATCH queries, path search | each query atomic on its own, none spans two |
| chunk publisher (`infra/events/producer.rs`) | a producer, or none | `publish_chunks`: three attempts, each of two tries, then a dead letter | topic `chunks.raw` |
| embedding callback (`graph/consumer.rs`) | none | an `EMBEDDING_GENERATED` event: look up, set the vector, evict, link | the same graph and cache as ingest |
| extractors (`graph/extractors/`, `processors/symbol.rs`, `processors/graph.rs`) | none | links between the chunks of a batch | called by `process_file` |
| chunk identity (`core/chunking/types.rs`) | none | ids, keys and hashes | everything above |
| chunkers (`core/chunking/hybrid.rs`, `processors/chunking.rs`) | none | cut a text into chunks | called by `process_file` |
| `GraphSync` (`infra/storage.rs`) | none | rebuild of a source's graph | Postgres rows, FalkorDB |
| rate limiter (`infra/middleware/rate_limiting.rs`) | request times per client and path | `check_rate_limit` | HTTP layer |
| authentication, zero trust, headers (`infra/middleware/`) | none or static | request filters | HTTP layer |
| HTTP routes (`core/routes.rs`) | none | analyze, batch, metrics, sync, status | the processor |
| startup (`api/index.rs`, `core/config.rs`) | configuration | connect, start the consumer, serve | all of the above |
| analyzer, metrics, event types, document parser | none | pure functions and records | |

### What is hard about it

* *No transaction spans the stores.* An ingest writes rows (committed), then the
  cache, then nodes one at a time, then edges, then messages, then the metadata
  row. A crash, a failed call or another task can come between any two.
* *Two diffs decide what is written, over different keys and rows.* The first
  compares by chunk key with every row of the file, tombstoned ones included,
  and decides what is deleted and what is sent. The second compares by hash
  with the live rows and decides what is stored. They need not agree.
* *Nearly every error is logged and dropped*, so the task goes on with a store
  that is behind the record.
* *Tasks are not ordered.* Messages of one file run at the same time as each
  other, and as the answers to earlier messages.
* *Rows are shared by users, graphs are not.*
* *Answers name a chunk but no version*, and may be late, repeated, reordered
  or missing; the cache entry they rely on may be gone.
* *MERGE creates what it does not find*: a link can bring a node into being.
* *Relationships are computed from what was read and written one by one*, next
  to edits and deletions of the files they join.
* *Offsets are stored when a message is handed out and committed by another
  thread*, which knows nothing of the loop and the tasks.
* *Two loops retry one publish*, and a send reported as failed may have arrived.
* *One call has no timeout*: an answer's task waits for fast-fetcher after every
  chunk.
* *Sizes are bytes here and characters there*, and a JSON object comes back from
  its parser in another order.

### What makes each part correct

* Ingest: at rest the graph is the last version, for as long as events of a
  file come one at a time; what the record says is what the graph holds;
  whatever goes wrong, what is left behind can be found again; a user's graph
  holds that user's files only; every task ends.
* Embeddings: a vector on a node comes from a content sent for this user under
  this key, and in the orderly case from the node's own content, unless the
  chunk's own answer was skipped; what is sent is in the cache or on its node;
  every answer is worked off while fast-fetcher answers.
* Cache: bounded, and never the only place of a content that is still needed.
* Publisher: every batch is delivered or given to the dead letters.
* Consumer: what is committed has a task, but for the message in hand, so a
  restart loses one at most; none is passed over; a task runs only after the
  whole start.
* Chunkers: chunks cover the text, or the parsed value, in order, within the
  limit, the overlap and the bytes of a character; definitions and the code
  between them make up the file.
* Relationships: what GraphSync and the batches write joins what it says it
  joins, in whatever order the files came, and brings no deleted chunk back;
  a function that one chunk defines is found.
* Cross-file links: whichever of two files comes last is linked to the other, if
  it is referred to by its whole stem; a link is mentioned and finds a stored
  chunk.
* Rate limiter: at most the limit of requests in any window.
* HTTP layers: nothing protected is reached without passing every layer; an
  answer says what was done; a file counts for the user it was first processed
  for until it is deleted.

## 2. Modules

| module | what it is |
|---|---|
| `IngestPipeline` | `process_file` and `delete_file` as tasks over Postgres, FalkorDB, cache and topic, with failed calls and restarts |
| `FileIndex` | the abstract specification: an index of one file that moves from what it was to what was asked for |
| `IngestRefinement` | the refinement mapping from `IngestPipeline` to `FileIndex` |
| `EmbeddingCallback` | extends `IngestPipeline` with the tasks that handle the answers of the embeddings service, on the same graph and cache |
| `CrossFileLinks` | the `LINKS_TO` relationships that end the handling of an answer: several tasks, chunks stored, edited and deleted meanwhile |
| `CodeRelations` | pure operators: the links of `HierarchicalExtractor`, `CodeExtractor` and `SymbolIndex` over a batch, a source or a graph |
| `SourceGraph` | extends `CodeRelations`: several files of a source, the relationships of their batches, `GraphSync` and deletions, call by call |
| `HybridChunker` | one file from its text to its AST, JSON and text chunks, a word or piece per step |
| `RateLimiter` | the clock and the counters of the rate limiter |
| `HttpGateway` | extends `RateLimiter`: a request through every layer to its handler, and the metadata table the handlers share with the consumer |
| `ChunkPublisher` | the two retry loops of a publish and the dead letter |
| `Delivery` | extends `ChunkPublisher`: the start of the process, the consumer and its offsets, a task per message, restarts and reassignments |
| `MCIngest`, `MCEmbedding`, `MCLinks`, `MCSourceGraph`, `MCChunker`, `MCHttp`, `MCDelivery` | instances for TLC |
| `IngestPipelineProofs` | theorems about any number of tasks and users, and the lemmas about the tables and the graph |
| `IngestSequentialProofs` | extends it and `IngestRefinement`: what holds while the events of a file come one at a time, and the refinement of `FileIndex` |
| `EmbeddingCallbackProofs`, `CrossFileLinksProofs`, `SourceGraphProofs`, `HybridChunkerProofs` | theorems about their modules |
| `HttpGatewayProofs`, `DeliveryProofs` | theorems about `RateLimiter` and `ChunkPublisher`, then about what composes them |

`Delivery` says which messages get a task and when; `IngestPipeline` and
`EmbeddingCallback` say what such a task does to the stores, for one file;
`SourceGraph` and `CrossFileLinks` say what several files' tasks do to each
other; `HybridChunker` is where the chunks of a version come from, and
`HttpGateway` the other way in.

### From the code to `IngestPipeline`

One file of one source is modelled. Row ids, chunk keys, node ids and cache
entries all carry the source and the path, and the queries of this path filter
on them, so two files share the cache's limit, which is the switch
`CacheCrowded` (`CrowdOut` and the eviction in `CacheChunks` let other files'
chunks push this file's out at any time), and the relationships between files,
which are `SourceGraph` and `CrossFileLinks`.

A chunk is a key and a hash. `Versions` is the set of chunk lists that the
contents of the file may yield; how they come about is `HybridChunker`. The
content of a chunk is named by its hash, which is sound as far as the hash
distinguishes contents. A key in `RangeKeys` belongs to a raw chunk, whose id and key come
from its byte range; any other belongs to a definition, whose key is its type
and name and whose id also depends on its hash (`IdOf`).

| state | code |
|---|---|
| `chunk_snapshot`, `file_metadata` | the two tables; a row is its hash and its tombstone flag, the metadata row its owner |
| `nodes`, `edges` | per user, the `Vector_Chunk` nodes by key (content, vector) and the `NEXT_CHUNK` edges |
| `cache` | `chunk_content_cache` |
| `chunks_raw` | the topic, in the order of the appends |
| `pc`, `job`, `work` | per task: the await it is at, its event, its locals |
| `delivered`, `troubled` | history, read by properties only |
| `failures`, `crashes` | counters of the bounds |

One action is the code between two awaits, because that is where tokio tasks
interleave. `Deliver` is `consume` handing a message to a new task; `FirstDiff`,
`MarkDeleted`, `DeleteOrphans` are the body of `process_file`; `SecondDiff`,
`Replace`, `CacheChunks`, `StoreNode`, `Publish` that of
`store_and_publish_chunks`; `StoreLink` is the loop of
`extract_and_store_relationships`; `StoreMetadata` its last call; `DeleteNodes`,
`DeleteMetadata` are `delete_file`. `Crash` is a restart; a message that comes
back afterwards is one more `Deliver`. A Rust `HashMap` filled from an
unordered SELECT keeps an arbitrary one of the rows with equal keys: the diffs
choose any such map (`SnapshotMaps`, `ExistingMaps`).

`Fails(t, call)` lets the calls that `Faults` names fail, up to `MaxFaults`
times. Where the code logs an error and goes on, a call that took effect and
lost its reply is its success; where it stops (`DeleteNodes`), both are there.

### From the code to `EmbeddingCallback`

`Answer` delivers the answer to any message sent so far, any number of times
(up to `MaxAnswers`): answers may be late, repeated, reordered or missing. The
steps are the awaits of the handler, chunk by chunk: `LookInCache`,
`LookInGraph`, `UpdateEmbedding`, `Evict`, `LinkNext`, `Fetch` (the call of
fast-fetcher, which may never return). An embedding is named by the hash of the
content it was computed from. `answered` and `skipped` are history: the messages
answered, and the chunks whose last answer found no content.

`TypedCells` stands for the form of FalkorDB's `--compact` replies.
`execute_query` asks for them, and their cells are pairs of a type and a value;
`parse_graphdb_response` reads a cell that is a list as null. With
`TypedCells = TRUE`, which is what the code asks for, the fallback lookup of a
chunk's content finds nothing. The server is outside the repository, so both
values are modelled and the theorems hold for both. `embedding_lifecycle` and
`cross_file_links` have wrapped cells, `concurrent_users` plain ones, and
`source_graph` either.

### From the code to `CodeRelations` and `SourceGraph`

`CodeRelations` has one operator per kind of link. A chunk's `sig` is what the
parsers find in its content: the functions and classes it defines, in order and
with repetitions, and the names it calls, instantiates, inherits from,
implements, imports, uses as types or decorators. What is translated is the
indices, who overwrites whom in them (`insert` keeps the last), when a name is
ambiguous, which of several lookups is tried first, and which chunks carry
`ast_data` at all. `Denotes` is the test whether an import's text fits a path.

In `SourceGraph`, `ProcessFile` is an ingest by what it comes to without
failures (the diffs are those of `IngestPipeline`), ending with the batch's
links in `relating`; `StoreRelationship` writes them one call at a time.
`DeleteFile` is `delete_file`; `SyncRead` is the query and the resolution of
`trigger_relationship_building`, `SyncWrite` one of its MERGE calls. Another
action can come between any two. A MERGE with a missing end creates it: `Bare`.
`typed` and `uuid` are two facts about the deployment, chosen in `Init`: the form
of the replies (see `TypedCells` above), and whether a source's id parses as a
UUID, which `GraphSync` takes it for. `adrift` and `fresh` are history.

### From the code to `CrossFileLinks`

`CacheChunk`, `StoreChunk` and `DeleteChunk` are the ingest's effects on a chunk.
`Answer` starts a callback task for the chunks of an event; `LookUp`, `Update`
(with the eviction), `LinkNext` (`NEXT_CHUNK`, whose MERGE makes a deleted chunk
a bare node), `LinkForward` (a query per reference) and `LinkReverse` are the
awaits of the handler for each of them.

A content is what it refers to (`References`: a link pattern of its language
matches) and what it mentions (`Mentions`: the stem is in its text, which is all
the reverse query asks). A reference is known by its name, the path without
directories and the last suffix. The forward query finds every chunk whose id has
that name before a dot or a bar (`Named`), so that `button` also finds
`button.test.tsx`; the reverse query asks for the file's own `Stem`, cut at the
last dot, and is not made if that is empty, as it is for `.gitignore`.

`handled`, `ever` and `whole` are history: keys whose stored content has been
handled without a failed call, pairs that were to be stored, and tasks that have
worked on the stored content without a failure.

### From the code to `HybridChunker`

A document is a sequence of words with their byte ranges, the ends of their
characters and what each of them ends. `CutDefinition` and `CutRest` are the loop
of `extract_ast_chunks` and what follows it; `AddEntry` and `EndJson` are
`chunk_json`; `AddPiece`, `AddWord`, `CutWord`, `EndPiece`, `EndText` the nested
loops of `chunk_text` over paragraphs, sentences, words and the blocks of a word
that does not fit. `Open` and `Flushed` are what a flush leaves open and closes,
with the overlap. Every size is in bytes but that of `Blocks`, which counts
characters. The entries of a JSON value are those of serde_json's map
(`Parsed`): in the order of their keys, and the last of equal ones. Words differ
from each other: the ids of chunks, which come from the place a text is first
found at, are therefore not modelled (see section 5).

### From the code to `RateLimiter` and `HttpGateway`

`ReadClock` is the reading of the wall clock, outside the lock, `Count` the code
under the lock; `Tick` sets the clock anywhere, also back. The counter of a client and path
is the set of requests whose times are kept.

A request is at one `pc` after another: `Arrive` with the zero-trust age test,
`CheckCredential`, `AuthAnswer` or `AuthTimeout`, `StartsLimit` (its
`ReadClock`), `PassesLimit` (its `Count`), then its handler. `Processes` is one
`process_file` of an upload, by the row of `file_metadata` it registers, which may
fail; a batch does so file by file, another request or `DeleteFile` (from Kafka)
in between. The age of a request is what it was on arrival. The user of an
upload is named in its body, and the user of a status is that of its `x-user-id`
header: `AnswersStatus` counts the files of that user, who need not be the one
`CheckCredential` has established.

### From the code to `ChunkPublisher` and `Delivery`

`Send` is one try of `publish_with_retry`, which succeeds, fails, or fails after
the broker has taken the batch; `SendEnvelope` the dead letter, whose own result
is ignored; `NextAttempt` the outer loop. `Delivery` adds the start
(`Configure`, `CheckKafka`, `OpenPools`, `CreateProducer`, `SpawnConsumer`,
`Serve`, in the order of `main`), `Subscribe`, `HandOut` (the stream returns the
next message of a partition of either topic, and its offset counts as stored),
`Dispatch` (the loop gives it to a task of its own, or drops it when it is no
JSON), `AutoCommit` (the client's thread, at any time, also between those two),
`Reassign` and `Crash`. `held` is the message handed out and not dispatched.
`FetcherAnswers` ends the task of an answer, if it ever does. `env` is what the
environment provides; without Kafka the start goes on without a producer.

### Slips

A definition named `Op_Slip` is `Op` with one plausible slip: a dropped
condition, a swapped order, an off-by-one, the wrong owner. No action uses it.
Each property of a passing run has one that TLC finds when it replaces `Op`,
which shows that the property and its bounds would notice that bug.

## 3. Runs

Passing runs:

| run | instance | shows | distinct states |
|---|---|---|---|
| `ingest_sequential` | one task, four events over three versions, crowded cache | `ImplementsFileIndex`: the ingest path implements `FileIndex`; `SnapshotMatchesRequest`: its live rows are the last version; `TypeOK` | 12 957 |
| `ingest_faults` | one task, three events with deletions, two failed calls of any kind but the row transaction, one crash, fair | `NodesTracked`: every node is on record; `OrphansPurged`: a run without failures removes what failed ones left; `NothingStale`: no node or content of an earlier version survives; `DeletionEmptiesGraph`; `EveryEventHandled` | 88 625 |
| `concurrent_users` | two users, two tasks, one callback task, two events and answers, plain cells | `NodesTracked`, `GraphHoldsOwnRequests`, `EmbeddingsWereSent` under all interleavings | 221 591 |
| `embedding_lifecycle` | one task of each kind, deletions, failed lookups, updates, links and publishes, a crash, crowded cache, wrapped cells, fair but for fast-fetcher | `SentContentStored`: what is sent is in the cache or on its node; `EmbeddingsFollowEdits`: with answers in order and no edit that reverts an earlier one, every vector is that of its content, unless the chunk's own answer was skipped; `EveryAnswerHandled`; `EmbTypeOK` | 82 006 |
| `source_graph` | two files, one imports and calls the other; three events, one `GraphSync`, one failed call; both forms of replies and of source ids | `StructureWithinFile`: no edge of a file's structure joins two files; `BareNodesWereDeleted`: a node without content was deleted while a link to it waited; `ImportsRelated`: imports are related whichever file came first; `TypeOK` | 858 639 |
| `cross_file_links` | two chunks of `a.ts`, one of `a.test.ts`, one of `.gitignore`; two callback tasks, three stores, two answers of one chunk or two, a deletion, a failed call, wrapped cells | `HandledAreLinked`: whichever comes last finds the other, if the reference is its whole stem; `LinksAreMentioned`: no link is invented; `LinksFindStored`: what a search found is stored, and no link outlives an end; `TypeOK` | 3 128 917 |
| `chunking` | every small text, of one-byte or four-byte characters, JSON array and object, with keys in any order and again, and code file | `ChunkSizeBounded`: the limit and the overlap, or four times the limit for a block; `WordsKept`: no word or parsed entry is lost or out of order; `AstPartition`: definitions and loose code make up the file; `TypeOK` | 120 507 |
| `http` | two requests of any kind, one deletion from Kafka, a clock that may be set back, fair | `HandledWereCleared`: no layer is passed by; `SlidingWindow`; `CountedStayTheirs`: a file that a status counts was processed for the user the header names, and stays that user's until it is deleted; `SuccessMeansRegistered`; `RequestsAnswered`; `TypeOK` | 329 028 |
| `delivery` | two partitions with two messages between them, three environments, four tasks, one restart or reassignment, fair but for fast-fetcher | `CommittedWereTaken`: a restart loses one message at most, the one in hand; `TasksHaveProcessor`, `RetriesBounded`, `ResultIsTrue`, `MessagesTaken`, `TasksEnd`, `TypeOK` | 239 276 |

Runs that TLC refutes, each of one property taken from the code's own words:

| run | property | what happens |
|---|---|---|
| `readd_after_delete` | `EveryChunkStored` | ingest, delete, ingest again: `delete_file` leaves the rows live, the second diff finds every hash on record, the graph stays empty |
| `chain_after_edit` | `ReadingOrder` | an edit: only the changed chunks are chained and no earlier edge goes, so a chunk has two next ones |
| `calls_unrelated` | `CallsRelated` | the file chunk keeps the names of its definitions, every function is indexed twice and ambiguous, and `GraphSync` relates no caller to it |

Other differences the models showed, which limit the properties above rather
than having a run of their own. `EveryChunkStored` also fails

* after a crash between the row transaction and the nodes: the redelivered event
  has nothing to do;
* when two versions of a file are worked on at the same time: one works from rows
  the other is about to change;
* when a content moves to another key (`Versions` of `<<f:f1>>` and
  `<<f:f2, g:f1>>`), or two chunks of one version have equal content and an
  edit is reverted: the second diff is keyed by hash;
* when two definitions of a file have one type and name, as two methods `new` do
  (`<<f:f1, f:f2>>`), or two raw chunks that the file does not hold literally
  have one length: they share one node;
* when a second user ingests the source: the rows the first user's ingest left
  make every chunk unchanged.

`ImplementsFileIndex` is therefore claimed for one task, one user, no deletions,
no failures, and versions in which no content occurs under two keys.
`EmbeddingsFollowEdits` needs its conditions: a late answer for an older content
overwrites the vector of the newer one; the chunk of a reverted edit is taken for
clean and not sent again; and with wrapped cells an answer that finds the cache
empty is skipped. That happens to a chunk edited before its first answer is
handled: the first answer evicts the new content from the cache, the graph's cell
reads as null, the answer for the new version is skipped, and the node keeps the
earlier vector, although `core/orchestrator.rs:671` says that the callback will
update it. An answer that comes after its chunk's
deletion makes the link's MERGE create the node again, with its id only; so
`NodesTracked` says that nodes are on record, not that they have content, and
`LinksFindStored` that one end of a `LINKS_TO` edge is a stored chunk, the other
perhaps such a node.
`HandledAreLinked` is about references that are a file's whole stem. The two
directions of the search do not ask the same: a reference to `a` that is handled
before a chunk of `a.test.ts` comes finds nothing, and the reverse search asks for
`a.test`, or for nothing at all if the file is `.gitignore`; the other order makes
the link, and `graph/consumer.rs:369` says that both directions handle the race.
`DeletionEmptiesGraph` needs that no store failed: a link whose end is missing
creates it without a `source_id`, and the deletion does not match it. If the
row transaction itself may fail, `NodesTracked` is lost: the task goes on to
store nodes that are on no record. In `SourceGraph`, `ImportsRelated` needs plain
cells and a source id that is no UUID; with a UUID every chunk gets that one id
and the maps built from it collapse. Late requests, which read the clock first
and are counted after one with a later time, are left out of `SlidingWindow`: that
one has dropped the oldest of their window. `CountedStayTheirs` speaks of the user
in the `x-user-id` header, as the routes do; that this is the authenticated user is
nowhere checked and nowhere claimed. Blocks of a word that is too long have as many
characters as the limit, and up to four times as many bytes; and the overlap is put
before a piece after the size test, so that a chunk, even of one-byte characters, may
be longer than `max_chunk_size`.

### Bounds

* `IngestPipeline`, `EmbeddingCallback`: three keys, one that stays, one that comes
  and goes, one that is a byte range (whose id does not change with its content);
  two hashes per key that changes. Three or four events: an edit, its revert or
  its successor, and one more, so that rows go through live, tombstoned and
  revived; two where two tasks interleave, which already has every order of two
  diffs and writes. `BatchSize` 1 or 2 in place of 10, so that a version takes two
  messages or one message has two chunks (which a `NEXT_CHUNK` link of an answer
  needs). Two failures and one crash: one failure to leave something behind and
  one in the run that should clear it up. Two answers: each message once, or one
  twice.
* `SourceGraph`: a file with a function and one that imports the file and calls
  the function, with an edit before its definition and an edit that defines it
  twice; three events give each order of the two files and an edit or a deletion
  in between; one `GraphSync`, whose links outlive what they were read from.
* `CrossFileLinks`: two chunks of one file, which one event may be about, so that a
  `NEXT_CHUNK` link can bring a deleted one back before its own answer is handled;
  one chunk whose id has the first file's name without having its stem; one with
  no stem. Each may refer to the first file or the last, name the first without a
  reference, or be edited from one to the other. Three stores, two answers and a
  deletion let a chunk change or go while both answers are worked on. Larger values
  add tasks, not cases, and the theorems hold for any number.
* `HybridChunker`: a limit of 6 and an overlap of 4; words of 1 byte, of half a
  chunk, of more than a chunk, and of seven four-byte characters, which are two
  blocks of 24 and 4 bytes; up to four words with every kind of end, and up to six
  of fewer sizes, so that three chunks follow each other; values of up to three
  entries under any keys; up to three definitions over four words, nested or apart.
* `RateLimiter`: two requests, limits of 1 and 2, a window of 2 in clock values
  0 to 2, so that one leaves the window. A third request, to be overtaken, is
  beyond the run; the theorem has any number.
* `Delivery`: a partition of each topic; an unreadable message and then a file in
  one, or an answer in one beside an event without work in the other; a task per
  delivery and one redelivery each; two attempts of every loop in place
  of 60, 30 and 3, so that each loop goes round once and ends.

Deadlock is not checked: with the bounds used up and every task idle, the system
has nothing left to do, and waiting for messages is its normal end.

### Fairness

`FairSpec` and `EmbFairSpec` assume weak fairness of each task's next step: the
tokio runtime polls a spawned task until it ends, and each call of a store or of
the producer returns, with or without an error. It is not assumed of the call of
fast-fetcher (`Fetch`, `FetcherAnswers`), which has no timeout:
`EveryAnswerHandled` and `TasksEnd` say that a task ends or waits for it for ever.
`HttpGateway` assumes it of each request's next step of its own;
not of `AuthAnswer`: the authentication service may never answer, and the client's
timeout of 5 s ends the call. `Delivery` assumes it of the start, the
subscription, the loop over messages (one task of the runtime each) and every
task but for that call. Nothing is assumed of arrivals, commits, reassignments, crashes, failures
and the embeddings service.

## 4. Theorems

All hold for any values of the constants that satisfy the module's assumption:
`ConstantsAssumption` and `CallbackAssumption` for the ingest and its callbacks,
`LinksAssumption`, `SourceGraphAssumption` with `NodeAssumption`,
`ChunkingAssumption` with `DocumentsAssumption`, `LimiterAssumption` with
`GatewayAssumption`, and `PublisherAssumption` with `DeliveryAssumption`. They are
what the code guarantees: that what a pattern captures is part of the content,
that a chunk has room for two bytes, that words come in the order of their bytes
and characters have one to four of them, that a parsed object has each key once,
in order,
that a chunk's id says its key and its hash, that rows come back in some order
without ties, that a window and the numbers of attempts are positive, that
`"system"` is a user, the internal key a token, and the limiter's keys pairs of
user and path. What a theorem assumes beyond that is named in it, and discussed
after the table.

| theorem | says | inductive invariant |
|---|---|---|
| `SpecTypeOK` | every variable keeps its type | `TypeInv`: `TypeOK` and `TasksOK` (a running task holds an event and its index sets name chunks of that event; `TypeOK` alone says nothing of `job[t].chunks[i]`) |
| `SpecNodesTracked` | every node has a row, if the row transaction does not fail | `TrackInv`: `TypeInv`, `BatchOnRecord` (between the transaction and the last message, the batch of a task is on record), `SentOnRecord` (so is every chunk ever sent), `NodesTracked`. `RowsKept`: no step forgets a row, so what is on record for one task is not undone by another |
| `SpecGraphHoldsOwnRequests` | a user's graph holds only contents delivered for that user | `OwnInv`: `TypeInv`, `JobsDelivered` (a task's event is in the history), the property; `HistoryGrows` |
| `SpecOrphansPurged` | one task, one user: an ingest that met no trouble leaves no node of another version, whatever failed or crashed before it | `PurgeInv`: `TrackInv`, `HandlesLast` (a running task works on the last event) and `PurgedUpTo` (per place of the task: which nodes may still be orphans, and that the list to delete has them) |
| `SpecNothingStale` | one task, one user, while no call has failed and no process crashed, deletions included: the graph holds only chunks of the version last asked for | `FlowInv`: per place of the task, which live rows are left of the version before (`RowsInStep`), and which nodes the graph holds beside them (`GraphInStep`) |
| `SpecSnapshotMatchesRequest` | without failures and deletions the live rows are the version last asked for, and so the next diff starts from the truth | `QuietInv`: `FlowInv`, and that nothing has failed; `GraphComplete` adds that every live row has its node, which is what lets the second diff skip a chunk |
| `SpecImplementsFileIndex` | under the same conditions every step is a step of `FileIndex` or changes nothing a reader sees | `QuietInv`; `Init` and every action are mapped one by one |
| `SpecDeletionEmptiesGraph` | one task, any users, no failure so far: a deletion leaves its user's graph empty | `EmptyInv`: `StoredInv` (every node of the batch up to the task's place has its content, so that no link creates one) and `EmptyUpTo` |
| `EmbSpecTypeOK` | types of the composition | `EmbTypeInv`: with `AnswersOK` (a callback task holds a message of the topic) |
| `EmbSpecNodesTracked` | answers, however late, create no node that is on no record | `EmbTrackInv`, where `SentOnRecord` carries the argument: a link creates a node only for a chunk that was sent |
| `EmbSpecEmbeddingsWereSent` | a vector comes from a chunk sent for this user under this key | `EmbSentInv`; `MessagesGrow` |
| `EmbSpecSentContentStored` | an action property: what is sent is in the cache or on its node at that step, whatever answers have evicted, for plain and wrapped cells | `EmbStoredInv`: `EmbTypeInv` and `StoredInv`, which no callback step undoes (`CallbackKeepsStored`) |
| `EmbSpecEmbeddingsFollowEdits` | one ingest task, one callback task, one user, plain or wrapped cells: once the messages are answered in their order, without failures, every vector is that of its node's content, whatever the answers overlapped with, but for wrapped cells and chunks whose last answer was skipped | `FollowInv`: `ChunksInStep` (what is sent or on a row was asked for, and if it is current its node shows it or is about to), `BatchInStep` (per place of the task: which chunks of its batch are sent and which shown), `NodesSent` (every content of a node is still to be sent, or the last message naming its key has it), `NodesEmbedded` (what the answers so far have set, or passed over) |
| `SourceGraphProofs!SpecTypeOK` | the state of a source's graph keeps its type: the links of a batch, of `GraphSync` and their writes are of the kinds and places named | itself, with lemmas on the links of every kind (`BatchLinksOfFile`, `SyncLinkEnds`) |
| `SpecStructureWithinFile` | edges of a file's structure stay within one file | `StructureInv`: the same of every link that still waits to be written, read when the graph may have been another |
| `SpecBareNodesWereDeleted` | a MERGE creates a node without content only for a chunk deleted meanwhile | `EndsInv`: every end of a waiting link is there or was deleted since |
| `SpecImportsRelated` | imports are related whichever file came first | `ImportsInv`: every import of a stored file is an edge or is about to be written by `GraphSync` |
| `CrossFileLinksProofs!SpecTypeOK` | the state of the linking keeps its type | itself |
| `SpecHandledAreLinked` | any number of tasks, chunks and files: two stored contents that have both been handled without a failure are linked where one refers to the other's file by its whole stem | `LinkInv`: with `ContentsKnown` (whatever is cached, stored or worked on was to be stored), `WholeCurrent` (a task whose work is whole works on what is stored) and `WholeLinked` (it has linked its chunk to every handled chunk of the files it has asked for) |
| `SpecLinksAreMentioned`, `SpecLinksFindStored` | no link is invented by a late answer; its ends are in the graph, and the one that a search found is stored | `LinkInv` |
| `SpecChunkSizeBounded` | any document, characters of one to four bytes: a raw text chunk is longer than the limit by the overlap at most, or is a block of one word with four times the limit at most; a JSON chunk is longer only as one entry | `ChunkInv`: what is open fits (`Fits`, `JsonFits`) where a flush may come; the lemmas bound the overlap, a piece, a word and the blocks of a word that is too long |
| `SpecWordsKept` | any text, and any value in the order serde_json has its entries: the chunks hold every word or entry in its order, none is skipped at a break | `KeptInv`: closed chunks are runs of consecutive words, each going on where the one before ends or earlier (`Chain`), and the open chunk, overlap included, ends with the last word taken (`UpTo`) |
| `SpecAstPartition` | any code file: definitions, nested or not, and the loose code between them make up the file, and loose code repeats nothing | `AstInv`: the AST chunks cover the words up to `last_end` (`Covers`), loose code shares none (`Apart`) and lies before every definition to come (`LooseBefore`), which needs them sorted |
| `HybridChunkerProofs!SpecTypeOK` | types; no length is negative | `ChunkInv` and `AstInv` |
| `LimiterSpecTypeOK` | the limiter keeps its type, and what was counted has read the clock | itself |
| `LimiterSpecSlidingWindow` | any number of requests, clients and paths: no window admits more than the limit, those counted out of order aside | `WindowInv`: counters are finite, and what a counter has dropped is behind the window of some counted request (`DroppedAreBehind`), so that all that was admitted in a window is still in the counter when its last is |
| `SpecRetriesBounded`, `SpecResultIsTrue` | any numbers of attempts and retries: a batch is sent at most their product of times, an envelope stands for `Retries` failures, and the result is true to the sends | `PublisherInv`: the place in the two loops counts the sends (`Sending`, `Spent`), all of which failed |
| `HttpGatewayProofs!SpecTypeOK` | types of the gateway | `TypeInv`: with `CallsKnown` (past arrival there is a call, and auth-middleware is asked for tokens only). `Steps` sorts the steps of a request by what they do to its record |
| `HttpGatewayProofs!SpecSlidingWindow` | the limit holds in the composition, whatever other layers answer or refuse | `LimiterMoves`: every step is a step of the limiter or leaves it alone, so `Spec => LimiterSpec` and the theorem above applies |
| `SpecHandledWereCleared` | no request reaches its handler around a layer, or with another's user or share of the limit | `LayersInv`: what is known at each place of a request (no reading of the clock before the limit, the age from arrival on, the vouched user at the limit) |
| `SpecCountedStayTheirs`, `SpecSuccessMeansRegistered` | a file that a status counts was processed for the user the header names and stays that user's until it is deleted; a success is about every file of the upload | `BooksInv`: a row's user had the file processed (`RowsWritten`), each reported success is registered or erased since (`ResultsOf`), and so with answers (`AnswerOf`); `TablesGrow`: no step undoes this, as an upsert leaves a row its user |
| `DeliverySpecTypeOK`, `DeliverySpecPublishes` | types of the composition; the publisher's two properties of every batch, with crashes | `StateOK`, and `PublisherMoves`: every step is a step of `ChunkPublisher` or leaves it alone |
| `DeliverySpecCommittedWereTaken` | any partitions: of what is committed, all but the message in hand and one for each end of the process was taken | `OffsetsInv`: the same of all that was handed out or committed (`FewPending`): a hand-out takes the message in hand off the count, a crash puts it on |
| `DeliverySpecTasksHaveProcessor` | a task runs in a process to which its stores were named and whose start has come to its end | `ProcessInv`: the order of the start (`StartedInOrder`) |

What the theorems assume beyond the constants is needed, and TLC shows why:

* `"replace" \notin Faults` (`SpecNodesTracked`, `SpecOrphansPurged`): when the row
  transaction fails the task goes on to store nodes that are on no record.
* One task (all of `IngestSequentialProofs`): with two tasks for one user,
  `NothingStale`, `SnapshotMatchesRequest`, `OrphansPurged` and
  `DeletionEmptiesGraph` are all violated, since one task works from rows the
  other is about to change. The code does nothing to keep the events of a file
  apart; the theorems say what it does when they are.
* One user: with two, the rows of the one make the other's chunks unchanged, so
  `NothingStale` and `SnapshotMatchesRequest` fail. `OrphansPurged` then fails only
  once calls may fail, and `DeletionEmptiesGraph` does not fail, and is proved for
  any users.
* `Distinct`: no version has a key twice (`UniqueKeys`), and no content occurs
  under two keys (`OneKeyPerHash`). Without the first, `<<f:f1, f:f2>>` and then
  `<<f:f1>>` leaves `f2` behind. Without the second, two chunks that exchange
  their contents, or one content under two keys, are unchanged to the second
  diff, which looks at hashes alone. That a content merely moves to another key
  would do no harm to these two properties; it is excluded for simplicity.
* `Quiet` (no deletion, failure or crash; `SpecSnapshotMatchesRequest`,
  `SpecImplementsFileIndex`): see `readd_after_delete` and the list above.
* `"store" \notin Faults` and one ingest task (`EmbSpecSentContentStored`): a node
  that was not stored and a cache entry that was evicted leave no content to look
  up. The property says that the content is there; with wrapped cells the answer
  still does not read it from the node.
* One ingest task, one callback task, a producer, `UniqueKeys` and one user
  (`EmbSpecEmbeddingsFollowEdits`). With two tasks of either kind TLC finds a node
  with an older content's vector; without a producer nothing is sent, and the
  property, which is about answers, says little. Two users or a key that occurs
  twice in a version break `FollowInv` but, on small instances, not the property:
  those two are assumed for the argument's sake. The form of the cells is left
  open, deletions, redelivered versions and answers that overlap the next ingest
  are included; the property itself sets aside runs in which a call failed or the
  process stopped, answers out of order, versions that revert an edit and, with
  wrapped cells, chunks whose own answer was skipped. `embedding_lifecycle` meets
  all these hypotheses, with wrapped cells.

`WordsKept` and `TypeOK` of the chunker and the theorems on `AstPartition` and
`ChunkSizeBounded` need none of this: they hold of every document.

Every invariant and action property of the runs that are expected to pass is a
theorem, unless named here. Only model-checked are the liveness properties
`EveryEventHandled`, `EveryAnswerHandled`, `RequestsAnswered`, `MessagesTaken` and
`TasksEnd`, which are out of TLAPS's reach (liveness under fairness, `ENABLED`).

## 5. What is not modelled

* Code without a caller: the job records (`create_processing_job`,
  `update_job_status`, `get_job_status`), `delete_chunks_for_source` (three
  statements without a transaction), `get_file_metadata`, the single snapshot
  writes, entity, web page and repository nodes, `find_path`,
  `search_similar_chunks`, `get_chunks_by_source`, the optional authentication
  middleware and `commit_message`. `get_graph_status` is a stub.
* What tree-sitter and the regular expressions find in a text: external, a
  chunk's `sig` and a document's definitions.
* Ids of raw chunks, which come from the place a text is first found at
  (`core/chunking/hybrid.rs:273`), or 0 and the length where the text, put together
  with another's overlap, is not found; two such of one length get one id.
  `IngestPipeline` takes the ids as `RangeKeys` and says what equal ones do.
* The broker, Postgres, FalkorDB, the embeddings and the authentication service:
  external; a query is atomic and may fail.
* What fast-fetcher does with a chunk: its call writes nothing here, and is
  modelled as a wait that may never end.
* serde_json's parser and map: external; a value is what they make of it.
* The cache's size: its limit is the switch `CacheCrowded`, which evicts at any
  time.
* Response headers, correlation ids, the health details and the keep-alive ping.
* The analyzer, the metrics, the event records and the Python document parser,
  which the service does not call: no state depends on them.

## 6. Plan

The components of section 1 that have behaviour are modelled. What would add
most, in this order:

1. The cache with its size in place of the switch `CacheCrowded`.
2. `EmbSpecEmbeddingsFollowEdits` without `UniqueKeys` and for several users, for
   which TLC finds no counterexample; and `SpecNothingStale` and
   `SpecSnapshotMatchesRequest` for contents that move to another key, which
   `OneKeyPerHash` now excludes.
