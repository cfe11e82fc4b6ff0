--------------------------- MODULE CrossFileLinks ---------------------------
(***************************************************************************)
(* The LINKS_TO relationships of one user's graph and one source.  When    *)
(* the embedding of a chunk has been stored, handle_event                  *)
(* (src/graph/consumer.rs) asks the graph for the chunks of the files that *)
(* the chunk's content refers to, and for the chunks whose content         *)
(* mentions the chunk's own file, and links them: whichever of two files   *)
(* comes last is to find the other.  Answers come late, again or never,    *)
(* several tasks handle them at once, and chunks are stored, edited and    *)
(* deleted in between.                                                     *)
(*                                                                         *)
(* A reference is known by the name that is left of its path without       *)
(* directories and the last suffix, and finds every chunk whose id has     *)
(* that name before a dot or a bar; a file is known by its stem, cut the   *)
(* same way.  Both may be empty, as of ".gitignore".  The loss of a cached *)
(* content to other files is in EmbeddingCallback, here another failed     *)
(* lookup.  The call of fast-fetcher that ends a chunk's handling writes   *)
(* nothing.                                                                *)
(***************************************************************************)
EXTENDS Integers, FiniteSets, Sequences

CONSTANTS
    Keys,        \* composite ids of chunks
    Events,      \* sequences of keys: the chunks a message may be about
    Stem,        \* key -> the stem of its file, None if it is empty
    Named,       \* pairs <<name, key>>: the id contains "|name.", "/name.", "|name|" or "/name|"
    Contents,
    References,  \* pairs <<content, name>>: a link pattern of its language matches
    Mentions,    \* pairs <<content, stem>>: the content contains the stem
    Callbacks,   \* tasks that may handle answers at the same time
    None,
    Bare,        \* a node with nothing but its id
    TypedCells,  \* whether FalkorDB wraps the cells of its replies
    MaxStores,   \* bound: chunks stored
    MaxAnswers,  \* bound: answers delivered
    MaxDeletes,  \* bound: chunks deleted
    MaxFaults    \* bound: failed calls

(* What a pattern captures is part of the content, and a file's stem part  *)
(* of the ids of its chunks.                                               *)
ASSUME LinksAssumption ==
    /\ Events \subseteq Seq(Keys) \ {<<>>}
    /\ References \subseteq Mentions
    /\ \A k \in Keys : Stem[k] # None => <<Stem[k], k>> \in Named
    /\ None \notin Contents /\ Bare \notin Contents /\ Bare # None
    /\ MaxStores \in Nat /\ MaxAnswers \in Nat /\ MaxDeletes \in Nat /\ MaxFaults \in Nat

VARIABLES
    nodes,     \* key -> the content of its node, or Bare, or None
    cache,     \* key -> content cached, or None
    storing,   \* key -> the content an ingest is about to store, or None
    sent,      \* keys of chunks sent to the embeddings service
    links,     \* LINKS_TO relationships
    cb,        \* per callback task: its step, chunk, content, names and keys left
    stores, answers, deletes, failures,
    handled,   \* history: keys whose stored content has been handled without fail
    ever,      \* history: pairs <<key, content>> of what was ever to be stored
    whole      \* history: callbacks that work on what is stored, and have not failed

graphVars == <<nodes, links>>
counters == <<stores, answers, deletes, failures>>
ingestVars == <<storing, ever, sent>>
vars == <<graphVars, ingestVars, cache, cb, counters, handled, whole>>

Names == {n[1] : n \in Named}
Kinds == {"forward", "reverse"}
Link(a, b, kind) == [source |-> a, target |-> b, kind |-> kind]

Task(pc, key, content, refs, rest) ==
    [pc |-> pc, key |-> key, content |-> content, refs |-> refs, rest |-> rest]
Idle == Task("idle", None, None, {}, <<>>)

Stored(k) == nodes[k] \notin {None, Bare}

Init ==
    /\ nodes = [k \in Keys |-> None]
    /\ cache = [k \in Keys |-> None]
    /\ storing = nodes
    /\ sent = {}
    /\ links = {}
    /\ cb = [c \in Callbacks |-> Idle]
    /\ stores = 0 /\ answers = 0 /\ deletes = 0 /\ failures = 0
    /\ handled = {}
    /\ ever = {}
    /\ whole = {}

-----------------------------------------------------------------------------
(* Ingest.                                                                 *)

(* Chunk k's content goes to the cache, ... *)
CacheChunk(k, content) ==
    /\ storing[k] = None
    /\ stores < MaxStores
    /\ stores' = stores + 1
    /\ storing' = [storing EXCEPT ![k] = content]
    /\ cache' = [cache EXCEPT ![k] = content]
    /\ ever' = ever \cup {<<k, content>>}
    /\ UNCHANGED <<graphVars, sent, cb, answers, deletes, failures, handled, whole>>

(* ... then to its node, and the chunk to the embeddings service. *)
StoreChunk(k) ==
    /\ storing[k] # None
    /\ storing' = [storing EXCEPT ![k] = None]
    /\ nodes' = [nodes EXCEPT ![k] = storing[k]]
    /\ sent' = sent \cup {k}
    /\ handled' = handled \ {k}
    /\ whole' = {c \in whole : cb[c].key # k}
    /\ UNCHANGED <<cache, links, cb, counters, ever>>

(* DETACH DELETE of an orphan or with its file. *)
DeleteChunk(k) ==
    /\ nodes[k] # None
    /\ deletes < MaxDeletes
    /\ deletes' = deletes + 1
    /\ nodes' = [nodes EXCEPT ![k] = None]
    /\ links' = {l \in links : l.source # k /\ l.target # k}
    /\ handled' = handled \ {k}
    /\ whole' = {c \in whole : cb[c].key # k}
    /\ UNCHANGED <<ingestVars, cache, cb, stores, answers, failures>>

-----------------------------------------------------------------------------
(* The handling of an answer.                                              *)

(* On to the next chunk of the event, or to the end of the task. *)
Proceed(c) ==
    /\ cb' = [cb EXCEPT ![c] =
                 IF @.rest = <<>> THEN Idle
                 ELSE Task("lookup", Head(@.rest), None, {}, Tail(@.rest))]
    /\ whole' = whole \ {c}

Fails(c) ==
    /\ failures < MaxFaults
    /\ failures' = failures + 1

Answer(c, e) ==
    /\ cb[c].pc = "idle"
    /\ answers < MaxAnswers
    /\ \A i \in DOMAIN e : e[i] \in sent
    /\ answers' = answers + 1
    /\ cb' = [cb EXCEPT ![c] = Task("lookup", Head(e), None, {}, Tail(e))]
    /\ UNCHANGED <<graphVars, ingestVars, cache, stores, deletes, failures, handled, whole>>

Found(k) ==
    IF cache[k] # None THEN cache[k]
    ELSE IF TypedCells \/ ~Stored(k) THEN None ELSE nodes[k]

(* get_chunk_content: the cache, else the node; a chunk whose content is   *)
(* not found is skipped.                                                   *)
LookUp(c) ==
    LET k == cb[c].key
        content == Found(k)
    IN  /\ cb[c].pc = "lookup"
        /\ \/ /\ content # None
              /\ cb' = [cb EXCEPT ![c] = Task("update", k, content, {}, @.rest)]
              /\ whole' = IF content = nodes[k] THEN whole \cup {c} ELSE whole
              /\ UNCHANGED failures
           \/ content = None /\ Proceed(c) /\ UNCHANGED failures
           \/ Fails(c) /\ Proceed(c)
        /\ UNCHANGED <<graphVars, ingestVars, cache, stores, answers, deletes, handled>>

RefsOf_Raw(content) == {r \in References : r[1] = content}
RefsOf(content) == {name \in Names : <<content, name>> \in References}

(* update_chunk_embedding, and the eviction when it has succeeded; a       *)
(* failure skips the links of the chunk.                                   *)
Update(c) ==
    /\ cb[c].pc = "update"
    /\ \/ /\ cb' = [cb EXCEPT ![c] =
                       Task(IF @.rest = <<>> THEN "link" ELSE "next",
                            @.key, @.content, RefsOf(@.content), @.rest)]
          /\ cache' = [cache EXCEPT ![cb[c].key] = None]
          /\ UNCHANGED <<failures, whole>>
       \/ Fails(c) /\ Proceed(c) /\ UNCHANGED cache
    /\ UNCHANGED <<graphVars, ingestVars, stores, answers, deletes, handled>>

(* MATCH (a {id}) MERGE (b {id}) MERGE (a)-[:NEXT_CHUNK]->(b): a next      *)
(* chunk that is not there any more becomes a bare node.                   *)
LinkNext(c) ==
    /\ cb[c].pc = "next"
    /\ cb' = [cb EXCEPT ![c] = Task("link", @.key, @.content, @.refs, @.rest)]
    /\ \/ /\ nodes' = IF nodes[cb[c].key] = None THEN nodes
                       ELSE [nodes EXCEPT ![Head(cb[c].rest)] = IF @ = None THEN Bare ELSE @]
          /\ UNCHANGED failures
       \/ Fails(c) /\ UNCHANGED nodes
    /\ UNCHANGED <<links, ingestVars, cache, stores, answers, deletes, handled, whole>>

(* MATCH (a {id}) MATCH (b) WHERE b.source_id is the event's, b.id has the *)
(* name AND a.id <> b.id: the chunks of every such file in the graph by    *)
(* now.  A bare node has no source_id.                                     *)
ForwardHits_AnySource(a, name) ==
    IF nodes[a] = None THEN {}
    ELSE {b \in Keys : nodes[b] # None /\ <<name, b>> \in Named /\ b # a}
ForwardHits(a, name) ==
    IF nodes[a] = None THEN {}
    ELSE {b \in Keys : Stored(b) /\ <<name, b>> \in Named /\ b # a}

LinkForward(c) ==
    /\ cb[c].pc = "link"
    /\ \E name \in cb[c].refs :
          /\ cb' = [cb EXCEPT ![c] =
                       Task("link", @.key, @.content, @.refs \ {name}, @.rest)]
          /\ \/ /\ links' = links \cup
                       {Link(cb[c].key, b, "forward") : b \in ForwardHits(cb[c].key, name)}
                /\ UNCHANGED <<failures, whole>>
             \/ Fails(c) /\ whole' = whole \ {c} /\ UNCHANGED links
    /\ UNCHANGED <<nodes, ingestVars, cache, stores, answers, deletes, handled>>

(* if !chunk_filename.is_empty(): every content contains the empty stem. *)
SearchesBack_Always(k) == TRUE
SearchesBack(k) == Stem[k] # None
Contains(content, stem) == stem = None \/ <<content, stem>> \in Mentions

(* MATCH (b {id}) MATCH (a) WHERE a.content CONTAINS the stem. *)
ReverseHits_Handled(b) ==
    IF nodes[b] = None THEN {}
    ELSE {a \in handled : a # b /\ Contains(nodes[a], Stem[b])}
ReverseHits(b) ==
    IF nodes[b] = None THEN {}
    ELSE {a \in Keys : Stored(a) /\ a # b /\ Contains(nodes[a], Stem[b])}

LinkReverse(c) ==
    LET k == cb[c].key
    IN  /\ cb[c].pc = "link"
        /\ cb[c].refs = {}
        /\ \/ /\ links' = IF SearchesBack(k)
                          THEN links \cup {Link(a, k, "reverse") : a \in ReverseHits(k)}
                          ELSE links
              /\ handled' = IF c \in whole THEN handled \cup {k} ELSE handled
              /\ UNCHANGED failures
           \/ SearchesBack(k) /\ Fails(c) /\ UNCHANGED <<links, handled>>
        /\ Proceed(c)
        /\ UNCHANGED <<nodes, ingestVars, cache, stores, answers, deletes>>

CallbackStep(c) ==
    LookUp(c) \/ Update(c) \/ LinkNext(c) \/ LinkForward(c) \/ LinkReverse(c)

Next ==
    \/ \E k \in Keys, content \in Contents : CacheChunk(k, content)
    \/ \E k \in Keys : StoreChunk(k) \/ DeleteChunk(k)
    \/ \E c \in Callbacks, e \in Events : Answer(c, e)
    \/ \E c \in Callbacks : CallbackStep(c)

Spec == Init /\ [][Next]_vars
-----------------------------------------------------------------------------
(* Properties.                                                             *)

PCs == {"idle", "lookup", "update", "next", "link"}
Callback ==
    [pc : PCs, key : Keys \cup {None}, content : Contents \cup {None}, refs : SUBSET Names,
     rest : Seq(Keys)]
Relationship == [source : Keys, target : Keys, kind : Kinds]

TypeOK ==
    /\ nodes \in [Keys -> Contents \cup {None, Bare}]
    /\ cache \in [Keys -> Contents \cup {None}]
    /\ storing \in [Keys -> Contents \cup {None}]
    /\ sent \in SUBSET Keys
    /\ links \in SUBSET Relationship
    /\ cb \in [Callbacks -> Callback]
    /\ \A c \in Callbacks : /\ cb[c].pc # "idle" => cb[c].key \in Keys
                            /\ cb[c].pc = "next" => cb[c].rest # <<>>
    /\ stores \in Nat /\ answers \in Nat /\ deletes \in Nat /\ failures \in Nat
    /\ handled \in SUBSET Keys
    /\ ever \in SUBSET (Keys \X Contents)
    /\ whole \in SUBSET Callbacks

Linked(a, b) == \E kind \in Kinds : Link(a, b, kind) \in links

(* The comment of the linking: "Works bi-directionally to handle race      *)
(* conditions (file A before file B)".  Once the stored contents of two    *)
(* chunks have both been handled without a failed call, a chunk whose      *)
(* content refers to the other's file is linked to it, in whatever order   *)
(* or overlap with each other, and with what was stored and deleted in the *)
(* meantime, the two are handled; if the reference gives the file's whole  *)
(* stem, and that is not empty, for only that is searched for in reverse.  *)
HandledAreLinked ==
    \A a, b \in handled :
        (a # b /\ Stem[b] # None /\ <<nodes[a], Stem[b]>> \in References) => Linked(a, b)

(* A link leads from a chunk for which a content was once to be stored     *)
(* that refers to a name the target's id contains, or that has the         *)
(* target's stem, which is not empty, in its text; whatever content a late *)
(* answer found in the cache.                                              *)
LinksAreMentioned ==
    \A l \in links : \E content \in Contents :
        /\ <<l.source, content>> \in ever
        /\ IF l.kind = "forward" THEN \E name \in RefsOf(content) : <<name, l.target>> \in Named
           ELSE Stem[l.target] # None /\ <<content, Stem[l.target]>> \in Mentions

(* NEXT_CHUNK brings a deleted chunk back as a bare node, and the late     *)
(* answer for it that follows in the same event links that node; but what  *)
(* it is linked to is always a stored chunk, and no link has an end that   *)
(* is not in the graph.                                                    *)
LinksFindStored ==
    \A l \in links :
        /\ nodes[l.source] # None /\ nodes[l.target] # None
        /\ Stored(IF l.kind = "forward" THEN l.target ELSE l.source)
=============================================================================
