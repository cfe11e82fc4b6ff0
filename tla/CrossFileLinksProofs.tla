------------------------ MODULE CrossFileLinksProofs ------------------------
(***************************************************************************)
(* Proofs about CrossFileLinks, for any chunks, stems, contents, callback  *)
(* tasks and bounds.                                                       *)
(***************************************************************************)
EXTENDS CrossFileLinks, TLAPS

LEMMA InitTypeOK == Init => TypeOK
BY LinksAssumption DEF Init, TypeOK, Idle, Task, Callback, PCs

CbTypeOK ==
    /\ cb \in [Callbacks -> Callback]
    /\ \A c \in Callbacks : /\ cb[c].pc # "idle" => cb[c].key \in Keys
                            /\ cb[c].pc = "next" => cb[c].rest # <<>>

LEMMA SetCallback ==
    ASSUME CbTypeOK, NEW c \in Callbacks, NEW r \in Callback,
           cb' = [cb EXCEPT ![c] = r], r.pc # "idle" => r.key \in Keys,
           r.pc = "next" => r.rest # <<>>
    PROVE  CbTypeOK'
BY DEF CbTypeOK

LEMMA IdleTyped == Idle \in Callback /\ Idle.pc = "idle"
BY DEF Idle, Task, Callback, PCs

LEMMA TaskTyped ==
    ASSUME CbTypeOK, NEW c \in Callbacks, NEW p \in PCs, NEW k \in Keys,
           NEW content \in Contents \cup {None}, NEW refs \in SUBSET Names,
           NEW rest \in Seq(Keys), p = "next" => rest # <<>>,
           cb' = [cb EXCEPT ![c] = Task(p, k, content, refs, rest)]
    PROVE  CbTypeOK'
<1>1. /\ Task(p, k, content, refs, rest) \in Callback
      /\ Task(p, k, content, refs, rest).key = k
      /\ Task(p, k, content, refs, rest).pc = p
      /\ Task(p, k, content, refs, rest).rest = rest
  BY DEF Task, Callback
<1> QED
  BY <1>1, SetCallback

LEMMA SomePCs ==
    /\ "lookup" \in PCs /\ "update" \in PCs /\ "next" \in PCs /\ "link" \in PCs
    /\ {} \in SUBSET Names
    /\ None \in Contents \cup {None}
BY DEF PCs

LEMMA ProceedTyped ==
    ASSUME CbTypeOK, NEW c \in Callbacks, Proceed(c) PROVE CbTypeOK'
<1>1. CASE cb[c].rest = <<>>
  BY <1>1, SetCallback, IdleTyped DEF Proceed
<1>2. CASE cb[c].rest # <<>>
  <2>1. cb[c].rest \in Seq(Keys)
    BY DEF CbTypeOK, Callback
  <2>2. Head(cb[c].rest) \in Keys /\ Tail(cb[c].rest) \in Seq(Keys)
    BY <1>2, <2>1
  <2>3. cb' = [cb EXCEPT ![c] =
                 Task("lookup", Head(cb[c].rest), None, {}, Tail(cb[c].rest))]
    BY <1>2 DEF Proceed
  <2> QED
    BY <2>2, <2>3, SomePCs, TaskTyped
<1> QED
  BY <1>1, <1>2

LEMMA BusyTyped ==
    ASSUME CbTypeOK, NEW c \in Callbacks, cb[c].pc # "idle"
    PROVE  /\ cb[c].key \in Keys
           /\ cb[c].content \in Contents \cup {None}
           /\ cb[c].refs \in SUBSET Names
           /\ cb[c].rest \in Seq(Keys)
           /\ cb[c].pc = "next" => cb[c].rest # <<>>
BY DEF CbTypeOK, Callback

(* What a query adds to the links. *)
LEMMA ForwardTyped ==
    ASSUME links \in SUBSET Relationship, NEW a \in Keys, NEW name,
           links' = links \cup {Link(a, b, "forward") : b \in ForwardHits(a, name)}
    PROVE  links' \in SUBSET Relationship
<1>1. ForwardHits(a, name) \subseteq Keys
  BY DEF ForwardHits
<1>2. \A b \in Keys : Link(a, b, "forward") \in Relationship
  BY DEF Relationship, Link, Kinds
<1> QED
  BY <1>1, <1>2

LEMMA ReverseTyped ==
    ASSUME links \in SUBSET Relationship, NEW k \in Keys,
           links' = links \cup {Link(a, k, "reverse") : a \in ReverseHits(k)}
    PROVE  links' \in SUBSET Relationship
<1>1. ReverseHits(k) \subseteq Keys
  BY DEF ReverseHits
<1>2. \A a \in Keys : Link(a, k, "reverse") \in Relationship
  BY DEF Relationship, Link, Kinds
<1> QED
  BY <1>1, <1>2

(* Each action keeps the type of the state. *)
LEMMA NextTypeOK == TypeOK /\ [Next]_vars => TypeOK'
<1> SUFFICES ASSUME TypeOK, [Next]_vars PROVE TypeOK'
  OBVIOUS
<1> USE LinksAssumption DEF graphVars, ingestVars, counters
<1>a. CbTypeOK
  BY DEF TypeOK, CbTypeOK
<1>1. ASSUME NEW k \in Keys, NEW content \in Contents, CacheChunk(k, content) PROVE TypeOK'
  BY <1>1 DEF CacheChunk, TypeOK
<1>2. ASSUME NEW k \in Keys, StoreChunk(k) PROVE TypeOK'
  BY <1>2 DEF StoreChunk, TypeOK
<1>3. ASSUME NEW k \in Keys, DeleteChunk(k) PROVE TypeOK'
  BY <1>3 DEF DeleteChunk, TypeOK
<1>4. ASSUME NEW c \in Callbacks, NEW e \in Events, Answer(c, e) PROVE TypeOK'
  <2>1. Head(e) \in Keys /\ Tail(e) \in Seq(Keys)
    BY LinksAssumption
  <2>2. CbTypeOK'
    BY <1>4, <1>a, <2>1, SomePCs, TaskTyped DEF Answer
  <2> QED
    BY <1>4, <2>2 DEF Answer, TypeOK, CbTypeOK
<1>5. ASSUME NEW c \in Callbacks, LookUp(c) PROVE TypeOK'
  <2>1. cb[c].key \in Keys /\ cb[c].rest \in Seq(Keys)
    BY <1>5, <1>a, BusyTyped DEF LookUp
  <2>2. Found(cb[c].key) \in Contents \cup {None}
    BY <2>1 DEF TypeOK, Found, Stored
  <2>3. CbTypeOK'
    <3>1. \/ Proceed(c)
          \/ cb' = [cb EXCEPT ![c] =
                       Task("update", cb[c].key, Found(cb[c].key), {}, cb[c].rest)]
      BY <1>5 DEF LookUp
    <3> PICK k \in Keys, content \in Contents \cup {None}, rest \in Seq(Keys) :
             k = cb[c].key /\ content = Found(cb[c].key) /\ rest = cb[c].rest
      BY <2>1, <2>2
    <3> PICK r : r = Task("update", k, content, {}, rest)
      OBVIOUS
    <3>3. r \in Callback /\ r.pc = "update" /\ r.key = k
      BY DEF Task, Callback, PCs
    <3>2. cb' = [cb EXCEPT ![c] = r] => CbTypeOK'
      BY <1>a, <3>3, SetCallback
    <3> QED
      BY <1>a, <3>1, <3>2, ProceedTyped
  <2> QED
    BY <1>5, <2>3 DEF LookUp, TypeOK, CbTypeOK, Proceed, Fails
<1>6. ASSUME NEW c \in Callbacks, Update(c) PROVE TypeOK'
  <2>1. RefsOf(cb[c].content) \in SUBSET Names
    BY DEF RefsOf
  <2>2. cb[c].key \in Keys /\ cb[c].content \in Contents \cup {None} /\ cb[c].rest \in Seq(Keys)
    BY <1>6, <1>a, BusyTyped DEF Update
  <2> DEFINE p == IF cb[c].rest = <<>> THEN "link" ELSE "next"
  <2> DEFINE taken == cb' = [cb EXCEPT ![c] = Task(p, cb[c].key, cb[c].content,
                                                   RefsOf(cb[c].content), cb[c].rest)]
  <2>3. taken \/ Proceed(c)
    BY <1>6 DEF Update
  <2>4. taken => CbTypeOK'
    <3>1. p \in PCs /\ (p = "next" => cb[c].rest # <<>>)
      BY SomePCs
    <3> HIDE DEF p
    <3> QED
      BY <1>a, <2>1, <2>2, <3>1, TaskTyped
  <2>5. CbTypeOK'
    <3> HIDE DEF taken
    <3> QED
      BY Zenon, <1>a, <2>3, <2>4, ProceedTyped
  <2> QED
    BY <1>6, <2>2, <2>5 DEF Update, TypeOK, CbTypeOK, Proceed, Fails
<1>10. ASSUME NEW c \in Callbacks, LinkNext(c) PROVE TypeOK'
  <2>1. /\ cb[c].key \in Keys /\ cb[c].content \in Contents \cup {None}
        /\ cb[c].refs \in SUBSET Names /\ cb[c].rest \in Seq(Keys) /\ cb[c].rest # <<>>
    BY <1>10, <1>a, BusyTyped DEF LinkNext
  <2>2. CbTypeOK'
    BY <1>10, <1>a, <2>1, SomePCs, TaskTyped DEF LinkNext
  <2>3. nodes' \in [Keys -> Contents \cup {None, Bare}]
    <3>1. Head(cb[c].rest) \in Keys /\ nodes \in [Keys -> Contents \cup {None, Bare}]
      BY <2>1 DEF TypeOK
    <3> QED
      BY <1>10, <3>1 DEF LinkNext
  <2>4. failures' \in Nat
    BY <1>10 DEF LinkNext, Fails, TypeOK
  <2>5. UNCHANGED <<links, ingestVars, cache, stores, answers, deletes, handled, whole>>
    BY <1>10 DEF LinkNext
  <2> QED
    BY <2>2, <2>3, <2>4, <2>5 DEF TypeOK, CbTypeOK
<1>7. ASSUME NEW c \in Callbacks, LinkForward(c) PROVE TypeOK'
  <2>1. /\ cb[c].key \in Keys /\ cb[c].content \in Contents \cup {None}
        /\ cb[c].refs \in SUBSET Names /\ cb[c].rest \in Seq(Keys)
    BY <1>7, <1>a, BusyTyped DEF LinkForward
  <2>2. PICK name \in cb[c].refs :
           /\ cb' = [cb EXCEPT ![c] =
                       Task("link", cb[c].key, cb[c].content, cb[c].refs \ {name}, cb[c].rest)]
           /\ \/ links' = links \cup
                    {Link(cb[c].key, b, "forward") : b \in ForwardHits(cb[c].key, name)}
              \/ links' = links
    BY <1>7 DEF LinkForward
  <2>3. cb[c].refs \ {name} \in SUBSET Names
    BY <2>1
  <2>4. CbTypeOK'
    <3> PICK refs \in SUBSET Names : refs = cb[c].refs \ {name}
      BY <2>3
    <3> PICK r : r = Task("link", cb[c].key, cb[c].content, refs, cb[c].rest)
      OBVIOUS
    <3>1. r \in Callback /\ r.pc = "link" /\ r.key \in Keys
      BY <2>1 DEF Task, Callback, PCs
    <3>2. cb' = [cb EXCEPT ![c] = r]
      BY <2>2
    <3> QED
      BY <1>a, <3>1, <3>2, SetCallback
  <2>5. links \in SUBSET Relationship
    BY DEF TypeOK
  <2>6. links' \in SUBSET Relationship
    BY <2>1, <2>2, <2>5, ForwardTyped
  <2>7. failures' \in Nat /\ whole' \in SUBSET Callbacks
    BY <1>7 DEF LinkForward, Fails, TypeOK
  <2> QED
    BY <1>7, <2>4, <2>6, <2>7 DEF LinkForward, TypeOK, CbTypeOK
<1>8. ASSUME NEW c \in Callbacks, LinkReverse(c) PROVE TypeOK'
  <2>1. CbTypeOK'
    BY <1>8, <1>a, ProceedTyped DEF LinkReverse
  <2>2. cb[c].key \in Keys
    BY <1>8, <1>a, BusyTyped DEF LinkReverse
  <2>3. links \in SUBSET Relationship
    BY DEF TypeOK
  <2>4. links' \in SUBSET Relationship
    BY <1>8, <2>2, <2>3, ReverseTyped DEF LinkReverse
  <2>5. failures' \in Nat
    BY <1>8 DEF LinkReverse, Fails, TypeOK
  <2>6. handled' \in SUBSET Keys /\ whole' \in SUBSET Callbacks
    BY <1>8, <2>2 DEF LinkReverse, Proceed, TypeOK
  <2>7. UNCHANGED <<nodes, ingestVars, cache, stores, answers, deletes>>
    BY <1>8 DEF LinkReverse
  <2> QED
    BY <2>1, <2>4, <2>5, <2>6, <2>7 DEF TypeOK, CbTypeOK
<1>9. CASE UNCHANGED vars
  BY <1>9 DEF vars, TypeOK
<1> QED
  BY <1>1, <1>2, <1>3, <1>4, <1>5, <1>6, <1>7, <1>8, <1>9, <1>10 DEF Next, CallbackStep

(* The state of the linking keeps its type. *)
THEOREM SpecTypeOK == Spec => []TypeOK
<1>1. Init => TypeOK
  BY InitTypeOK
<1>2. TypeOK /\ [Next]_vars => TypeOK'
  BY NextTypeOK
<1> QED
  BY <1>1, <1>2, PTL DEF Spec

-----------------------------------------------------------------------------
(* Where contents come from: whatever is cached, stored, about to be       *)
(* stored or worked on was to be stored for its chunk, and the references  *)
(* left to a task are its content's.                                       *)
Linking == {"next", "link"}
Known(content, k) == content \in Contents /\ <<k, content>> \in ever
ContentsKnown ==
    /\ \A k \in Keys : /\ Stored(k) => Known(nodes[k], k)
                       /\ cache[k] # None => Known(cache[k], k)
                       /\ storing[k] # None => Known(storing[k], k)
    /\ \A c \in Callbacks :
          /\ cb[c].pc \in {"update"} \cup Linking => Known(cb[c].content, cb[c].key)
          /\ cb[c].pc \in Linking => cb[c].refs \subseteq RefsOf(cb[c].content)

LEMMA SetTask ==
    ASSUME TypeOK, NEW c \in Callbacks, NEW p, NEW k, NEW content, NEW refs, NEW rest,
           cb' = [cb EXCEPT ![c] = Task(p, k, content, refs, rest)]
    PROVE  /\ cb'[c].pc = p /\ cb'[c].key = k /\ cb'[c].content = content /\ cb'[c].refs = refs
           /\ \A d \in Callbacks : d # c => cb'[d] = cb[d]
BY DEF TypeOK, Task

LEMMA ProceedTask ==
    ASSUME TypeOK, NEW c \in Callbacks, Proceed(c)
    PROVE  /\ cb'[c].pc \in {"idle", "lookup"}
           /\ \A d \in Callbacks : d # c => cb'[d] = cb[d]
           /\ whole' = whole \ {c}
<1>1. CASE cb[c].rest = <<>>
  BY <1>1, SetTask DEF Proceed, Idle
<1>2. CASE cb[c].rest # <<>>
  BY <1>2 DEF Proceed, TypeOK, Task
<1> QED
  BY <1>1, <1>2

(* The steps that go on within a chunk. *)
LEMMA UpdateTask ==
    ASSUME TypeOK, NEW c \in Callbacks, Update(c)
    PROVE  \/ Proceed(c) /\ UNCHANGED cache
           \/ /\ cb[c].pc = "update" /\ cb'[c].pc \in Linking
              /\ cb'[c].key = cb[c].key /\ cb'[c].content = cb[c].content
              /\ cb'[c].refs = RefsOf(cb[c].content)
              /\ \A d \in Callbacks : d # c => cb'[d] = cb[d]
              /\ cache' = [cache EXCEPT ![cb[c].key] = None]
              /\ whole' = whole
<1> DEFINE p == IF cb[c].rest = <<>> THEN "link" ELSE "next"
<1>1. \/ Proceed(c) /\ UNCHANGED cache
      \/ /\ cb' = [cb EXCEPT ![c] = Task(p, cb[c].key, cb[c].content,
                                         RefsOf(cb[c].content), cb[c].rest)]
         /\ cache' = [cache EXCEPT ![cb[c].key] = None]
         /\ whole' = whole
  BY DEF Update
<1>2. p \in Linking /\ cb[c].pc = "update"
  BY DEF Update, Linking
<1> HIDE DEF p
<1> QED
  BY <1>1, <1>2, SetTask

LEMMA LinkNextTask ==
    ASSUME TypeOK, NEW c \in Callbacks, LinkNext(c)
    PROVE  /\ cb[c].pc = "next" /\ cb'[c].pc = "link"
           /\ cb'[c].key = cb[c].key /\ cb'[c].content = cb[c].content
           /\ cb'[c].refs = cb[c].refs
           /\ \A d \in Callbacks : d # c => cb'[d] = cb[d]
           /\ \A k \in Keys : \/ nodes'[k] = nodes[k]
                              \/ nodes[k] = None /\ nodes'[k] = Bare
           /\ UNCHANGED <<links, storing, ever, cache, handled, whole>>
<1>1. cb' = [cb EXCEPT ![c] = Task("link", cb[c].key, cb[c].content, cb[c].refs, cb[c].rest)]
  BY DEF LinkNext
<1>2. \A k \in Keys : \/ nodes'[k] = nodes[k]
                      \/ nodes[k] = None /\ nodes'[k] = Bare
  BY DEF LinkNext, TypeOK
<1> QED
  BY <1>1, <1>2 DEF LinkNext, ingestVars, TypeOK, Task

LEMMA NextContentsKnown ==
    TypeOK /\ ContentsKnown /\ [Next]_vars => ContentsKnown'
<1> SUFFICES ASSUME TypeOK, ContentsKnown, [Next]_vars PROVE ContentsKnown'
  OBVIOUS
<1> USE LinksAssumption DEF graphVars, ingestVars, counters, Known, Stored
<1>1. ASSUME NEW k \in Keys, NEW content \in Contents, CacheChunk(k, content)
      PROVE  ContentsKnown'
  BY <1>1 DEF CacheChunk, ContentsKnown, TypeOK
<1>2. ASSUME NEW k \in Keys, StoreChunk(k) PROVE ContentsKnown'
  BY <1>2 DEF StoreChunk, ContentsKnown, TypeOK
<1>3. ASSUME NEW k \in Keys, DeleteChunk(k) PROVE ContentsKnown'
  BY <1>3 DEF DeleteChunk, ContentsKnown, TypeOK
<1>4. ASSUME NEW c \in Callbacks, NEW e \in Events, Answer(c, e) PROVE ContentsKnown'
  <2>1. cb'[c].pc = "lookup" /\ \A d \in Callbacks : d # c => cb'[d] = cb[d]
    BY <1>4 DEF Answer, TypeOK, Task
  <2> QED
    BY <1>4, <2>1 DEF Answer, ContentsKnown, Linking
<1>5. ASSUME NEW c \in Callbacks, LookUp(c) PROVE ContentsKnown'
  <2>1. cb[c].key \in Keys
    BY <1>5 DEF LookUp, TypeOK
  <2>2. CASE Proceed(c)
    BY <1>5, <2>2, ProceedTask DEF LookUp, ContentsKnown, Linking
  <2>3. CASE /\ Found(cb[c].key) # None
             /\ cb' = [cb EXCEPT ![c] =
                         Task("update", cb[c].key, Found(cb[c].key), {}, cb[c].rest)]
    <3>1. Known(Found(cb[c].key), cb[c].key)
      BY <2>1, <2>3 DEF Found, ContentsKnown
    <3>2. /\ cb'[c].pc = "update" /\ cb'[c].key = cb[c].key
          /\ cb'[c].content = Found(cb[c].key)
          /\ \A d \in Callbacks : d # c => cb'[d] = cb[d]
      BY <2>3 DEF TypeOK, Task
    <3> QED
      BY <1>5, <3>1, <3>2 DEF LookUp, ContentsKnown, Linking
  <2> QED
    BY <1>5, <2>2, <2>3 DEF LookUp
<1>6. ASSUME NEW c \in Callbacks, Update(c) PROVE ContentsKnown'
  <2>1. CASE Proceed(c) /\ UNCHANGED cache
    BY <1>6, <2>1, ProceedTask DEF Update, ContentsKnown, Linking
  <2>2. CASE ~(Proceed(c) /\ UNCHANGED cache)
    <3>1. /\ cb[c].pc = "update" /\ cb'[c].pc \in Linking
          /\ cb'[c].key = cb[c].key /\ cb'[c].content = cb[c].content
          /\ cb'[c].refs = RefsOf(cb[c].content)
          /\ \A d \in Callbacks : d # c => cb'[d] = cb[d]
          /\ cache' = [cache EXCEPT ![cb[c].key] = None]
      BY <1>6, <2>2, UpdateTask
    <3>2. \A k \in Keys : cache'[k] # None => cache'[k] = cache[k]
      BY <3>1 DEF TypeOK
    <3> QED
      <4>1. UNCHANGED <<nodes, storing, ever>>
        BY <1>6 DEF Update
      <4>2. Known(cb[c].content, cb[c].key)
        BY <3>1 DEF ContentsKnown
      <4>3. \A d \in Callbacks :
              /\ cb'[d].pc \in {"update"} \cup Linking => Known(cb'[d].content, cb'[d].key)
              /\ cb'[d].pc \in Linking => cb'[d].refs \subseteq RefsOf(cb'[d].content)
        BY <3>1, <4>2 DEF ContentsKnown
      <4> QED
        BY <3>2, <4>1, <4>3 DEF ContentsKnown
  <2> QED
    BY <2>1, <2>2
<1>10. ASSUME NEW c \in Callbacks, LinkNext(c) PROVE ContentsKnown'
  BY <1>10, LinkNextTask DEF ContentsKnown, Linking
<1>7. ASSUME NEW c \in Callbacks, LinkForward(c) PROVE ContentsKnown'
  <2>1. PICK name \in cb[c].refs :
           cb' = [cb EXCEPT ![c] =
                    Task("link", cb[c].key, cb[c].content, cb[c].refs \ {name}, cb[c].rest)]
    BY <1>7 DEF LinkForward
  <2>2. /\ cb'[c].pc = "link" /\ cb'[c].key = cb[c].key /\ cb'[c].content = cb[c].content
        /\ cb'[c].refs = cb[c].refs \ {name}
        /\ \A d \in Callbacks : d # c => cb'[d] = cb[d]
    BY <2>1 DEF TypeOK, Task
  <2> QED
    BY <1>7, <2>2 DEF LinkForward, ContentsKnown, Linking
<1>8. ASSUME NEW c \in Callbacks, LinkReverse(c) PROVE ContentsKnown'
  <2>1. Proceed(c)
    BY <1>8 DEF LinkReverse
  <2> QED
    BY <1>8, <2>1, ProceedTask DEF LinkReverse, ContentsKnown, Linking
<1>9. CASE UNCHANGED vars
  BY <1>9 DEF vars, ContentsKnown
<1> QED
  BY <1>1, <1>2, <1>3, <1>4, <1>5, <1>6, <1>7, <1>8, <1>9, <1>10 DEF Next, CallbackStep

-----------------------------------------------------------------------------
(* What a step does to the links: it adds those of a query, or removes     *)
(* those of a deleted chunk.                                               *)
ForwardLink(l) ==
    \E c \in Callbacks :
        /\ cb[c].pc = "link" /\ l.source = cb[c].key /\ l.kind = "forward"
        /\ \E name \in cb[c].refs : <<name, l.target>> \in Named
        /\ Stored(l.target)
ReverseLink(l) ==
    /\ l.kind = "reverse" /\ Stored(l.source)
    /\ Stem[l.target] # None /\ <<nodes[l.source], Stem[l.target]>> \in Mentions

LEMMA NewLinks ==
    ASSUME TypeOK, ContentsKnown, [Next]_vars
    PROVE  \A l \in links' \ links :
              /\ l.source \in Keys /\ l.target \in Keys
              /\ nodes[l.source] # None /\ nodes[l.target] # None
              /\ UNCHANGED <<nodes, ever>>
              /\ ForwardLink(l) \/ ReverseLink(l)
<1> SUFFICES ASSUME NEW l \in links', l \notin links
             PROVE  /\ l.source \in Keys /\ l.target \in Keys
                    /\ nodes[l.source] # None /\ nodes[l.target] # None
                    /\ UNCHANGED <<nodes, ever>>
                    /\ ForwardLink(l) \/ ReverseLink(l)
  OBVIOUS
<1> USE DEF graphVars, ingestVars, counters
<1>1. ASSUME NEW c \in Callbacks, LinkForward(c)
      PROVE  /\ l.source \in Keys /\ l.target \in Keys
             /\ nodes[l.source] # None /\ nodes[l.target] # None
             /\ UNCHANGED <<nodes, ever>>
             /\ ForwardLink(l)
  <2>1. PICK name \in cb[c].refs :
           l \in {Link(cb[c].key, b, "forward") : b \in ForwardHits(cb[c].key, name)}
    BY <1>1 DEF LinkForward
  <2>2. PICK b \in ForwardHits(cb[c].key, name) : l = Link(cb[c].key, b, "forward")
    BY <2>1
  <2>3. b \in Keys /\ Stored(b) /\ <<name, b>> \in Named /\ nodes[cb[c].key] # None
    BY <2>2 DEF ForwardHits
  <2>4. cb[c].pc = "link" /\ cb[c].key \in Keys
    BY <1>1 DEF LinkForward, TypeOK
  <2>5. l.source = cb[c].key /\ l.target = b /\ l.kind = "forward"
    BY <2>2 DEF Link
  <2> QED
    BY <1>1, <2>3, <2>4, <2>5 DEF ForwardLink, LinkForward, Stored
<1>2. ASSUME NEW c \in Callbacks, LinkReverse(c)
      PROVE  /\ l.source \in Keys /\ l.target \in Keys
             /\ nodes[l.source] # None /\ nodes[l.target] # None
             /\ UNCHANGED <<nodes, ever>>
             /\ ReverseLink(l)
  <2>1. /\ Stem[cb[c].key] # None
        /\ l \in {Link(a, cb[c].key, "reverse") : a \in ReverseHits(cb[c].key)}
    BY <1>2 DEF LinkReverse, SearchesBack
  <2> PICK a \in ReverseHits(cb[c].key) : l = Link(a, cb[c].key, "reverse")
    BY <2>1
  <2>2. /\ a \in Keys /\ Stored(a) /\ nodes[cb[c].key] # None
        /\ <<nodes[a], Stem[cb[c].key]>> \in Mentions
    BY <2>1 DEF ReverseHits, Contains
  <2>3. cb[c].key \in Keys
    BY <1>2 DEF LinkReverse, TypeOK
  <2>4. l.source = a /\ l.target = cb[c].key /\ l.kind = "reverse"
    BY DEF Link
  <2> QED
    BY <1>2, <2>1, <2>2, <2>3, <2>4 DEF ReverseLink, LinkReverse, Stored
<1>3. ASSUME NEW c \in Callbacks, LookUp(c) \/ Update(c) \/ LinkNext(c) PROVE FALSE
  BY <1>3 DEF LookUp, Update, LinkNext
<1>4. ASSUME NEW k \in Keys, StoreChunk(k) \/ DeleteChunk(k) PROVE FALSE
  BY <1>4 DEF StoreChunk, DeleteChunk
<1>5. ASSUME NEW k \in Keys, NEW content \in Contents, CacheChunk(k, content) PROVE FALSE
  BY <1>5 DEF CacheChunk
<1>6. ASSUME NEW c \in Callbacks, NEW e \in Events, Answer(c, e) PROVE FALSE
  BY <1>6 DEF Answer
<1>7. ~UNCHANGED vars
  BY DEF vars
<1> QED
  BY <1>1, <1>2, <1>3, <1>4, <1>5, <1>6, <1>7 DEF Next, CallbackStep

LEMMA EverGrows == [Next]_vars => ever \subseteq ever'
BY DEF Next, CallbackStep, CacheChunk, StoreChunk, DeleteChunk, Answer, LookUp, Update,
       LinkNext, LinkForward, LinkReverse, vars, ingestVars

LEMMA NextLinksAreMentioned ==
    TypeOK /\ ContentsKnown /\ LinksAreMentioned /\ [Next]_vars => LinksAreMentioned'
<1> SUFFICES ASSUME TypeOK, ContentsKnown, LinksAreMentioned, [Next]_vars, NEW l \in links'
             PROVE  \E content \in Contents :
                       /\ <<l.source, content>> \in ever
                       /\ IF l.kind = "forward"
                          THEN \E name \in RefsOf(content) : <<name, l.target>> \in Named
                          ELSE /\ Stem[l.target] # None
                               /\ <<content, Stem[l.target]>> \in Mentions
  BY EverGrows DEF LinksAreMentioned
<1>1. CASE l \in links
  BY <1>1 DEF LinksAreMentioned
<1>2. ASSUME l \notin links, ForwardLink(l)
      PROVE  \E content \in Contents :
                /\ <<l.source, content>> \in ever /\ l.kind = "forward"
                /\ \E name \in RefsOf(content) : <<name, l.target>> \in Named
  <2>1. PICK c \in Callbacks :
           /\ cb[c].pc = "link" /\ l.source = cb[c].key /\ l.kind = "forward"
           /\ \E name \in cb[c].refs : <<name, l.target>> \in Named
    BY <1>2 DEF ForwardLink
  <2>2. cb[c].refs \subseteq RefsOf(cb[c].content) /\ Known(cb[c].content, l.source)
    BY <2>1 DEF ContentsKnown, Linking
  <2> QED
    BY <2>1, <2>2 DEF Known
<1>3. ASSUME l \notin links, ReverseLink(l)
      PROVE  \E content \in Contents :
                /\ <<l.source, content>> \in ever /\ l.kind # "forward"
                /\ Stem[l.target] # None /\ <<content, Stem[l.target]>> \in Mentions
  <2>1. l.source \in Keys /\ Stored(l.source)
    BY <1>3, NewLinks DEF ReverseLink
  <2> QED
    BY <1>3, <2>1 DEF ReverseLink, ContentsKnown, Known
<1> QED
  BY <1>1, <1>2, <1>3, NewLinks

LEMMA NextLinksFindStored ==
    TypeOK /\ ContentsKnown /\ LinksFindStored /\ [Next]_vars => LinksFindStored'
<1> DEFINE Found_(l) == IF l.kind = "forward" THEN l.target ELSE l.source
<1> SUFFICES ASSUME TypeOK, ContentsKnown, LinksFindStored, [Next]_vars, NEW l \in links'
             PROVE  /\ nodes'[l.source] # None /\ nodes'[l.target] # None
                    /\ Stored(Found_(l))'
  BY DEF LinksFindStored
<1> USE LinksAssumption DEF graphVars, ingestVars, counters
<1>1. CASE l \notin links
  BY <1>1, NewLinks DEF ForwardLink, ReverseLink, Stored
<1>2. CASE l \in links
  <2>1. /\ l.source \in Keys /\ l.target \in Keys
        /\ nodes[l.source] # None /\ nodes[l.target] # None
        /\ Stored(Found_(l)) /\ Found_(l) \in {l.source, l.target}
    BY <1>2 DEF TypeOK, Relationship, LinksFindStored
  <2> HIDE DEF Found_
  <2> PICK found : found = Found_(l)
    OBVIOUS
  <2> DEFINE Goal == /\ nodes'[l.source] # None /\ nodes'[l.target] # None
                     /\ nodes'[found] \notin {None, Bare}
  <2>2. ASSUME NEW k \in Keys, StoreChunk(k) PROVE Goal
    BY <2>1, <2>2 DEF StoreChunk, TypeOK, Stored
  <2>3. ASSUME NEW k \in Keys, DeleteChunk(k) PROVE Goal
    BY <2>1, <2>3 DEF DeleteChunk, TypeOK, Stored
  <2>4. ASSUME UNCHANGED nodes PROVE Goal
    BY <2>1, <2>4 DEF Stored
  <2>5. ASSUME NEW c \in Callbacks, LinkNext(c) PROVE Goal
    <3>1. \A k \in Keys : \/ nodes'[k] = nodes[k]
                          \/ nodes[k] = None /\ nodes'[k] = Bare
      BY <2>5, LinkNextTask
    <3> QED
      BY <2>1, <3>1 DEF Stored
  <2>6. \/ UNCHANGED nodes
        \/ \E k \in Keys : StoreChunk(k) \/ DeleteChunk(k)
        \/ \E c \in Callbacks : LinkNext(c)
    <3>1. ASSUME NEW k \in Keys, NEW content \in Contents, CacheChunk(k, content)
          PROVE  UNCHANGED nodes
      BY <3>1 DEF CacheChunk
    <3>2. ASSUME NEW c \in Callbacks, NEW e \in Events, Answer(c, e) PROVE UNCHANGED nodes
      BY <3>2 DEF Answer
    <3>3. ASSUME NEW c \in Callbacks, LookUp(c) \/ Update(c) \/ LinkForward(c) \/ LinkReverse(c)
          PROVE  UNCHANGED nodes
      BY <3>3 DEF LookUp, Update, LinkForward, LinkReverse
    <3>4. CASE UNCHANGED vars
      BY <3>4 DEF vars
    <3> QED
      BY <3>1, <3>2, <3>3, <3>4 DEF Next, CallbackStep
  <2>7. Goal
    <3> HIDE DEF Goal
    <3>1. CASE UNCHANGED nodes
      BY <2>4, <3>1
    <3>2. CASE \E k \in Keys : StoreChunk(k) \/ DeleteChunk(k)
      <4> PICK k \in Keys : StoreChunk(k) \/ DeleteChunk(k)
        BY <3>2
      <4> QED
        BY <2>2, <2>3
    <3>3. CASE \E c \in Callbacks : LinkNext(c)
      <4> PICK c \in Callbacks : LinkNext(c)
        BY <3>3
      <4> QED
        BY <2>5
    <3> QED
      BY Zenon, <2>6, <3>1, <3>2, <3>3
  <2>8. found = Found_(l)'
    BY DEF Found_
  <2> QED
    BY <2>7, <2>8 DEF Stored
<1> QED
  BY <1>1, <1>2

-----------------------------------------------------------------------------
(* Why handled chunks are linked: a whole task works on what is stored,    *)
(* and has linked its chunk to every handled chunk of the files it has     *)
(* asked for.                                                              *)
WholeCurrent ==
    /\ \A c \in whole : /\ cb[c].pc \in {"update"} \cup Linking
                        /\ nodes[cb[c].key] = cb[c].content
                        /\ Stored(cb[c].key)
    /\ \A k \in handled : Stored(k)

WholeLinked ==
    \A c \in whole, b \in handled :
        (/\ cb[c].pc \in Linking /\ cb[c].key # b /\ Stem[b] # None
         /\ <<cb[c].content, Stem[b]>> \in References /\ Stem[b] \notin cb[c].refs) =>
            Linked(cb[c].key, b)

LinkInv ==
    /\ TypeOK
    /\ ContentsKnown
    /\ LinksAreMentioned
    /\ LinksFindStored
    /\ WholeCurrent
    /\ WholeLinked
    /\ HandledAreLinked

LEMMA NextWholeCurrent == LinkInv /\ [Next]_vars => WholeCurrent'
<1> SUFFICES ASSUME LinkInv, [Next]_vars PROVE WholeCurrent'
  OBVIOUS
<1>a. TypeOK /\ WholeCurrent
  BY DEF LinkInv
<1> USE <1>a, LinksAssumption DEF graphVars, ingestVars, counters
<1>b. whole \subseteq Callbacks
  BY DEF TypeOK
<1>1. ASSUME NEW k \in Keys, NEW content \in Contents, CacheChunk(k, content)
      PROVE  WholeCurrent'
  BY <1>1 DEF CacheChunk, WholeCurrent, Stored
<1>2. ASSUME NEW k \in Keys, StoreChunk(k) PROVE WholeCurrent'
  BY <1>2 DEF StoreChunk, WholeCurrent, TypeOK, Stored
<1>3. ASSUME NEW k \in Keys, DeleteChunk(k) PROVE WholeCurrent'
  BY <1>3 DEF DeleteChunk, WholeCurrent, TypeOK, Stored
<1>4. ASSUME NEW c \in Callbacks, NEW e \in Events, Answer(c, e) PROVE WholeCurrent'
  <2>1. c \notin whole
    BY <1>4 DEF Answer, WholeCurrent, Linking
  <2>2. \A d \in Callbacks : d # c => cb'[d] = cb[d]
    BY <1>4 DEF Answer, TypeOK, Task
  <2>3. nodes' = nodes /\ handled' = handled /\ whole' = whole
    BY <1>4 DEF Answer
  <2> QED
    BY <1>b, <2>1, <2>2, <2>3 DEF WholeCurrent, Stored
<1>5. ASSUME NEW c \in Callbacks, LookUp(c) PROVE WholeCurrent'
  <2>1. nodes' = nodes /\ handled' = handled
    BY <1>5 DEF LookUp
  <2>2. CASE Proceed(c)
    BY <1>b, <2>1, <2>2, ProceedTask DEF WholeCurrent, Stored
  <2>3. CASE /\ Found(cb[c].key) # None
             /\ cb' = [cb EXCEPT ![c] =
                         Task("update", cb[c].key, Found(cb[c].key), {}, cb[c].rest)]
             /\ whole' = IF Found(cb[c].key) = nodes[cb[c].key] THEN whole \cup {c} ELSE whole
    <3>1. /\ cb'[c].pc = "update" /\ cb'[c].key = cb[c].key
          /\ cb'[c].content = Found(cb[c].key)
          /\ \A d \in Callbacks : d # c => cb'[d] = cb[d]
      BY <2>3 DEF TypeOK, Task
    <3>2. c \notin whole
      BY <1>5 DEF LookUp, WholeCurrent, Linking
    <3>3. Found(cb[c].key) # Bare
      BY <1>5 DEF Found, LookUp, TypeOK, Stored
    <3>4. c \in whole' => nodes[cb[c].key] = Found(cb[c].key)
      BY <2>3, <3>2
    <3>5. \A d \in whole' : d # c => d \in whole
      BY <2>3
    <3>6. Found(cb[c].key) \notin {None, Bare}
      BY <2>3, <3>3
    <3> QED
      BY <1>b, <2>1, <3>1, <3>4, <3>5, <3>6 DEF WholeCurrent, Stored
  <2> QED
    BY <1>5, <2>2, <2>3 DEF LookUp
<1>6. ASSUME NEW c \in Callbacks, Update(c) PROVE WholeCurrent'
  <2>1. nodes' = nodes /\ handled' = handled
    BY <1>6 DEF Update
  <2>2. CASE Proceed(c)
    BY <1>b, <2>1, <2>2, ProceedTask DEF WholeCurrent, Stored
  <2>3. CASE ~Proceed(c)
    <3>1. /\ cb'[c].pc \in Linking /\ whole' = whole
          /\ cb'[c].key = cb[c].key /\ cb'[c].content = cb[c].content
          /\ \A d \in Callbacks : d # c => cb'[d] = cb[d]
      BY <1>6, <2>3, UpdateTask
    <3> QED
      BY <1>b, <2>1, <3>1 DEF WholeCurrent, Stored
  <2> QED
    BY <2>2, <2>3
<1>10. ASSUME NEW c \in Callbacks, LinkNext(c) PROVE WholeCurrent'
  <2>1. /\ cb'[c].pc = "link" /\ UNCHANGED <<handled, whole>>
        /\ cb'[c].key = cb[c].key /\ cb'[c].content = cb[c].content
        /\ \A d \in Callbacks : d # c => cb'[d] = cb[d]
        /\ \A k \in Keys : nodes'[k] = nodes[k] \/ nodes[k] = None
    BY <1>10, LinkNextTask
  <2>2. \A d \in whole : cb[d].key \in Keys
    BY <1>b DEF WholeCurrent, TypeOK, Linking
  <2>3. handled \subseteq Keys
    BY DEF TypeOK
  <2> QED
    BY <1>b, <2>1, <2>2, <2>3 DEF WholeCurrent, Stored, Linking
<1>7. ASSUME NEW c \in Callbacks, LinkForward(c) PROVE WholeCurrent'
  <2>1. PICK name \in cb[c].refs :
           cb' = [cb EXCEPT ![c] =
                    Task("link", cb[c].key, cb[c].content, cb[c].refs \ {name}, cb[c].rest)]
    BY <1>7 DEF LinkForward
  <2>2. /\ cb'[c].pc = "link" /\ cb'[c].key = cb[c].key /\ cb'[c].content = cb[c].content
        /\ \A d \in Callbacks : d # c => cb'[d] = cb[d]
    BY <2>1 DEF TypeOK, Task
  <2>3. whole' \subseteq whole /\ UNCHANGED <<nodes, handled>>
    BY <1>7 DEF LinkForward
  <2> QED
    BY <1>b, <2>2, <2>3 DEF WholeCurrent, Stored, Linking
<1>8. ASSUME NEW c \in Callbacks, LinkReverse(c) PROVE WholeCurrent'
  <2>1. Proceed(c) /\ UNCHANGED nodes
    BY <1>8 DEF LinkReverse
  <2>2. \A k \in handled' : Stored(k)
    BY <1>8 DEF LinkReverse, WholeCurrent
  <2> QED
    BY <1>b, <2>1, <2>2, ProceedTask DEF WholeCurrent, Stored
<1>9. CASE UNCHANGED vars
  BY <1>9 DEF vars, WholeCurrent, Stored
<1> QED
  BY <1>1, <1>2, <1>3, <1>4, <1>5, <1>6, <1>7, <1>8, <1>9, <1>10 DEF Next, CallbackStep

Joined(a, b, ls) == \E kind \in Kinds : Link(a, b, kind) \in ls

LinkedInv == WholeLinked /\ HandledAreLinked

(* A step that changes neither the links, nor what is handled, nor what    *)
(* the whole tasks have still to link, keeps both.                         *)
LEMMA LinkedStutter ==
    ASSUME LinkInv, links' = links, handled' = handled,
           \A k \in handled : nodes'[k] = nodes[k],
           \A d \in whole' : cb'[d].pc \in Linking =>
              /\ d \in whole /\ cb[d].pc \in Linking /\ cb'[d].key = cb[d].key
              /\ cb'[d].content = cb[d].content /\ cb'[d].refs = cb[d].refs
    PROVE  LinkedInv'
<1>1. WholeLinked'
  BY DEF LinkInv, WholeLinked, Linked
<1>2. HandledAreLinked'
  BY DEF LinkInv, HandledAreLinked, Linked
<1> QED
  BY <1>1, <1>2 DEF LinkedInv

LEMMA NextLinked == LinkInv /\ [Next]_vars => LinkedInv'
<1> SUFFICES ASSUME LinkInv, [Next]_vars PROVE LinkedInv'
  OBVIOUS
<1>a. /\ TypeOK /\ WholeCurrent /\ WholeLinked /\ HandledAreLinked
      /\ handled \subseteq Keys /\ whole \subseteq Callbacks
  BY DEF LinkInv, TypeOK
<1>b. \A c \in whole : cb[c].key \in Keys
  BY <1>a DEF WholeCurrent, TypeOK, Linking
<1> USE DEF graphVars, ingestVars, counters
<1>1. ASSUME NEW k \in Keys, NEW content \in Contents, CacheChunk(k, content)
      PROVE  LinkedInv'
  BY <1>1, LinkedStutter DEF CacheChunk
<1>2. ASSUME NEW k \in Keys, StoreChunk(k) PROVE LinkedInv'
  <2>1. \A a \in handled' : a \in handled /\ nodes'[a] = nodes[a]
    BY <1>2, <1>a DEF StoreChunk, TypeOK
  <2>2. links' = links /\ cb' = cb /\ whole' \subseteq whole
    BY <1>2 DEF StoreChunk
  <2>3. WholeLinked'
    BY <1>a, <2>1, <2>2 DEF WholeLinked, Linked
  <2>4. HandledAreLinked'
    BY <1>a, <2>1, <2>2 DEF HandledAreLinked, Linked
  <2> QED
    BY <2>3, <2>4 DEF LinkedInv
<1>3. ASSUME NEW k \in Keys, DeleteChunk(k) PROVE LinkedInv'
  <2>1. \A a, b \in Keys : Linked(a, b) /\ a # k /\ b # k => Joined(a, b, links')
    BY <1>3 DEF DeleteChunk, Linked, Joined, Link
  <2>2. \A a \in handled' : a # k /\ a \in handled /\ nodes'[a] = nodes[a]
    BY <1>3, <1>a DEF DeleteChunk, TypeOK
  <2>3. \A d \in whole' : d \in whole /\ cb'[d] = cb[d] /\ cb[d].key # k
    BY <1>3 DEF DeleteChunk
  <2>4. WholeLinked'
    BY <2>1, <2>2, <2>3, <1>a, <1>b DEF WholeLinked, Linked, Joined
  <2>5. HandledAreLinked'
    BY <2>1, <2>2, <1>a DEF HandledAreLinked, Linked, Joined
  <2> QED
    BY <2>4, <2>5 DEF LinkedInv
<1>4. ASSUME NEW c \in Callbacks, NEW e \in Events, Answer(c, e) PROVE LinkedInv'
  <2>1. cb'[c].pc = "lookup" /\ \A d \in Callbacks : d # c => cb'[d] = cb[d]
    BY <1>4, <1>a DEF Answer, TypeOK, Task
  <2>2. UNCHANGED <<links, handled, nodes, whole>>
    BY <1>4 DEF Answer
  <2> QED
    BY <1>a, <2>1, <2>2, LinkedStutter DEF Linking
<1>5. ASSUME NEW c \in Callbacks, LookUp(c) PROVE LinkedInv'
  <2>1. UNCHANGED <<links, handled, nodes>>
    BY <1>5 DEF LookUp
  <2>2. /\ cb'[c].pc \notin Linking
        /\ \A d \in Callbacks : d # c => cb'[d] = cb[d]
        /\ whole' \subseteq whole \cup {c}
    <3>1. CASE Proceed(c)
      BY <3>1, <1>a, ProceedTask DEF Linking
    <3>2. CASE /\ cb' = [cb EXCEPT ![c] =
                          Task("update", cb[c].key, Found(cb[c].key), {}, cb[c].rest)]
               /\ whole' = IF Found(cb[c].key) = nodes[cb[c].key] THEN whole \cup {c} ELSE whole
      <4>1. cb'[c].pc = "update" /\ \A d \in Callbacks : d # c => cb'[d] = cb[d]
        BY <3>2, <1>a DEF TypeOK, Task
      <4> QED
        BY <3>2, <4>1 DEF Linking
    <3> QED
      BY <1>5, <3>1, <3>2 DEF LookUp
  <2> QED
    BY <1>a, <2>1, <2>2, LinkedStutter
<1>6. ASSUME NEW c \in Callbacks, Update(c) PROVE LinkedInv'
  <2>1. UNCHANGED <<links, handled, nodes>>
    BY <1>6 DEF Update
  <2>2. CASE Proceed(c)
    <3>1. /\ cb'[c].pc \notin Linking /\ whole' = whole \ {c}
          /\ \A d \in Callbacks : d # c => cb'[d] = cb[d]
      BY <2>2, <1>a, ProceedTask DEF Linking
    <3> QED
      BY <1>a, <2>1, <3>1, LinkedStutter
  <2>3. CASE ~Proceed(c)
    <3>1. /\ cb'[c].content = cb[c].content /\ cb'[c].refs = RefsOf(cb[c].content)
          /\ \A d \in Callbacks : d # c => cb'[d] = cb[d]
          /\ whole' = whole
      BY <1>6, <2>3, <1>a, UpdateTask
    <3>2. \A b \in handled : (Stem[b] # None /\ <<cb[c].content, Stem[b]>> \in References)
                                => Stem[b] \in RefsOf(cb[c].content)
      <4> SUFFICES ASSUME NEW b \in handled, Stem[b] # None,
                          <<cb[c].content, Stem[b]>> \in References
                   PROVE  Stem[b] \in RefsOf(cb[c].content)
        OBVIOUS
      <4>1. <<Stem[b], b>> \in Named
        BY <1>a, LinksAssumption
      <4>2. Stem[b] \in Names
        BY <4>1 DEF Names
      <4> QED
        BY <4>2 DEF RefsOf
    <3>3. WholeLinked'
      <4> SUFFICES ASSUME NEW d \in whole, NEW b \in handled, cb'[d].pc \in Linking,
                          cb'[d].key # b, Stem[b] # None,
                          <<cb'[d].content, Stem[b]>> \in References,
                          Stem[b] \notin cb'[d].refs
                   PROVE  Linked(cb'[d].key, b)
        BY <2>1, <3>1 DEF WholeLinked, Linked
      <4>1. d # c
        BY <3>1, <3>2
      <4>2. d \in Callbacks /\ cb'[d] = cb[d]
        BY <1>a, <3>1, <4>1
      <4> QED
        BY <1>a, <4>2 DEF WholeLinked
    <3>4. HandledAreLinked'
      BY <1>a, <2>1 DEF HandledAreLinked, Linked
    <3> QED
      BY <3>3, <3>4 DEF LinkedInv
  <2> QED
    BY <2>2, <2>3
<1>10. ASSUME NEW c \in Callbacks, LinkNext(c) PROVE LinkedInv'
  <2>1. \A k \in handled : nodes'[k] = nodes[k]
    BY <1>10, <1>a, LinkNextTask DEF WholeCurrent, Stored
  <2>2. /\ cb[c].pc \in Linking /\ cb'[c].key = cb[c].key /\ cb'[c].content = cb[c].content
        /\ cb'[c].refs = cb[c].refs
        /\ \A d \in Callbacks : d # c => cb'[d] = cb[d]
        /\ UNCHANGED <<links, handled, whole>>
    BY <1>10, <1>a, LinkNextTask DEF Linking
  <2> QED
    BY <1>a, <2>1, <2>2, LinkedStutter
<1>7. ASSUME NEW c \in Callbacks, LinkForward(c) PROVE LinkedInv'
  <2>1. PICK name \in cb[c].refs :
           /\ cb' = [cb EXCEPT ![c] =
                       Task("link", cb[c].key, cb[c].content, cb[c].refs \ {name}, cb[c].rest)]
           /\ \/ /\ links' = links \cup
                       {Link(cb[c].key, b, "forward") : b \in ForwardHits(cb[c].key, name)}
                 /\ whole' = whole
              \/ links' = links /\ whole' = whole \ {c}
    BY <1>7 DEF LinkForward
  <2>2. /\ cb'[c].key = cb[c].key /\ cb'[c].content = cb[c].content
        /\ cb'[c].refs = cb[c].refs \ {name}
        /\ \A d \in Callbacks : d # c => cb'[d] = cb[d]
    BY <2>1, <1>a DEF TypeOK, Task
  <2>3. UNCHANGED <<handled, nodes>> /\ cb[c].pc \in Linking
    BY <1>7 DEF LinkForward, Linking
  <2>4. \A a, b \in Keys : Linked(a, b) => Joined(a, b, links')
    BY <2>1 DEF Linked, Joined
  <2>5. HandledAreLinked'
    BY <1>a, <2>3, <2>4 DEF HandledAreLinked, Linked, Joined
  <2>6. ASSUME NEW d \in whole', NEW b \in handled, cb'[d].pc \in Linking, cb'[d].key # b,
               Stem[b] # None, <<cb'[d].content, Stem[b]>> \in References,
               Stem[b] \notin cb'[d].refs
        PROVE  Joined(cb'[d].key, b, links')
    <3>1. d \in whole /\ d \in Callbacks /\ b \in Keys /\ cb[d].key \in Keys
      BY <2>1, <1>a, <1>b
    <3>2. CASE d # c \/ Stem[b] # name
      <4>1. /\ cb[d].pc \in Linking /\ cb'[d].key = cb[d].key /\ cb'[d].content = cb[d].content
            /\ Stem[b] \notin cb[d].refs
        BY <2>2, <2>3, <2>6, <3>1, <3>2
      <4>2. Linked(cb[d].key, b)
        BY <1>a, <2>6, <3>1, <4>1 DEF WholeLinked
      <4> QED
        BY <2>4, <3>1, <4>1, <4>2
    <3>3. CASE d = c /\ Stem[b] = name
      <4>1. Stored(b) /\ <<name, b>> \in Named /\ nodes[cb[c].key] # None
        BY <1>a, <2>6, <3>1, <3>3, LinksAssumption DEF WholeCurrent, Stored
      <4>2. b \in ForwardHits(cb[c].key, name)
        BY <2>2, <2>6, <3>1, <3>3, <4>1 DEF ForwardHits
      <4>3. links' = links \cup
                {Link(cb[c].key, x, "forward") : x \in ForwardHits(cb[c].key, name)}
        <5>1. c \in whole' /\ c \in whole
          BY <2>6, <3>1, <3>3
        <5> QED
          BY <2>1, <5>1
      <4>4. Link(cb[c].key, b, "forward") \in links'
        BY <4>2, <4>3
      <4>5. cb'[d].key = cb[c].key
        BY <2>2, <3>3
      <4> QED
        BY <4>4, <4>5 DEF Joined, Kinds
    <3> QED
      BY <3>2, <3>3
  <2>7. WholeLinked'
    BY <2>3, <2>6 DEF WholeLinked, Linked, Joined
  <2> QED
    BY <2>5, <2>7 DEF LinkedInv
<1>8. ASSUME NEW c \in Callbacks, LinkReverse(c) PROVE LinkedInv'
  <2> PICK k : k = cb[c].key
    OBVIOUS
  <2>1. /\ cb'[c].pc \notin Linking /\ whole' = whole \ {c}
        /\ \A d \in Callbacks : d # c => cb'[d] = cb[d]
    BY <1>8, <1>a, ProceedTask DEF LinkReverse, Linking
  <2>2. CASE UNCHANGED <<links, handled>>
    <3>1. UNCHANGED nodes
      BY <1>8 DEF LinkReverse
    <3> QED
      BY <1>a, <2>1, <2>2, <3>1, LinkedStutter
  <2>3. CASE /\ links' = IF SearchesBack(k)
                         THEN links \cup {Link(a, k, "reverse") : a \in ReverseHits(k)}
                         ELSE links
             /\ handled' = IF c \in whole THEN handled \cup {k} ELSE handled
    <3>1. UNCHANGED nodes /\ cb[c].pc \in Linking /\ cb[c].refs = {} /\ k \in Keys
      BY <1>8, <1>a DEF LinkReverse, TypeOK, Linking
    <3>2. \A a, b \in Keys : Linked(a, b) => Joined(a, b, links')
      BY <2>3 DEF Linked, Joined
    <3>3. ASSUME NEW a \in Keys, a # k, Stored(a), nodes[k] # None, Stem[k] # None,
                 <<nodes[a], Stem[k]>> \in References
          PROVE  Joined(a, k, links')
      <4>1. a \in ReverseHits(k)
        BY <3>3, LinksAssumption DEF ReverseHits, Contains
      <4>2. links' = links \cup {Link(x, k, "reverse") : x \in ReverseHits(k)}
        BY <2>3, <3>3 DEF SearchesBack
      <4> QED
        BY <4>1, <4>2 DEF Joined, Kinds
    <3>4. \A b \in handled' : b \in handled \/ (b = k /\ c \in whole)
      BY <2>3
    <3>5. c \in whole => nodes[k] = cb[c].content /\ nodes[k] # None
      BY <1>a DEF WholeCurrent, Stored
    <3>0. \A a \in handled : a \in Keys /\ Stored(a)
      BY <1>a DEF WholeCurrent
    <3>6. ASSUME NEW a \in handled', NEW b \in handled', a # b, Stem[b] # None,
                 <<nodes[a], Stem[b]>> \in References
          PROVE  Joined(a, b, links')
      <4>1. CASE a \in handled /\ b \in handled
        <5>1. Linked(a, b)
          BY <1>a, <3>6, <4>1 DEF HandledAreLinked
        <5> QED
          BY <1>a, <3>2, <4>1, <5>1
      <4>2. CASE b = k /\ c \in whole /\ a \in handled
        BY <3>0, <3>3, <3>5, <3>6, <4>2
      <4>3. CASE a = k /\ c \in whole /\ b \in handled
        <5>1. Linked(k, b)
          BY <1>a, <3>1, <3>5, <3>6, <4>3 DEF WholeLinked
        <5> QED
          BY <1>a, <3>1, <3>2, <4>3, <5>1
      <4> QED
        BY <3>4, <3>6, <4>1, <4>2, <4>3
    <3>7. HandledAreLinked'
      BY <3>1, <3>6 DEF HandledAreLinked, Linked, Joined
    <3>8. ASSUME NEW d \in whole', NEW b \in handled', cb'[d].pc \in Linking, cb'[d].key # b,
                 Stem[b] # None, <<cb'[d].content, Stem[b]>> \in References,
                 Stem[b] \notin cb'[d].refs
          PROVE  Joined(cb'[d].key, b, links')
      <4>1. d \in whole /\ d # c /\ cb'[d] = cb[d] /\ cb[d].key \in Keys
        BY <2>1, <1>a, <1>b
      <4>2. CASE b \in handled
        <5>1. Linked(cb[d].key, b)
          BY <1>a, <3>8, <4>1, <4>2 DEF WholeLinked
        <5> QED
          BY <1>a, <3>2, <4>1, <4>2, <5>1
      <4>3. CASE b = k /\ c \in whole
        <5>1. nodes[cb[d].key] = cb[d].content /\ Stored(cb[d].key)
          BY <1>a, <4>1 DEF WholeCurrent
        <5>2. Joined(cb[d].key, k, links')
          BY <3>3, <3>5, <3>8, <4>1, <4>3, <5>1
        <5>3. cb'[d].key = cb[d].key
          BY <4>1
        <5> QED
          BY <4>3, <5>2, <5>3
      <4> QED
        BY <3>4, <4>2, <4>3
    <3>9. WholeLinked'
      BY <3>8 DEF WholeLinked, Linked, Joined
    <3> QED
      BY <3>7, <3>9 DEF LinkedInv
  <2> QED
    BY <1>8, <2>2, <2>3 DEF LinkReverse
<1>9. CASE UNCHANGED vars
  BY <1>9, <1>a DEF vars, LinkedInv, WholeLinked, HandledAreLinked, Linked
<1> QED
  BY <1>1, <1>2, <1>3, <1>4, <1>5, <1>6, <1>7, <1>8, <1>9, <1>10 DEF Next, CallbackStep

LEMMA InitLinkInv == Init => LinkInv
<1> SUFFICES ASSUME Init PROVE LinkInv
  OBVIOUS
<1>1. TypeOK
  BY InitTypeOK
<1>2. ContentsKnown
  BY DEF Init, ContentsKnown, Idle, Task, Stored, Linking
<1>3. LinksAreMentioned /\ LinksFindStored /\ WholeCurrent /\ WholeLinked /\ HandledAreLinked
  BY DEF Init, LinksAreMentioned, LinksFindStored, WholeCurrent, WholeLinked, HandledAreLinked
<1> QED
  BY <1>1, <1>2, <1>3 DEF LinkInv

LEMMA NextLinkInv == LinkInv /\ [Next]_vars => LinkInv'
<1> SUFFICES ASSUME LinkInv, [Next]_vars PROVE LinkInv'
  OBVIOUS
<1>1. TypeOK' /\ ContentsKnown' /\ LinksAreMentioned' /\ LinksFindStored'
  BY NextTypeOK, NextContentsKnown, NextLinksAreMentioned, NextLinksFindStored DEF LinkInv
<1>2. WholeCurrent' /\ LinkedInv'
  BY NextWholeCurrent, NextLinked
<1> QED
  BY <1>1, <1>2 DEF LinkInv, LinkedInv

LEMMA SpecLinkInv == Spec => []LinkInv
BY InitLinkInv, NextLinkInv, PTL DEF Spec

(* Where a reference gives the whole stem of the other chunk's file, and   *)
(* that is not empty, whichever of the two is handled last finds the       *)
(* other: chunks whose stored contents have both been handled without a    *)
(* failed call are linked, for any interleaving of the callbacks with each *)
(* other and with the ingest.                                              *)
THEOREM SpecHandledAreLinked == Spec => []HandledAreLinked
<1>1. LinkInv => HandledAreLinked
  BY DEF LinkInv
<1> QED
  BY <1>1, SpecLinkInv, PTL

(* Some content meant for its chunk refers to a name that the id of a      *)
(* forward link's target contains, or has the stem of a reverse link's.    *)
THEOREM SpecLinksAreMentioned == Spec => []LinksAreMentioned
<1>1. LinkInv => LinksAreMentioned
  BY DEF LinkInv
<1> QED
  BY <1>1, SpecLinkInv, PTL

(* What a late answer is for may be a bare node, what its queries find is  *)
(* always a stored chunk, and both ends of a link are in the graph.        *)
THEOREM SpecLinksFindStored == Spec => []LinksFindStored
<1>1. LinkInv => LinksFindStored
  BY DEF LinkInv
<1> QED
  BY <1>1, SpecLinkInv, PTL
=============================================================================
