---------------------------- MODULE CodeRelations ----------------------------
(***************************************************************************)
(* The relationships that are extracted from a batch of chunks: the chain  *)
(* of HierarchicalExtractor, the links of CodeExtractor                    *)
(* (src/processors/graph.rs) and those of SymbolIndex                      *)
(* (src/processors/symbol.rs).                                             *)
(*                                                                         *)
(* A chunk is a record.  Its id names its key and the hash of its content; *)
(* sig holds the names its content defines (in order, repetitions          *)
(* included) and refers to, which is what the parsers find in it; indexed  *)
(* says whether it carries this in metadata.ast_data too, as the root and  *)
(* the definition chunks do and the chunks of loose code and of text do    *)
(* not.  path is what SymbolIndex takes for the chunk's file.  Confidence, *)
(* evidence and the metadata of a link are left out.                       *)
(***************************************************************************)
EXTENDS Integers, Sequences, FiniteSets, Functions

CONSTANTS
    None,
    Denotes    \* pairs <<import, file>>: the import's text matches the file's path

(* Two chunks have no link to themselves; the same link twice is one link. *)
Links(from, targets, label) ==
    {[source |-> from, target |-> t, label |-> label] : t \in targets \ {from}}

-----------------------------------------------------------------------------
(* HierarchicalExtractor: per file, each chunk is linked to the next in    *)
(* order of position.                                                      *)

Precedes(batch, i, j) ==
    /\ batch[i].file = batch[j].file
    /\ \/ batch[i].pos < batch[j].pos
       \/ batch[i].pos = batch[j].pos /\ i < j

Successor(batch, i) ==
    {batch[j].id : j \in {j \in DOMAIN batch :
        /\ Precedes(batch, i, j)
        /\ \A l \in DOMAIN batch :
              ~(Precedes(batch, i, l) /\ Precedes(batch, l, j))}}

ChainLinks(batch) ==
    UNION {Links(batch[i].id, Successor(batch, i), "NEXT_CHUNK") : i \in DOMAIN batch}

-----------------------------------------------------------------------------
(* CodeExtractor.  Its indices are filled by insert in the order of the    *)
(* batch: a name stands for the last chunk whose content has it.           *)

IsCode(c) == c.kind # "Document"

IdOfLast(batch, is) ==
    {batch[i].id : i \in {i \in is : \A j \in is : j <= i}}

FunctionTarget(batch, n) ==
    IdOfLast(batch, {i \in DOMAIN batch : n \in Range(batch[i].sig.functions)})
ClassTarget(batch, n) ==
    IdOfLast(batch, {i \in DOMAIN batch : n \in Range(batch[i].sig.classes)})
FileTarget(batch, p) ==
    IdOfLast(batch, {i \in DOMAIN batch : batch[i].kind = "File" /\ batch[i].file = p})

(* resolve_import: one of the batch's paths that match; a batch of the     *)
(* ingest path is of one file.                                             *)
ImportTarget(batch, n) ==
    UNION {FileTarget(batch, p) : p \in {p \in {batch[i].file : i \in DOMAIN batch} :
                                            <<n, p>> \in Denotes}}

OrElse(first, second) == IF first # {} THEN first ELSE second

ImplementsLinks(batch, c) ==
    UNION {UNION {Links(from, ClassTarget(batch, impl[2]), "IMPLEMENTS") :
                     from \in OrElse(ClassTarget(batch, impl[1]), {c.id})} :
              impl \in c.sig.impls}

MethodLinks(batch, c) ==
    IF c.kind # "Class" THEN {}
    ELSE LET methods == {i \in DOMAIN batch : /\ batch[i].kind = "Function"
                                              /\ batch[i].file = c.file
                                              /\ batch[i].parent = c.id}
         IN  Links(c.id, {batch[i].id : i \in methods}, "CONTAINS_METHOD")

DefinedInLinks(batch, c) ==
    IF c.kind = "File" THEN {}
    ELSE Links(c.id, FileTarget(batch, c.file), "DEFINED_IN")

(* What one chunk refers to; the second pass takes the referenced types    *)
(* for calls as well.                                                      *)
ReferenceLinks(batch, c) ==
    UNION
      (    {Links(c.id, FunctionTarget(batch, n), "CALLS") : n \in c.sig.calls \cup c.sig.types}
      \cup {Links(c.id, ClassTarget(batch, n), "INHERITS") : n \in c.sig.parents}
      \cup {Links(c.id, ImportTarget(batch, n), "IMPORTS") : n \in c.sig.imports}
      \cup {Links(c.id, ClassTarget(batch, n), "TYPE_REF") : n \in c.sig.types}
      \cup {Links(c.id, ClassTarget(batch, n), "INSTANTIATES") : n \in c.sig.news}
      \cup {Links(c.id, OrElse(FunctionTarget(batch, n), ClassTarget(batch, n)), "DECORATES") :
               n \in c.sig.decorators})

CodeLinks(batch) ==
    LET code == RestrictValues(batch, IsCode)
    IN  UNION {ReferenceLinks(code, code[i]) \cup ImplementsLinks(code, code[i])
               \cup MethodLinks(code, code[i]) \cup DefinedInLinks(code, code[i]) :
                  i \in DOMAIN code}

-----------------------------------------------------------------------------
(* SymbolIndex: every indexed chunk that has a name is pushed to the       *)
(* name's list, once per occurrence; a name stands for its chunk when it   *)
(* is the only one of the list.                                            *)

FunctionDefs(chunks, n) ==
    UNION {{<<i, j>> : j \in {j \in DOMAIN chunks[i].sig.functions :
                                 chunks[i].sig.functions[j] = n}} :
              i \in {i \in DOMAIN chunks : chunks[i].indexed}}
ClassDefs(chunks, n) ==
    UNION {{<<i, j>> : j \in {j \in DOMAIN chunks[i].sig.classes :
                                 chunks[i].sig.classes[j] = n}} :
              i \in {i \in DOMAIN chunks : chunks[i].indexed}}

(* file_paths: unlike names, a module stands for all chunks of its file.   *)
ModuleChunks_Only(chunks, n) ==
    LET ids == {chunks[i].id : i \in {i \in DOMAIN chunks : <<n, chunks[i].path>> \in Denotes}}
    IN  IF Cardinality(ids) = 1 THEN ids ELSE {}
ModuleChunks(chunks, n) ==
    {chunks[i].id : i \in {i \in DOMAIN chunks : <<n, chunks[i].path>> \in Denotes}}

Unambiguous(chunks, defs) ==
    IF Cardinality(defs) = 1 THEN {chunks[d[1]].id : d \in defs} ELSE {}

(* resolve_cross_file_references for one chunk. *)
ResolvedLinks(chunks, c) ==
    LET function(n) == Unambiguous(chunks, FunctionDefs(chunks, n))
        class(n) == Unambiguous(chunks, ClassDefs(chunks, n))
        decorator(n) == IF FunctionDefs(chunks, n) # {} THEN function(n) ELSE class(n)
    IN  UNION
          (    {Links(c.id, function(n), "CALLS") : n \in c.sig.calls}
          \cup {Links(c.id, class(n), "INSTANTIATES") : n \in c.sig.news}
          \cup {Links(c.id, class(n), "TYPE_REF") : n \in c.sig.types}
          \cup {Links(c.id, ModuleChunks(chunks, n), "IMPORTS") : n \in c.sig.imports}
          \cup {Links(c.id, class(n), "INHERITS") : n \in c.sig.parents}
          \cup {Links(c.id, class(impl[2]), "IMPLEMENTS") : impl \in c.sig.impls}
          \cup {Links(c.id, decorator(n), "DECORATES") : n \in c.sig.decorators}
          \cup {Links(c.id, function(n), "REFERENCES") : n \in c.sig.variables})

SymbolLinks(chunks) ==
    UNION {ResolvedLinks(chunks, chunks[i]) : i \in {i \in DOMAIN chunks : chunks[i].indexed}}

-----------------------------------------------------------------------------
(* resolve_cross_file_references_db: names the batch does not define are   *)
(* looked up in the graph by the property chunk_key of its nodes, and      *)
(* their ids read as UUIDs.                                                *)

Missing(chunks, c) ==
    LET function(n) == FunctionDefs(chunks, n) # {}
        class(n) == ClassDefs(chunks, n) # {}
    IN  [CALLS |-> {n \in c.sig.calls : ~function(n)}
                   \cup {n \in c.sig.decorators : ~function(n) /\ ~class(n)},
         TYPE_REF |-> {n \in c.sig.news \cup c.sig.types \cup c.sig.parents : ~class(n)},
         IMPORTS |-> {n \in c.sig.imports : ModuleChunks(chunks, n) = {}}]

(* The keys of the nodes a query for such a name returns: a property that  *)
(* a node does not have equals nothing.                                    *)
QueryHits(graph, label, n) ==
    {k \in DOMAIN graph : /\ graph[k] # None
                          /\ "chunk_key" \in DOMAIN graph[k]
                          /\ graph[k].chunk_key = <<label, n>>}

QueriedLinks(chunks, graph) ==
    UNION {LET c == chunks[i] IN
           UNION {UNION {Links(c.id, QueryHits(graph, label, n), label) :
                            n \in Missing(chunks, c)[label]} :
                     label \in {"CALLS", "TYPE_REF", "IMPORTS"}} :
              i \in {i \in DOMAIN chunks : chunks[i].indexed}}
=============================================================================
