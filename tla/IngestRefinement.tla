-------------------------- MODULE IngestRefinement --------------------------
(***************************************************************************)
(* The ingest path implements FileIndex when its events come one at a time *)
(* (one handler), for one user, without deletions, failed calls or         *)
(* crashes, and no content occurs under two chunk keys: the second diff    *)
(* takes a content that is on record under any key for stored.             *)
(***************************************************************************)
EXTENDS IngestPipeline

Owner == CHOOSE u \in Users : TRUE

(* The chunks of the version as an index; of two chunks with one key, the  *)
(* last is stored last.                                                    *)
AsIndex(chunks) ==
    [k \in Keys |->
        LET same == WithKey(chunks, DOMAIN chunks, k)
        IN  IF same = {} THEN None ELSE chunks[LastOf(same)].hash]

Served ==
    [k \in Keys |-> IF nodes[Owner][k] = None THEN None
                    ELSE nodes[Owner][k].content]

FI == INSTANCE FileIndex WITH
        Values <- Hashes,
        wanted <- AsIndex(Requested(Owner)),
        index <- Served,
        indexing <- ~Quiescent

(* A task never shows a reader of the graph a chunk that is neither of the *)
(* old version nor of the new one, and ends only when the graph is the new *)
(* version.                                                                *)
ImplementsFileIndex == FI!Spec
=============================================================================
