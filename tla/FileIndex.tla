------------------------------ MODULE FileIndex ------------------------------
(***************************************************************************)
(* What ingesting one file promises.  A user asks for an index of the      *)
(* file's chunks; the service moves the index towards what was asked for,  *)
(* key by key, never to a content that is neither the old nor the new one, *)
(* and reports the request done when the index is what was asked for.      *)
(***************************************************************************)
CONSTANTS Keys,      \* chunk keys of the file
          Values,    \* what a chunk may hold
          None       \* no chunk under this key

VARIABLES wanted,    \* the index last asked for
          index,     \* the index that is served
          indexing   \* whether a request is being worked on

Index == [Keys -> Values \cup {None}]

Init ==
    /\ wanted = [k \in Keys |-> None]
    /\ index = wanted
    /\ indexing = FALSE

Request ==
    /\ ~indexing
    /\ indexing' = TRUE
    /\ wanted' \in Index
    /\ UNCHANGED index

Apply ==
    /\ indexing
    /\ \A k \in Keys : index'[k] \in {index[k], wanted[k]}
    /\ index' \in Index
    /\ UNCHANGED <<wanted, indexing>>

Done ==
    /\ indexing
    /\ index = wanted
    /\ indexing' = FALSE
    /\ UNCHANGED <<wanted, index>>

Next == Request \/ Apply \/ Done

Spec == Init /\ [][Next]_<<wanted, index, indexing>>
=============================================================================
