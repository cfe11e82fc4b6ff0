----------------------------- MODULE MCEmbedding -----------------------------
(***************************************************************************)
(* Instances of EmbeddingCallback for TLC, over the files of MCIngest.     *)
(***************************************************************************)
EXTENDS EmbeddingCallback, TLC

CONSTANTS t1, t2, c1, c2, u1, u2

C(k, h) == [key |-> k, hash |-> h]

MCKeys == {"f", "g", "r"}
MCPosition == [k \in MCKeys |-> CASE k = "f" -> 1 [] k = "g" -> 2 [] k = "r" -> 3]
MCHashes == {"f1", "f2", "g1", "r1"}

(* Two versions with a key in common and a key of their own each. *)
SmallVersions ==
    { <<C("f", "f1"), C("g", "g1")>>,
      <<C("f", "f2"), C("r", "r1")>> }
=============================================================================
