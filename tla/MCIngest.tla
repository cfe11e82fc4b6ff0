------------------------------ MODULE MCIngest ------------------------------
(***************************************************************************)
(* Instances of IngestPipeline for TLC.  A key is a definition ("f", "g":  *)
(* AST chunks) or a byte range ("r": a raw chunk); hashes are named after  *)
(* the content they stand for.                                             *)
(***************************************************************************)
EXTENDS IngestRefinement, TLC

CONSTANTS t1, t2, u1, u2

C(k, h) == [key |-> k, hash |-> h]

MCKeys == {"f", "g", "r"}
MCPosition == [k \in MCKeys |-> CASE k = "f" -> 1 [] k = "g" -> 2 [] k = "r" -> 3]
MCHashes == {"f1", "f2", "g1", "r1", "r2"}

(* A file that is edited in place: f changes, g comes and goes, the raw    *)
(* chunk over the same bytes changes with them.                            *)
EditVersions ==
    { <<C("f", "f1"), C("g", "g1"), C("r", "r1")>>,
      <<C("f", "f2"), C("r", "r2")>>,
      <<C("f", "f1"), C("r", "r2")>> }

(* Two versions with a key in common and a key of their own each. *)
SmallVersions ==
    { <<C("f", "f1"), C("g", "g1")>>,
      <<C("f", "f2"), C("r", "r1")>> }

(* One version, delivered again. *)
OneVersion == { <<C("f", "f1"), C("g", "g1")>> }
=============================================================================
