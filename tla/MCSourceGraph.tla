--------------------------- MODULE MCSourceGraph ---------------------------
(***************************************************************************)
(* Instances of SourceGraph for TLC: a file a with a function f and a file *)
(* b that imports a and whose function g calls f.                          *)
(***************************************************************************)
EXTENDS SourceGraph, TLC

NoSig == [functions |-> <<>>, classes |-> <<>>, calls |-> {}, news |-> {}, types |-> {},
          parents |-> {}, impls |-> {}, imports |-> {}, decorators |-> {}, variables |-> {}]

Chunk(file, key, hash, kind, pos, indexed, sig) ==
    [id |-> <<key, hash>>, key |-> key, hash |-> hash, file |-> file, kind |-> kind,
     pos |-> pos, indexed |-> indexed, sig |-> sig, parent |-> None, path |-> None]

Sig(functions, calls, imports) ==
    [NoSig EXCEPT !.functions = functions, !.calls = calls, !.imports = imports]

(* The root, a definition per function and the text, which holds them all  *)
(* and whose key is its length: another text has another key.              *)
Root(file, hash, sig) == Chunk(file, file \o ".root", hash, "File", 1, TRUE, sig)
Definition(file, n, hash, pos, sig) ==
    Chunk(file, file \o "." \o n, hash, "Function", pos, TRUE, sig)
Text(file, hash, sig) == Chunk(file, file \o ".text" \o hash, hash, "File", 0, FALSE, sig)

(* The class C of a has no chunk of its own.  b is edited: another         *)
(* function comes before g, or g is defined twice.                         *)
SigF == Sig(<<"f">>, {}, {})
SigA == [SigF EXCEPT !.classes = <<"C">>]
SigG == [Sig(<<"g">>, {"f"}, {}) EXCEPT !.news = {"C"}]
SigB == [SigG EXCEPT !.imports = {"a"}]
VersionsA == {<<Root("a", "A1", SigA), Definition("a", "f", "f1", 1, SigF), Text("a", "1", SigA)>>}
VersionsB ==
    { <<Root("b", "B1", SigB), Definition("b", "g", "g1", 2, SigG), Text("b", "1", SigB)>>,
      <<Root("b", "B2", SigB), Definition("b", "h", "h1", 2, Sig(<<"h">>, {}, {})),
        Definition("b", "g", "g1", 3, SigG), Text("b", "2", SigB)>> }
TwiceB ==
    <<Root("b", "B3", SigB), Definition("b", "g", "g1", 2, SigG),
      Definition("b", "g", "g2", 3, Sig(<<"g">>, {}, {})), Text("b", "3", SigB)>>

MCFiles == {"a", "b"}
KeysA == {"a.root", "a.f", "a.text1"}
MCKeys == KeysA \cup {"b.root", "b.g", "b.h", "b.text1", "b.text2", "b.text3"}
MCFileOf == [k \in MCKeys |-> IF k \in KeysA THEN "a" ELSE "b"]
MCVersions == [f \in MCFiles |-> IF f = "a" THEN VersionsA ELSE VersionsB]
TwiceVersions == [f \in MCFiles |-> IF f = "a" THEN VersionsA ELSE VersionsB \cup {TwiceB}]
MCDenotes == {<<"a", "a">>, <<"b", "b">>}

InOrder(keys) == [k \in MCKeys |-> CHOOSE i \in DOMAIN keys : keys[i] = k]
(* As stored, and with nodes in places that deletions had left. *)
MCRowOrders ==
    { InOrder(<<"a.root", "a.f", "a.text1", "b.root", "b.g", "b.text1", "b.h", "b.text2", "b.text3">>),
      InOrder(<<"b.g", "a.text1", "a.root", "b.text1", "b.text2", "a.f", "b.h", "b.root", "b.text3">>) }
=============================================================================
