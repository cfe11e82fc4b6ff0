------------------------------ MODULE MCChunker ------------------------------
(***************************************************************************)
(* Instances of HybridChunker for TLC: every text of up to MaxWords words  *)
(* of four sizes, one of them too long for a chunk and one too long and of *)
(* four-byte characters; longer texts of two sizes, and of one; every JSON *)
(* array, and object with keys in any order and again, of fewer entries;   *)
(* and every code file of MaxWords words with up to three definitions,     *)
(* nested or apart.                                                        *)
(***************************************************************************)
EXTENDS HybridChunker

CONSTANT MaxWords

(* Words by the number of their characters and the bytes of each. *)
Shape(count, width) == [count |-> count, width |-> width]
Shapes == {Shape(1, 1), Shape(3, 1), Shape(8, 1), Shape(7, 4)}
Ends == {"word", "sentence", "paragraph"}

GapAfter(e) == IF e = "paragraph" THEN 2 ELSE 1

(* The words of the given shapes, one after the other. *)
Laid(shapes, ends, keys) ==
    LET n == Len(shapes)
        size(i) == shapes[i].count * shapes[i].width
        start[i \in 1 .. n] ==
            IF i = 1 THEN 0 ELSE start[i - 1] + size(i - 1) + GapAfter(ends[i - 1])
    IN  [i \in 1 .. n |->
            [from |-> start[i], to |-> start[i] + size(i),
             ends |-> IF i = n THEN "paragraph" ELSE ends[i],
             chars |-> [c \in 1 .. shapes[i].count |-> c * shapes[i].width],
             key |-> keys[i]]]

Doc(kind, laid, entries, parsed, defs) ==
    [kind |-> kind, size |-> IF laid = <<>> THEN 20 ELSE laid[Len(laid)].to + 2,
     words |-> laid, entries |-> entries, parsed |-> parsed, defs |-> defs]
Text_(laid) == Doc("text", laid, <<>>, FALSE, <<>>)
InOrder(n) == [i \in 1 .. n |-> i]

TextsOf(n, shapes) ==
    {Text_(Laid(ss, es \o <<"paragraph">>, InOrder(n))) :
        ss \in [1 .. n -> shapes], es \in [1 .. n - 1 -> Ends]}
Texts ==
    (UNION {TextsOf(n, Shapes) : n \in 1 .. MaxWords})
        \cup TextsOf(MaxWords + 1, {Shape(2, 1), Shape(8, 1)})
        \cup TextsOf(MaxWords + 2, {Shape(2, 1)})

(* What serde_json makes of it: the last entry of each key, by the keys.   *)
Entries(laid) ==
    SetToSortSeq({i \in DOMAIN laid : \A j \in DOMAIN laid : j > i => laid[j].key # laid[i].key},
                 LAMBDA i, j : laid[i].key < laid[j].key)
ValueOf(laid) == Doc("json", laid, Entries(laid), FALSE, <<>>)
ValuesOf(n) ==
    {ValueOf(Laid(ss, [i \in 1 .. n |-> "word"], keys)) :
        ss \in [1 .. n -> Shapes \ {Shape(7, 4)}], keys \in [1 .. n -> 1 .. n]}
Values == UNION {ValuesOf(n) : n \in 0 .. MaxWords - 1}

Def(name, first, last) == [name |-> name, first |-> first, last |-> last]
Sorted(defs) == \A i \in 1 .. Len(defs) - 1 :
    /\ defs[i].first <= defs[i + 1].first
    /\ defs[i + 1].last <= defs[i].last \/ defs[i].last < defs[i + 1].first
Defs == {Def("f", i, j) : i, j \in 1 .. MaxWords}
Files ==
    LET laid == Laid([i \in 1 .. MaxWords |-> Shape(3, 1)], [i \in 1 .. MaxWords |-> "word"],
                     InOrder(MaxWords))
        sound == {d \in Defs : d.first <= d.last}
    IN  {Doc("code", laid, <<>>, TRUE, defs) :
            defs \in {s \in UNION {[1 .. n -> sound] : n \in 0 .. 3} : Sorted(s)}}
        \cup {Doc("code", laid, <<>>, FALSE, <<>>)}

MCDocuments == Texts \cup Values \cup Files
=============================================================================
