------------------------- MODULE HybridChunkerProofs -------------------------
(***************************************************************************)
(* What is true of the chunks of any files and for any limits: their       *)
(* sizes, the partition of a code file into definitions and loose code,    *)
(* and that every word is kept, in its order.                              *)
(***************************************************************************)
EXTENDS HybridChunker, WellFoundedInduction, TLAPS

LEMMA NatMin ==
    ASSUME NEW T \in SUBSET Nat, T # {}
    PROVE  \E x \in T : \A y \in T : x <= y
<1>1. PICK x \in T : \A y \in T : ~ (<<y, x>> \in OpToRel(<, Nat))
  BY Zenon, WFMin, NatLessThanWellFounded
<1>2. \A y \in T : ~ (y < x)
  BY <1>1 DEF OpToRel
<1> QED
  BY <1>2

LEMMA NatMax ==
    ASSUME NEW n \in Nat, NEW T \in SUBSET (0 .. n), T # {}
    PROVE  \E x \in T : \A y \in T : y <= x
<1> DEFINE U == {n - t : t \in T}
<1>1. U \in SUBSET Nat /\ U # {}
  <2>1. \A t \in T : n - t \in Nat
    OBVIOUS
  <2> QED
    BY <2>1
<1>2. PICK u \in U : \A v \in U : u <= v
  BY <1>1, NatMin
<1>3. PICK t \in T : u = n - t
  BY <1>2
<1>4. \A s \in T : n - t <= n - s
  BY <1>2, <1>3
<1> QED
  BY <1>3, <1>4

-----------------------------------------------------------------------------
(* Where a piece ends.                                                     *)

LEMMA WordsTyped ==
    ASSUME doc \in Documents
    PROVE  /\ words \in Seq(Word) /\ Len(words) \in Nat
           /\ \A i, j \in 1 .. Len(words) : /\ TextLen(i, j) \in Int /\ Size(i) \in Nat
                                            /\ i <= j => TextLen(i, j) \in Nat
<1>1. doc \in Document /\ words \in Seq(Word) /\ DOMAIN words = 1 .. Len(words)
  BY DocumentsAssumption DEF Document, words
<1>2. \A i \in DOMAIN words : words[i].from <= words[i].to
  <2>1. \A i, j \in DOMAIN words : i <= j => words[i].from <= words[j].to
    BY DocumentsAssumption DEF words
  <2>2. DOMAIN words \subseteq Int
    BY <1>1
  <2> QED
    BY <2>1, <2>2
<1>3. \A i \in DOMAIN words : words[i].from \in Nat /\ words[i].to \in Nat
  <2>1. \A i \in DOMAIN words : words[i] \in Word
    BY <1>1
  <2> QED
    BY <2>1 DEF Word
<1>4. \A i, j \in DOMAIN words : i <= j => words[i].from <= words[j].to
  BY DocumentsAssumption DEF words
<1>5. ASSUME NEW i \in DOMAIN words, NEW j \in DOMAIN words
      PROVE  /\ TextLen(i, j) \in Int /\ Size(i) \in Nat
             /\ i <= j => TextLen(i, j) \in Nat
  BY <1>2, <1>3, <1>4 DEF TextLen, Size
<1> QED
  BY <1>1, <1>5

(* What is read: the words, or the entries of a value that is cut. *)
LEMMA TotalTyped ==
    ASSUME doc \in Documents
    PROVE  /\ Total \in Nat
           /\ (doc.kind # "json" \/ ~IsCut) => Total = Len(words)
           /\ doc.kind = "json" /\ IsCut =>
                 \A n \in 1 .. Total : doc.entries[n] \in 1 .. Len(words)
<1>1. Len(words) \in Nat /\ DOMAIN words = 1 .. Len(words)
  BY WordsTyped
<1>2. doc.entries \in Seq(Nat \ {0})
  BY DocumentsAssumption DEF Document
<1>3. doc.kind = "json" => Range(doc.entries) \subseteq DOMAIN words
  BY DocumentsAssumption DEF Parsed, LastOfKey, words
<1>4. \A n \in 1 .. Len(doc.entries) : doc.entries[n] \in Range(doc.entries)
  BY <1>2 DEF Range
<1> QED
  BY <1>1, <1>2, <1>3, <1>4 DEF Total

LEMMA LastOfTyped ==
    ASSUME doc \in Documents, NEW i \in 1 .. Len(words)
    PROVE  LastOf(i) \in i .. Len(words)
<1> DEFINE T == {l \in i .. Len(words) : l = Len(words) \/ l \in ParagraphEnds}
<1>1. Len(words) \in Nat
  BY WordsTyped
<1>2. T \in SUBSET Nat /\ T # {}
  BY <1>1
<1>3. PICK l \in T : \A k \in T : l <= k
  BY <1>2, NatMin
<1>4. \A j \in i .. l - 1 : j \notin ParagraphEnds
  BY <1>1, <1>3
<1> DEFINE Q(m) == /\ \A j \in i .. m - 1 : j \notin ParagraphEnds
                   /\ m = Len(words) \/ m \in ParagraphEnds
<1>5. \E m \in i .. Len(words) : Q(m)
  BY <1>3, <1>4
<1>6. LastOf(i) = CHOOSE m \in i .. Len(words) : Q(m)
  BY DEF LastOf
<1> HIDE DEF Q
<1> QED
  BY Zenon, <1>5, <1>6

LEMMA FirstOfTyped ==
    ASSUME doc \in Documents, NEW i \in 1 .. Len(words)
    PROVE  FirstOf(i) \in 1 .. i
<1> DEFINE T == {f \in 1 .. i : f = 1 \/ (f - 1) \in ParagraphEnds}
<1>1. i \in Nat
  BY WordsTyped
<1>2. T \in SUBSET (0 .. i) /\ T # {}
  BY <1>1
<1>3. PICK f \in T : \A k \in T : k <= f
  BY <1>1, <1>2, NatMax
<1>4. ASSUME NEW j \in f .. i - 1, j \in ParagraphEnds PROVE FALSE
  <2>1. j + 1 \in 1 .. i /\ (j + 1) - 1 = j /\ j + 1 > f
    BY <1>1, <1>3
  <2>2. j + 1 \in T
    BY <1>4, <2>1
  <2> QED
    BY <1>1, <1>3, <2>1, <2>2
<1>5. \E f1 \in 1 .. i : /\ \A j \in f1 .. i - 1 : j \notin ParagraphEnds
                         /\ f1 = 1 \/ (f1 - 1) \in ParagraphEnds
  BY <1>3, <1>4
<1> QED
  BY <1>5 DEF FirstOf

LEMMA PieceEndTyped ==
    ASSUME doc \in Documents, NEW i \in 1 .. Len(words)
    PROVE  PieceEnd(i) \in i .. Len(words)
<1> DEFINE L == LastOf(i)
           T == {j \in i .. L : j = L \/ words[j].ends = "sentence"}
<1>1. Len(words) \in Nat /\ L \in i .. Len(words)
  BY WordsTyped, LastOfTyped
<1> HIDE DEF L
<1>2. T \in SUBSET Nat /\ L \in T
  BY <1>1
<1>3. PICK j \in T : \A k \in T : j <= k
  BY <1>2, NatMin
<1>4. \A k \in i .. j - 1 : words[k].ends # "sentence"
  BY <1>1, <1>3
<1>5. \E m \in i .. L : Sentence(i, m)
  BY <1>1, <1>3, <1>4 DEF Sentence, L
<1> QED
  BY <1>1, <1>5 DEF PieceEnd, L

-----------------------------------------------------------------------------
(* Chunks and what is done to them.                                        *)

LastGap(chunk) == IF chunk.tokens = <<>> THEN 0 ELSE chunk.tokens[Len(chunk.tokens)].gap
Fits(chunk) ==
    /\ chunk.tokens = <<>> => chunk.len = 0
    /\ chunk.len >= LastGap(chunk)
    /\ chunk.len - LastGap(chunk) <= MaxChunk + Overlap

LEMMA TextTyped ==
    ASSUME doc \in Documents, NEW i \in 1 .. Len(words), NEW j \in i .. Len(words),
           NEW gap \in 0 .. 2
    PROVE  /\ Text(i, j, gap) \in ChunkType
           /\ Text(i, j, gap).tokens # <<>>
           /\ Text(i, j, gap).len = TextLen(i, j) + gap
           /\ LastGap(Text(i, j, gap)) = gap
<1>1. /\ Len(words) \in Nat /\ i \in Nat \ {0} /\ j \in Nat /\ i <= j
      /\ j - i + 1 \in Nat \ {0} /\ j \in 1 .. Len(words)
  BY WordsTyped
<1>2. \A k \in i .. j : Size(k) \in Nat /\ Gap(k) \in 0 .. 2
  <2>1. \A k \in i .. j : k \in 1 .. Len(words)
    BY <1>1
  <2> QED
    BY <2>1, WordsTyped DEF Gap
<1>3. \A n \in 1 .. j - i + 1 : /\ i + n - 1 \in i .. j
                                 /\ Tokens(i, j, gap)[n] \in TokenType
  BY <1>1, <1>2 DEF Tokens, Token, TokenType
<1>4. Tokens(i, j, gap) \in Seq(TokenType) /\ Len(Tokens(i, j, gap)) = j - i + 1
  <2>1. Tokens(i, j, gap) \in [1 .. j - i + 1 -> TokenType]
    BY Zenon, <1>3 DEF Tokens
  <2> QED
    BY <1>1, <2>1
<1>5. Tokens(i, j, gap)[j - i + 1].gap = gap
  BY <1>1 DEF Tokens, Token
<1>6. TextLen(i, j) \in Nat /\ TextLen(i, j) + gap \in Nat
  <2>1. TextLen(i, j) \in Nat
    BY <1>1, WordsTyped
  <2> QED
    BY <2>1
<1> QED
  BY <1>1, <1>4, <1>5, <1>6 DEF Text, ChunkType, LastGap

LEMMA AppendTyped ==
    ASSUME NEW c \in ChunkType, NEW t \in ChunkType, t.tokens # <<>>
    PROVE  /\ Append2(c, t) \in ChunkType
           /\ Append2(c, t).tokens # <<>>
           /\ Append2(c, t).len = c.len + t.len
           /\ LastGap(Append2(c, t)) = LastGap(t)
BY DEF Append2, ChunkType, LastGap

LEMMA LastGapTyped == ASSUME NEW c \in ChunkType PROVE LastGap(c) \in 0 .. 2
<1>1. c.tokens # <<>> => c.tokens[Len(c.tokens)] \in TokenType
  BY DEF ChunkType
<1> QED
  BY <1>1 DEF LastGap, TokenType

LEMMA TrimTyped ==
    ASSUME NEW c \in ChunkType, c.tokens # <<>>, c.len >= LastGap(c)
    PROVE  Trim(c) \in ChunkType /\ Trim(c).len = c.len - LastGap(c)
<1> DEFINE n == Len(c.tokens)
<1>1. n \in 1 .. n /\ c.tokens[n] \in TokenType
  BY DEF ChunkType
<1>2. [c.tokens EXCEPT ![n].gap = 0] \in Seq(TokenType)
  <2>1. [c.tokens[n] EXCEPT !.gap = 0] \in TokenType
    BY <1>1 DEF TokenType
  <2>2. c.tokens \in Seq(TokenType)
    BY DEF ChunkType
  <2> QED
    BY <1>1, <2>1, <2>2
<1>3. c.tokens[n].gap \in Int /\ c.len \in Nat /\ c.len - c.tokens[n].gap \in Nat
  BY <1>1 DEF TokenType, ChunkType, LastGap
<1> QED
  BY <1>2, <1>3 DEF Trim, ChunkType, LastGap

LEMMA OverlapTyped ==
    ASSUME NEW c \in ChunkType
    PROVE  /\ OverlapText(c) \in ChunkType
           /\ OverlapText(c).len <= Overlap
           /\ Fits(OverlapText(c))
<1> USE ChunkingAssumption
<1>1. Empty \in ChunkType /\ Empty.len = 0 /\ Fits(Empty)
  BY DEF Empty, ChunkType, Fits, LastGap
<1>2. CASE OverlapText(c) = Empty
  BY <1>1, <1>2
<1>3. CASE OverlapText(c) # Empty
  <2>1. PICK n \in DOMAIN c.tokens :
           /\ LenOf(LastWords(c.tokens, n)) \in 1 .. Overlap
           /\ OverlapText(c) = [tokens |-> LastWords(c.tokens, n),
                                 len |-> LenOf(LastWords(c.tokens, n))]
    <3> DEFINE starts == {n \in DOMAIN c.tokens : n = 1 \/ c.tokens[n - 1].gap > 0}
               fitting == {n \in starts : LenOf(LastWords(c.tokens, n)) \in 1 .. Overlap}
               n == CHOOSE n \in fitting : \A m \in fitting : n <= m
    <3>1. fitting # {} /\ fitting \in SUBSET Nat
      BY <1>3 DEF OverlapText, ChunkType
    <3>2. n \in fitting
      BY <3>1, NatMin
    <3>3. OverlapText(c) = [tokens |-> LastWords(c.tokens, n),
                            len |-> LenOf(LastWords(c.tokens, n))]
      BY Zenon, <1>3 DEF OverlapText
    <3> QED
      BY <3>2, <3>3
  <2>2. SubSeq(c.tokens, n, Len(c.tokens)) \in Seq(TokenType)
    BY DEF ChunkType
  <2>3. LastWords(c.tokens, n) \in Seq(TokenType)
    <3> DEFINE t == SubSeq(c.tokens, n, Len(c.tokens))
    <3> HIDE DEF t
    <3>1. t \in Seq(TokenType) /\ DOMAIN t = 1 .. Len(t) /\ Len(t) \in Nat
      BY <2>2 DEF t
    <3>2. \A m \in DOMAIN t : t[m] \in TokenType
      BY <3>1
    <3>3. \A m \in DOMAIN t : \A g \in 0 .. 2 : [t[m] EXCEPT !.gap = g] \in TokenType
      BY <3>2 DEF TokenType
    <3>4. \A m \in DOMAIN t :
             [t[m] EXCEPT !.gap = IF @ > 0 \/ m = Len(t) THEN 1 ELSE 0] \in TokenType
      <4> TAKE m \in DOMAIN t
      <4> DEFINE g == IF t[m].gap > 0 \/ m = Len(t) THEN 1 ELSE 0
      <4>1. g \in 0 .. 2
        OBVIOUS
      <4>2. [t[m] EXCEPT !.gap = g] \in TokenType
        <5> HIDE DEF g
        <5> QED
          BY <3>3, <4>1
      <4> QED
        BY <4>2
    <3>5. Blanked(t) \in [DOMAIN t -> TokenType]
      BY Zenon, <3>4 DEF Blanked
    <3>6. Blanked(t) \in Seq(TokenType)
      BY <3>1, <3>5
    <3> QED
      BY <3>6 DEF LastWords, t
  <2>4. OverlapText(c) \in ChunkType
    BY <2>1, <2>3 DEF ChunkType
  <2>5. LastWords(c.tokens, n) # <<>> /\ LastGap(OverlapText(c)) = 1
    <3> DEFINE t == SubSeq(c.tokens, n, Len(c.tokens))
    <3>1. t \in Seq(TokenType) /\ Len(t) \in Nat \ {0}
      BY DEF ChunkType
    <3> HIDE DEF t
    <3>2. Blanked(t) # <<>> /\ Len(Blanked(t)) = Len(t)
      BY <3>1 DEF Blanked
    <3>3. Blanked(t)[Len(t)].gap = 1
      <4>1. t[Len(t)] \in TokenType
        BY <3>1
      <4> QED
        BY <3>1, <4>1 DEF Blanked, TokenType
    <3>4. LastWords(c.tokens, n) = Blanked(t) /\ OverlapText(c).tokens = Blanked(t)
      BY <2>1 DEF LastWords, t
    <3> QED
      BY <3>2, <3>3, <3>4 DEF LastGap
  <2>6. OverlapText(c).len \in 1 .. Overlap
    BY <2>1
  <2> QED
    BY <2>1, <2>4, <2>5, <2>6 DEF Fits
<1> QED
  BY <1>2, <1>3

-----------------------------------------------------------------------------
(* The invariant: what is being filled fits, or will once its last blank   *)
(* is trimmed; a JSON chunk counts for more than it is written with.       *)

JsonFits(chunk) ==
    /\ chunk.tokens = <<>> => chunk.len = 2
    /\ chunk.len >= Len(chunk.tokens) + 1
    /\ Len(chunk.tokens) > 1 => chunk.len <= MaxChunk

ChunkInv ==
    /\ doc \in Documents
    /\ at \in 0 .. Total
    /\ upto \in 0 .. Len(words)
    /\ current \in ChunkType
    /\ chunks \in Seq(ChunkType)
    /\ pc = "raw" => chunks = <<>>
    /\ pc \in {"ast", "raw"} => current = Empty /\ chunks = <<>>
    /\ pc = "json" => doc.kind = "json" /\ IsCut /\ JsonFits(current)
    /\ pc \in {"pieces", "words"} => doc.kind # "json" /\ Fits(current)
    /\ ChunkSizeBounded

InLimits(c) ==
    \/ c.len <= MaxChunk + Overlap
    \/ IsBlock(c) /\ c.len <= 4 * MaxChunk

LEMMA LimitsKept ==
    ASSUME doc' = doc, doc.kind # "json", \A n \in DOMAIN chunks' : InLimits(chunks'[n])
    PROVE  ChunkSizeBounded'
BY DEF ChunkSizeBounded, InLimits, IsBlock, Size, words

LEMMA SameLimits ==
    ASSUME doc' = doc, chunks' = chunks, ChunkSizeBounded PROVE ChunkSizeBounded'
BY DEF ChunkSizeBounded, IsBlock, Size, words

(* What is flushed is within the limits, and so is what stays open.        *)
LEMMA FlushTyped ==
    ASSUME ChunkInv, pc \in {"pieces", "words"}, NEW len \in Int
    PROVE  /\ Open(len) \in ChunkType /\ Fits(Open(len))
           /\ Open(len).tokens = <<>> \/ Open(len).len + len <= MaxChunk
                \/ Open(len).len <= Overlap
           /\ Flushed(len) \in Seq(ChunkType)
           /\ \A n \in DOMAIN Flushed(len) : InLimits(Flushed(len)[n])
<1>1. /\ current \in ChunkType /\ Fits(current) /\ chunks \in Seq(ChunkType)
      /\ \A n \in DOMAIN chunks : InLimits(chunks[n])
  BY DEF ChunkInv, ChunkSizeBounded, InLimits
<1>2. CASE IsFull(len)
  <2>1. current.tokens # <<>>
    BY <1>2 DEF IsFull
  <2>2. Trim(current) \in ChunkType /\ InLimits(Trim(current))
    BY <1>1, <2>1, TrimTyped DEF Fits, InLimits
  <2>3. Flushed(len) = Append(chunks, Trim(current)) /\ Open(len) = OverlapText(current)
    BY <1>2 DEF Flushed, Open
  <2>4. /\ OverlapText(current) \in ChunkType /\ OverlapText(current).len <= Overlap
        /\ Fits(OverlapText(current))
    BY <1>1, OverlapTyped
  <2>5. Append(chunks, Trim(current)) \in Seq(ChunkType)
    BY <1>1, <2>2
  <2>6. \A n \in DOMAIN Append(chunks, Trim(current)) :
           InLimits(Append(chunks, Trim(current))[n])
    BY <1>1, <2>2
  <2> QED
    BY <2>3, <2>4, <2>5, <2>6
<1>3. CASE ~ IsFull(len)
  <2>1. Flushed(len) = chunks /\ Open(len) = current
    BY <1>3 DEF Flushed, Open
  <2>2. current.tokens = <<>> \/ current.len + len <= MaxChunk
    BY <1>1, <1>3, ChunkingAssumption DEF IsFull, ChunkType
  <2> QED
    BY <1>1, <2>1, <2>2
<1> QED
  BY <1>2, <1>3

LEMMA AddedLength ==
    ASSUME NEW x \in Nat, NEW y \in Int, NEW gap \in 0 .. 2, NEW max \in Nat, NEW over \in Nat,
           y - gap <= max, x = 0 \/ x + y <= max \/ x <= over
    PROVE  (x + y) - gap <= max + over
OBVIOUS

(* What is added to an open chunk fits.                                    *)
LEMMA AddTyped ==
    ASSUME ChunkInv, pc \in {"pieces", "words"}, NEW t \in ChunkType, t.tokens # <<>>,
           t.len - LastGap(t) <= MaxChunk, t.len >= LastGap(t)
    PROVE  /\ Append2(Open(t.len), t) \in ChunkType
           /\ Fits(Append2(Open(t.len), t))
<1> DEFINE o == Open(t.len)
           a == Append2(o, t)
<1>1. t.len \in Int /\ LastGap(t) \in 0 .. 2
  BY LastGapTyped DEF ChunkType
<1>2. /\ o \in ChunkType /\ Fits(o)
      /\ o.tokens = <<>> \/ o.len + t.len <= MaxChunk \/ o.len <= Overlap
  BY <1>1, FlushTyped
<1> HIDE DEF o
<1>3. a \in ChunkType /\ a.tokens # <<>> /\ a.len = o.len + t.len /\ LastGap(a) = LastGap(t)
  BY <1>2, AppendTyped
<1> HIDE DEF a
<1>4. o.len \in Nat /\ (o.tokens = <<>> => o.len = 0)
  BY <1>2 DEF ChunkType, Fits
<1>5. a.len - LastGap(a) <= MaxChunk + Overlap
  <2>1. o.len = 0 \/ o.len + t.len <= MaxChunk \/ o.len <= Overlap
    BY <1>2, <1>4
  <2>2. (o.len + t.len) - LastGap(t) <= MaxChunk + Overlap
    BY <1>1, <1>4, <2>1, ChunkingAssumption, AddedLength
  <2> QED
    BY <1>3, <2>2
<1>6. a.len >= LastGap(a)
  BY <1>1, <1>3, <1>4
<1> QED
  BY <1>3, <1>5, <1>6 DEF Fits, o, a

(* What is pending when a word is cut or the text ends. *)
LEMMA PendingTyped ==
    ASSUME ChunkInv, pc \in {"pieces", "words"}
    PROVE  Pending \in Seq(ChunkType) /\ \A n \in DOMAIN Pending : InLimits(Pending[n])
<1>1. CASE current.tokens = <<>>
  BY <1>1 DEF Pending
<1>2. CASE current.tokens # <<>>
  <2>1. Trim(current) \in ChunkType /\ InLimits(Trim(current))
    BY <1>2, TrimTyped DEF ChunkInv, Fits, InLimits
  <2>2. Pending = <<Trim(current)>>
    BY <1>2 DEF Pending
  <2> QED
    BY <2>1, <2>2
<1> QED
  BY <1>1, <1>2

(* A block begins in its word. *)
LEMMA BlockStarts ==
    ASSUME NEW size \in Nat, NEW max \in Nat, max > 0,
           NEW k, k = (size + max - 1) \div max
    PROVE  /\ k \in Nat
           /\ \A n \in 1 .. k : (n - 1) * max \in Nat /\ (n - 1) * max <= size
           /\ size > 0 => k > 0
<1>0. k \in Nat
  <2>1. size + max - 1 \in Nat
    OBVIOUS
  <2> QED
    BY <2>1
<1>1. k * max <= size + max - 1 /\ size + max - 1 < (k + 1) * max
  BY <1>0
<1>2. ASSUME NEW n \in 1 .. k PROVE (n - 1) * max \in Nat /\ (n - 1) * max <= size
  <2>1. (n - 1) * max <= (k - 1) * max /\ (n - 1) * max \in Nat
    BY <1>0
  <2>2. (k - 1) * max = k * max - max
    BY <1>0
  <2> QED
    BY <1>0, <1>1, <2>1, <2>2
<1>3. ASSUME size > 0, k = 0 PROVE FALSE
  BY <1>1, <1>3
<1> QED
  BY <1>0, <1>2, <1>3

(* The characters of a word: where the blocks begin and end among them,   *)
(* and in bytes.                                                           *)
BlockCount(i) == (Len(words[i].chars) + MaxChunk - 1) \div MaxChunk
Place(i, n) == IF n * MaxChunk < Len(words[i].chars) THEN n * MaxChunk ELSE Len(words[i].chars)
ByteEnd(i, n) == CharEnd(words[i], Place(i, n))
Block(i, n) == Token(i, ByteEnd(i, n - 1), ByteEnd(i, n) - ByteEnd(i, n - 1), 0)

LEMMA CharsTyped ==
    ASSUME doc \in Documents, NEW i \in 1 .. Len(words)
    PROVE  /\ Len(words[i].chars) \in Nat
           /\ CharEnd(words[i], Len(words[i].chars)) = Size(i)
           /\ \A n \in 0 .. Len(words[i].chars) : CharEnd(words[i], n) \in Nat
           /\ \A m, n \in 0 .. Len(words[i].chars) :
                 m <= n => CharEnd(words[i], n) - CharEnd(words[i], m) \in 0 .. 4 * (n - m)
<1>1. DOMAIN words = 1 .. Len(words) /\ words[i] \in Word
  BY WordsTyped
<1>2. words[i].chars \in Seq(Nat) /\ Encoded(words[i])
  BY <1>1, DocumentsAssumption DEF Word, words
<1> DEFINE w == words[i]
           c == Len(w.chars)
<1>3. c \in Nat /\ \A n \in 0 .. c : CharEnd(w, n) \in Nat
  BY <1>2 DEF CharEnd
<1>4. /\ CharEnd(w, c) = w.to - w.from
      /\ \A m, n \in 0 .. c : m <= n => CharEnd(w, n) - CharEnd(w, m) \in n - m .. 4 * (n - m)
  BY <1>2 DEF Encoded
<1>5. CharEnd(w, c) = Size(i)
  BY <1>4 DEF Size
<1> HIDE DEF w, c
<1>6. \A m, n \in 0 .. c : m <= n => CharEnd(w, n) - CharEnd(w, m) \in 0 .. 4 * (n - m)
  <2>1. ASSUME NEW m \in Int, NEW n \in Int, m <= n, NEW d, d \in n - m .. 4 * (n - m)
        PROVE  d \in 0 .. 4 * (n - m)
    BY <2>1
  <2>2. ASSUME NEW m \in 0 .. c, NEW n \in 0 .. c, m <= n
        PROVE  CharEnd(w, n) - CharEnd(w, m) \in 0 .. 4 * (n - m)
    <3>1. m \in Int /\ n \in Int
      OBVIOUS
    <3>2. CharEnd(w, n) - CharEnd(w, m) \in n - m .. 4 * (n - m)
      BY Zenon, <1>4, <2>2
    <3> QED
      BY <2>1, <2>2, <3>1, <3>2
  <2> QED
    BY <2>2
<1> QED
  BY <1>3, <1>5, <1>6 DEF w, c

LEMMA PlaceTyped ==
    ASSUME NEW count \in Nat, NEW max \in Nat, NEW x \in Nat, NEW y, y = x + max, x <= count
    PROVE  LET e == IF y < count THEN y ELSE count
               b == IF x < count THEN x ELSE count
           IN  b \in 0 .. count /\ e \in 0 .. count /\ b <= e /\ e - b <= max
OBVIOUS

LEMMA BlocksTyped ==
    ASSUME doc \in Documents, NEW i \in 1 .. Len(words)
    PROVE  /\ BlockCount(i) \in Nat
           /\ Size(i) > 0 => BlockCount(i) > 0
           /\ \A n \in 1 .. BlockCount(i) : /\ Block(i, n) \in TokenType
                                              /\ Block(i, n).size <= 4 * MaxChunk
           /\ Blocks(i) = [n \in 1 .. BlockCount(i) |->
                              [tokens |-> <<Block(i, n)>>, len |-> Block(i, n).size]]
           /\ Blocks(i) \in Seq(ChunkType)
           /\ Size(i) > MaxChunk => \A n \in DOMAIN Blocks(i) : InLimits(Blocks(i)[n])
<1> DEFINE count == Len(words[i].chars)
           k == BlockCount(i)
<1>1. count \in Nat /\ MaxChunk \in Nat /\ MaxChunk > 0 /\ i \in Nat \ {0}
  BY CharsTyped, WordsTyped, ChunkingAssumption
<1>2. k = (count + MaxChunk - 1) \div MaxChunk
  BY DEF BlockCount
<1> HIDE DEF k
<1>3. /\ k \in Nat
      /\ count > 0 => k > 0
      /\ \A n \in 1 .. k : (n - 1) * MaxChunk \in Nat /\ (n - 1) * MaxChunk <= count
  <2> HIDE DEF count
  <2> QED
    BY <1>1, <1>2, BlockStarts
<1>4. Size(i) > 0 => count > 0
  BY <1>1, CharsTyped DEF CharEnd
<1>5. ASSUME NEW n \in 1 .. k
      PROVE  /\ ByteEnd(i, n - 1) \in Nat /\ ByteEnd(i, n) - ByteEnd(i, n - 1) \in Nat
             /\ ByteEnd(i, n) - ByteEnd(i, n - 1) <= 4 * MaxChunk
  <2> DEFINE b == Place(i, n - 1)
             e == Place(i, n)
             x == (n - 1) * MaxChunk
             y == n * MaxChunk
  <2>1. x \in Nat /\ x <= count /\ y = x + MaxChunk
    BY <1>1, <1>3
  <2>2. b = (IF x < count THEN x ELSE count) /\ e = (IF y < count THEN y ELSE count)
    BY DEF Place
  <2> HIDE DEF b, e, x, y, count
  <2>3. b \in 0 .. count /\ e \in 0 .. count /\ b <= e /\ e - b <= MaxChunk
    BY <1>1, <2>1, <2>2, PlaceTyped
  <2> DEFINE B == ByteEnd(i, n - 1)
             E == ByteEnd(i, n)
  <2>4. B \in Nat /\ E - B \in 0 .. 4 * (e - b) /\ E \in Nat
    BY <2>3, CharsTyped DEF ByteEnd, b, e, count
  <2> HIDE DEF B, E
  <2>5. E - B \in Nat /\ E - B <= 4 * MaxChunk
    BY <1>1, <2>3, <2>4
  <2> QED
    BY <2>4, <2>5 DEF B, E
<1>6. \A n \in 1 .. k : Block(i, n) \in TokenType /\ Block(i, n).size <= 4 * MaxChunk
  BY <1>1, <1>5 DEF Block, Token, TokenType
<1>7. Blocks(i) = [n \in 1 .. k |-> [tokens |-> <<Block(i, n)>>, len |-> Block(i, n).size]]
  BY DEF Blocks, Block, ByteEnd, Place, Token, k, BlockCount
<1>8. ASSUME NEW t \in TokenType PROVE [tokens |-> <<t>>, len |-> t.size] \in ChunkType
  BY DEF TokenType, ChunkType
<1>9. Blocks(i) \in Seq(ChunkType) /\ DOMAIN Blocks(i) = 1 .. k
  <2>1. \A n \in 1 .. k : [tokens |-> <<Block(i, n)>>, len |-> Block(i, n).size] \in ChunkType
    BY <1>6, <1>8
  <2>2. Blocks(i) \in [1 .. k -> ChunkType]
    BY <1>7, <2>1
  <2> QED
    BY <1>3, <2>2
<1>10. ASSUME Size(i) > MaxChunk, NEW n \in 1 .. k PROVE InLimits(Blocks(i)[n])
  <2> DEFINE c == [tokens |-> <<Block(i, n)>>, len |-> Block(i, n).size]
  <2>1. Blocks(i)[n] = c
    BY <1>7
  <2>2. Len(c.tokens) = 1 /\ c.tokens[1].word = i
    BY DEF Block, Token
  <2>3. c.len <= 4 * MaxChunk
    BY <1>6
  <2> HIDE DEF c
  <2> QED
    BY <1>10, <2>1, <2>2, <2>3 DEF InLimits, IsBlock
<1> QED
  BY <1>3, <1>4, <1>6, <1>7, <1>9, <1>10 DEF k

LEMMA ConcatBounded ==
    ASSUME NEW s \in Seq(ChunkType), NEW t \in Seq(ChunkType),
           \A n \in DOMAIN s : InLimits(s[n]), \A n \in DOMAIN t : InLimits(t[n])
    PROVE  s \o t \in Seq(ChunkType) /\ \A n \in DOMAIN (s \o t) : InLimits((s \o t)[n])
OBVIOUS

LEMMA BracketsTyped ==
    /\ Bracketed \in ChunkType /\ Bracketed.tokens = <<>> /\ Bracketed.len = 2
    /\ JsonFits(Bracketed)
<1>1. Bracketed = [tokens |-> <<>>, len |-> 2]
  BY DEF Bracketed, Empty
<1>2. <<>> \in Seq(TokenType) /\ Len(<<>>) = 0
  OBVIOUS
<1>3. [tokens |-> <<>>, len |-> 2] \in ChunkType
  BY <1>2 DEF ChunkType
<1> QED
  BY <1>1, <1>2, <1>3 DEF JsonFits

LEMMA InitChunkInv == Init => ChunkInv
<1>1. Init => Empty \in ChunkType /\ Len(words) \in Nat /\ Total \in Nat
  BY WordsTyped, TotalTyped DEF Init, Empty, ChunkType
<1> QED
  BY <1>1 DEF Init, ChunkInv, ChunkSizeBounded

LEMMA TokensLength ==
    /\ \A s \in Seq(TokenType) : s # <<>> => Len(s) = 1 \/ Len(s) > 1
    /\ \A s, t \in Seq(TokenType) :
          Len(t) = 1 => s \o t # <<>> /\ Len(s \o t) = Len(s) + 1 /\ Len(s) \in Nat
<1>1. ASSUME NEW s \in Seq(TokenType), s # <<>> PROVE Len(s) = 1 \/ Len(s) > 1
  <2> DEFINE l == Len(s)
  <2>1. l \in Nat /\ l # 0
    BY <1>1
  <2> HIDE DEF l
  <2>2. l = 1 \/ l > 1
    BY <2>1
  <2> QED
    BY <2>2 DEF l
<1>2. ASSUME NEW s \in Seq(TokenType), NEW t \in Seq(TokenType), Len(t) = 1
      PROVE  s \o t # <<>> /\ Len(s \o t) = Len(s) + 1 /\ Len(s) \in Nat
  <2>1. Len(s) \in Nat /\ Len(s \o t) = Len(s) + Len(t)
    OBVIOUS
  <2>2. Len(s \o t) # 0
    BY <1>2, <2>1
  <2> QED
    BY <1>2, <2>1, <2>2
<1> QED
  BY <1>1, <1>2

(* What is written of a JSON chunk is no longer than it was counted.       *)
LEMMA WrittenTyped ==
    ASSUME NEW c \in ChunkType, JsonFits(c), c.tokens # <<>>
    PROVE  /\ Written(c) \in ChunkType
           /\ Written(c).len <= MaxChunk \/ Len(Written(c).tokens) = 1
<1>1. Len(c.tokens) \in Nat \ {0} /\ c.len \in Nat
  BY DEF ChunkType
<1>2. c.len - Len(c.tokens) - 1 \in Nat
  BY <1>1 DEF JsonFits
<1>3. Written(c) = [tokens |-> c.tokens, len |-> c.len - Len(c.tokens) - 1]
  BY DEF Written, ChunkType
<1>4. /\ Written(c).tokens = c.tokens /\ Written(c).len = c.len - Len(c.tokens) - 1
      /\ Written(c) \in ChunkType
  BY <1>2, <1>3 DEF ChunkType
<1>5. CASE Len(c.tokens) = 1
  BY <1>4, <1>5
<1>6. CASE Len(c.tokens) > 1
  <2>1. c.len <= MaxChunk
    BY <1>6 DEF JsonFits
  <2>2. c.len - Len(c.tokens) - 1 <= MaxChunk
    BY <1>1, <2>1, ChunkingAssumption
  <2> QED
    BY <1>4, <2>2
<1>7. Len(c.tokens) = 1 \/ Len(c.tokens) > 1
  BY TokensLength DEF ChunkType
<1> QED
  BY <1>5, <1>6, <1>7

LEMMA NextChunkInv == ChunkInv /\ [Next]_vars => ChunkInv'
<1> SUFFICES ASSUME ChunkInv, [Next]_vars PROVE ChunkInv'
  OBVIOUS
<1> USE ChunkingAssumption DEF astVars, rawVars
<1>a. /\ Len(words) \in Nat /\ at \in 0 .. Total /\ at \in Nat /\ doc \in Documents
      /\ Total \in Nat
      /\ (doc.kind # "json" \/ ~IsCut) => Total = Len(words)
      /\ chunks \in Seq(ChunkType) /\ current \in ChunkType
  BY WordsTyped, TotalTyped DEF ChunkInv
<1>b. doc.kind # "json" => \A n \in DOMAIN chunks : InLimits(chunks[n])
  BY DEF ChunkInv, ChunkSizeBounded, InLimits
<1>c. doc' = doc => words' = words /\ Total' = Total /\ IsCut' = IsCut
  BY DEF words, Total, IsCut
<1>1. CASE CutDefinition \/ CutRest
  <2>1. /\ doc' = doc /\ UNCHANGED <<at, upto, current, chunks>>
        /\ pc = "ast" /\ pc' \in {"ast", "raw"}
    BY <1>1 DEF CutDefinition, CutRest
  <2>2. ChunkSizeBounded'
    BY <2>1, SameLimits DEF ChunkInv
  <2> QED
    BY <1>c, <2>1, <2>2 DEF ChunkInv
<1>2. CASE Begin
  <2>1. /\ doc' = doc /\ words' = words /\ Total' = Total /\ IsCut' = IsCut /\ upto' = upto
        /\ pc = "raw" /\ current = Empty /\ chunks = <<>>
    BY <1>2, <1>c DEF Begin, ChunkInv
  <2>2. CASE /\ pc' = "done" /\ at' = Len(words) /\ current' = current
             /\ ~IsCut
             /\ chunks' = IF words = <<>> THEN <<Empty>> ELSE <<Text(1, Len(words), 0)>>
    <3>1. Empty \in ChunkType /\ Empty.len = 0
      BY DEF Empty, ChunkType
    <3>2. CASE words = <<>>
      BY <2>1, <2>2, <3>1, <3>2, <1>a DEF ChunkInv, ChunkSizeBounded
    <3>3. CASE words # <<>>
      <4> DEFINE t == Text(1, Len(words), 0)
      <4>1. Len(words) \in Nat \ {0} /\ DOMAIN words = 1 .. Len(words)
        BY <1>a, <3>3, WordsTyped
      <4>2. t \in ChunkType /\ t.len = TextLen(1, Len(words)) + 0 /\ TextLen(1, Len(words)) \in Int
        <5>1. 1 \in 1 .. Len(words) /\ Len(words) \in 1 .. Len(words) /\ 0 \in 0 .. 2
          BY <4>1
        <5>2. TextLen(1, Len(words)) \in Int
          BY <1>a, <5>1, WordsTyped
        <5> QED
          BY <1>a, <5>1, <5>2, TextTyped
      <4>3. TextLen(1, Len(words)) <= doc.size /\ doc.size \in Nat
        <5>1. words[1] \in Word /\ words[Len(words)] \in Word
          <6>1. words \in Seq(Word)
            BY <1>a, WordsTyped
          <6> QED
            BY <4>1, <6>1
        <5>2. words[Len(words)].to <= doc.size /\ doc.size \in Nat
          BY <1>a, <4>1, DocumentsAssumption DEF words, Document
        <5> QED
          BY <5>1, <5>2 DEF TextLen, Word
      <4>4. t.len <= MaxChunk
        BY <2>2, <4>2, <4>3 DEF IsCut
      <4>5. chunks' = <<t>> /\ t.len <= MaxChunk + Overlap
        BY <2>2, <3>3, <4>2, <4>4
      <4> HIDE DEF t
      <4> QED
        BY <2>1, <2>2, <4>2, <4>4, <4>5, <1>a DEF ChunkInv, ChunkSizeBounded
    <3> QED
      BY <3>2, <3>3
  <2>3. CASE /\ pc' = "json" /\ doc.kind = "json" /\ IsCut /\ current' = Bracketed
             /\ at' = at /\ chunks' = chunks
    BY <2>1, <2>3, <1>a, BracketsTyped DEF ChunkInv, ChunkSizeBounded
  <2>4. CASE /\ pc' = "pieces" /\ doc.kind # "json" /\ UNCHANGED <<at, current, chunks>>
    BY <2>1, <2>4, <1>a DEF ChunkInv, ChunkSizeBounded, Empty, ChunkType, Fits, LastGap
  <2> QED
    BY <1>2, <2>2, <2>3, <2>4 DEF Begin
<1>3. CASE AddEntry
  <2> DEFINE size == Size(doc.entries[at + 1]) + 2
             full == current.tokens # <<>> /\ current.len + size > MaxChunk
             open == Renewed(full)
             entry == [tokens |-> <<Token(at + 1, 0, size - 2, 1)>>, len |-> size]
  <2>1. /\ doc.kind = "json" /\ IsCut /\ JsonFits(current) /\ at + 1 \in 1 .. Total
        /\ doc' = doc /\ pc' = "json" /\ upto' = upto /\ at' = at + 1
    BY <1>3, <1>a DEF AddEntry, ChunkInv
  <2>2. size \in Nat /\ size - 2 \in Nat
    <3>1. doc.entries[at + 1] \in 1 .. Len(words)
      BY <1>a, <2>1, TotalTyped
    <3>2. Size(doc.entries[at + 1]) \in Nat
      BY <1>a, <3>1, WordsTyped
    <3> QED
      BY <3>2
  <2>3. entry \in ChunkType /\ entry.tokens # <<>> /\ Len(entry.tokens) = 1
    BY <1>a, <2>2 DEF Token, TokenType, ChunkType
  <2>4. open \in ChunkType /\ open.tokens # <<>> => open = current /\ current.len + size <= MaxChunk
    <3>1. CASE full
      <4>1. open = Bracketed
        BY <3>1 DEF Renewed
      <4>2. open.tokens = <<>>
        BY <4>1, BracketsTyped
      <4> QED
        BY <4>2
    <3>2. CASE ~ full
      <4>1. open = current
        BY <3>2 DEF Renewed
      <4>2. CASE current.tokens = <<>>
        BY <4>1, <4>2
      <4>3. CASE current.tokens # <<>>
        <5>1. current.len + size <= MaxChunk
          <6>1. ~ (current.len + size > MaxChunk)
            BY <3>2, <4>3
          <6>2. current.len \in Int
            BY <1>a DEF ChunkType
          <6> QED
            BY <2>2, <6>1, <6>2
        <5> QED
          BY <4>1, <5>1
      <4> QED
        BY <4>2, <4>3
    <3> QED
      BY <3>1, <3>2
  <2>5. /\ open \in ChunkType /\ (open.tokens = <<>> => open.len = 2)
        /\ open.len >= Len(open.tokens) + 1
    <3>1. open \in ChunkType /\ JsonFits(open)
      BY <1>a, <2>1, BracketsTyped DEF Renewed
    <3> QED
      BY <3>1 DEF JsonFits
  <2>6. /\ chunks' = IF full THEN Append(chunks, Written(current)) ELSE chunks
        /\ current' = Append2(open, entry)
    BY Zenon, <1>3 DEF AddEntry
  <2>7. Written(current) \in ChunkType \/ current.tokens = <<>>
    BY <1>a, <2>1, WrittenTyped
  <2>8. chunks' \in Seq(ChunkType) /\ ChunkSizeBounded'
    <3>1. CASE ~ full
      BY <1>a, <2>1, <2>6, <3>1, SameLimits DEF ChunkInv
    <3>2. CASE full
      <4>1. /\ Written(current) \in ChunkType
            /\ Written(current).len <= MaxChunk \/ Len(Written(current).tokens) = 1
        BY <1>a, <2>1, <3>2, WrittenTyped
      <4>2. chunks' = Append(chunks, Written(current))
        BY <2>6, <3>2
      <4>3. \A n \in DOMAIN chunks : chunks[n].len <= MaxChunk \/ Len(chunks[n].tokens) = 1
        BY <2>1 DEF ChunkInv, ChunkSizeBounded
      <4> QED
        BY <1>a, <2>1, <4>1, <4>2, <4>3 DEF ChunkSizeBounded
    <3> QED
      BY <3>1, <3>2
  <2> HIDE DEF entry, open, full
  <2>9. /\ current' \in ChunkType /\ current'.tokens = open.tokens \o entry.tokens
        /\ current'.len = open.len + entry.len
    BY <2>3, <2>5, <2>6, AppendTyped DEF Append2
  <2>10. entry.len = size
    BY DEF entry
  <2>11. JsonFits(current')
    <3>1. open.tokens \in Seq(TokenType) /\ entry.tokens \in Seq(TokenType) /\ Len(entry.tokens) = 1
      BY <2>3, <2>5 DEF ChunkType
    <3>2. /\ current'.tokens # <<>> /\ Len(open.tokens) \in Nat
          /\ Len(current'.tokens) = Len(open.tokens) + 1
      BY Zenon, <2>9, <3>1, TokensLength
    <3>5. current'.len >= Len(current'.tokens) + 1
      <4>1. open.len \in Nat
        BY <2>5 DEF ChunkType
      <4> QED
        BY <2>2, <2>5, <2>9, <2>10, <3>2, <4>1
    <3>3. CASE open.tokens = <<>>
      BY <3>2, <3>3, <3>5 DEF JsonFits
    <3>4. CASE open.tokens # <<>>
      <4>1. current'.len = current.len + size /\ current.len + size <= MaxChunk
        BY <2>4, <2>5, <2>9, <2>10, <3>4
      <4> QED
        BY <3>2, <3>5, <4>1 DEF JsonFits
    <3> QED
      BY <3>3, <3>4
  <2>12. at' \in 0 .. Total' /\ upto' \in 0 .. Len(words)' /\ IsCut'
    BY <1>a, <1>c, <2>1 DEF ChunkInv
  <2>13. JsonFits(current)'
    BY <2>11 DEF JsonFits
  <2> QED
    BY <1>a, <2>1, <2>8, <2>9, <2>12, <2>13 DEF ChunkInv
<1>4. CASE EndJson
  <2>1. /\ doc.kind = "json" /\ JsonFits(current) /\ doc' = doc /\ words' = words
        /\ pc' = "done" /\ UNCHANGED <<at, upto, current>> /\ Total' = Total
    BY <1>4, <1>c DEF EndJson, ChunkInv
  <2> DEFINE c == IF current.tokens = <<>> THEN Bracketed ELSE Written(current)
  <2>2. c \in ChunkType /\ (c.len <= MaxChunk \/ Len(c.tokens) = 1)
    <3>1. CASE current.tokens = <<>>
      BY <3>1, BracketsTyped
    <3>2. CASE current.tokens # <<>>
      BY <1>a, <2>1, <3>2, WrittenTyped
    <3> QED
      BY <3>1, <3>2
  <2>3. chunks' = Append(chunks, c)
    BY Zenon, <1>4 DEF EndJson
  <2> HIDE DEF c
  <2>4. \A n \in DOMAIN chunks : chunks[n].len <= MaxChunk \/ Len(chunks[n].tokens) = 1
    BY <2>1 DEF ChunkInv, ChunkSizeBounded
  <2>5. chunks' \in Seq(ChunkType) /\ ChunkSizeBounded'
    BY <1>a, <2>1, <2>2, <2>3, <2>4 DEF ChunkSizeBounded
  <2> QED
    BY <2>1, <2>5 DEF ChunkInv
<1>5. CASE AddPiece
  <2> DEFINE j == PieceEnd(at + 1)
             t == Text(at + 1, j, PieceGap(at + 1, j))
  <2>1. /\ pc = "pieces" /\ at + 1 \in 1 .. Len(words) /\ doc' = doc /\ words' = words
        /\ doc.kind # "json" /\ upto \in 0 .. Len(words) /\ Total' = Total /\ Total = Len(words)
    BY <1>5, <1>a, <1>c DEF AddPiece, ChunkInv
  <2>2. j \in at + 1 .. Len(words) /\ PieceGap(at + 1, j) \in 0 .. 2
    BY <1>a, <2>1, PieceEndTyped DEF PieceGap
  <2>3. /\ t \in ChunkType /\ t.tokens # <<>> /\ LastGap(t) \in 0 .. 2 /\ t.len \in Int
        /\ t.len >= LastGap(t) /\ t.len - LastGap(t) <= t.len
    <3>1. /\ t \in ChunkType /\ t.tokens # <<>> /\ LastGap(t) = PieceGap(at + 1, j)
          /\ t.len = TextLen(at + 1, j) + PieceGap(at + 1, j)
      BY <1>a, <2>1, <2>2, TextTyped
    <3>2. TextLen(at + 1, j) \in Nat
      BY <1>a, <2>1, <2>2, WordsTyped
    <3> QED
      BY <2>2, <3>1, <3>2
  <2>4. /\ chunks' = Flushed(t.len)
        /\ \/ /\ t.len <= MaxChunk
              /\ current' = Append2(Open(t.len), t)
              /\ at' = j
              /\ pc' = pc /\ upto' = upto
           \/ /\ current' = Open(t.len)
              /\ pc' = "words"
              /\ upto' = j
              /\ at' = at
    BY Zenon, <1>5 DEF AddPiece
  <2> HIDE DEF t, j
  <2>5. /\ Open(t.len) \in ChunkType /\ Fits(Open(t.len)) /\ chunks' \in Seq(ChunkType)
        /\ \A n \in DOMAIN chunks' : InLimits(chunks'[n])
    BY <2>1, <2>3, <2>4, FlushTyped
  <2>6. ASSUME t.len <= MaxChunk
        PROVE  Append2(Open(t.len), t) \in ChunkType /\ Fits(Append2(Open(t.len), t))
    <3>1. t.len - LastGap(t) <= MaxChunk
      BY <2>3, <2>6
    <3> QED
      BY <2>1, <2>3, <3>1, AddTyped
  <2>7. current' \in ChunkType /\ Fits(current') /\ pc' \in {"pieces", "words"}
    BY <2>1, <2>4, <2>5, <2>6
  <2>8. at' \in 0 .. Len(words) /\ upto' \in 0 .. Len(words)
    BY <1>a, <2>1, <2>2, <2>4
  <2>9. ChunkSizeBounded'
    BY <2>1, <2>5, LimitsKept
  <2> QED
    BY <1>a, <2>1, <2>5, <2>7, <2>8, <2>9 DEF ChunkInv, Fits, LastGap
<1>6. CASE AddWord
  <2> DEFINE t == Text(at + 1, at + 1, 1)
  <2>1. /\ pc = "words" /\ at + 1 \in 1 .. Len(words) /\ doc' = doc /\ words' = words
        /\ doc.kind # "json" /\ upto' = upto /\ upto \in 0 .. Len(words) /\ at' = at + 1
        /\ pc' = pc /\ Size(at + 1) <= MaxChunk
    BY <1>6, <1>a DEF AddWord, ChunkInv, words
  <2>7. Total = Len(words) /\ Total' = Total
    BY <1>a, <1>c, <2>1
  <2>2. /\ t \in ChunkType /\ t.tokens # <<>> /\ LastGap(t) = 1 /\ t.len = TextLen(at + 1, at + 1) + 1
        /\ TextLen(at + 1, at + 1) = Size(at + 1) /\ Size(at + 1) \in Nat
    <3>1. at + 1 \in at + 1 .. Len(words) /\ 1 \in 0 .. 2
      BY <1>a, <2>1
    <3>2. TextLen(at + 1, at + 1) = Size(at + 1) /\ Size(at + 1) \in Nat
      BY <1>a, <2>1, WordsTyped DEF TextLen, Size
    <3> QED
      BY <1>a, <2>1, <3>1, <3>2, TextTyped
  <2>3. t.len - LastGap(t) <= MaxChunk /\ t.len \in Int
    BY <2>1, <2>2
  <2>4. chunks' = Flushed(t.len) /\ current' = Append2(Open(t.len), t)
    BY Zenon, <1>6 DEF AddWord
  <2> HIDE DEF t
  <2>5. /\ chunks' \in Seq(ChunkType)
        /\ \A n \in DOMAIN chunks' : InLimits(chunks'[n])
    BY <2>1, <2>3, <2>4, FlushTyped
  <2>6. current' \in ChunkType /\ Fits(current')
    BY <2>1, <2>2, <2>3, <2>4, AddTyped
  <2>8. ChunkSizeBounded'
    BY <2>1, <2>5, LimitsKept
  <2> QED
    BY <1>a, <2>1, <2>5, <2>6, <2>7, <2>8 DEF ChunkInv, Fits, LastGap
<1>7. CASE CutWord
  <2>1. /\ pc = "words" /\ at + 1 \in 1 .. Len(words) /\ doc' = doc /\ words' = words
        /\ doc.kind # "json" /\ upto' = upto /\ upto \in 0 .. Len(words) /\ at' = at + 1
        /\ pc' = pc /\ current' = Empty /\ chunks' = (chunks \o Pending) \o Blocks(at + 1)
    BY <1>7, <1>a DEF CutWord, ChunkInv, words
  <2>2. /\ Blocks(at + 1) \in Seq(ChunkType)
        /\ \A n \in DOMAIN Blocks(at + 1) : InLimits(Blocks(at + 1)[n])
    <3>1. Size(at + 1) > MaxChunk
      BY <1>7 DEF CutWord
    <3> QED
      BY <1>a, <2>1, <3>1, BlocksTyped
  <2>3. /\ chunks \o Pending \in Seq(ChunkType)
        /\ \A n \in DOMAIN (chunks \o Pending) : InLimits((chunks \o Pending)[n])
    BY <1>a, <1>b, <2>1, PendingTyped, ConcatBounded
  <2>4. /\ chunks' \in Seq(ChunkType)
        /\ \A n \in DOMAIN chunks' : InLimits(chunks'[n])
    BY <1>a, <2>1, <2>2, <2>3, ConcatBounded
  <2>5. current' \in ChunkType /\ Fits(current')
    BY <2>1 DEF Empty, ChunkType, Fits, LastGap
  <2>6. ChunkSizeBounded'
    BY <2>1, <2>4, LimitsKept
  <2>7. /\ Len(words) \in Nat /\ at + 1 \in 0 .. Total /\ Total' = Total /\ doc \in Documents
    BY <1>a, <1>c, <2>1
  <2> QED
    BY <2>1, <2>4, <2>5, <2>6, <2>7 DEF ChunkInv, Fits, LastGap
<1>8. CASE EndPiece
  <2>1. /\ doc' = doc /\ UNCHANGED <<at, upto, current, chunks>>
        /\ pc = "words" /\ pc' = "pieces"
    BY <1>8 DEF EndPiece
  <2>2. ChunkSizeBounded'
    BY <2>1, SameLimits DEF ChunkInv
  <2> QED
    BY <1>c, <2>1, <2>2 DEF ChunkInv, Fits, LastGap
<1>9. CASE EndText
  <2>1. /\ pc = "pieces" /\ doc' = doc /\ words' = words /\ doc.kind # "json"
        /\ UNCHANGED <<at, upto>> /\ pc' = "done" /\ current' = Empty
        /\ chunks' = chunks \o Pending
    BY <1>9 DEF EndText, ChunkInv, words
  <2>2. /\ chunks' \in Seq(ChunkType)
        /\ \A n \in DOMAIN chunks' : InLimits(chunks'[n])
    BY <1>a, <1>b, <2>1, PendingTyped, ConcatBounded
  <2>3. Empty \in ChunkType
    BY DEF Empty, ChunkType
  <2>4. ChunkSizeBounded'
    BY <2>1, <2>2, LimitsKept
  <2> QED
    BY <1>c, <2>1, <2>2, <2>3, <2>4 DEF ChunkInv
<1>10. CASE UNCHANGED vars
  <2>1. UNCHANGED <<doc, pc, at, upto, current, chunks>>
    BY <1>10 DEF vars
  <2>2. ChunkSizeBounded'
    BY <2>1, SameLimits DEF ChunkInv
  <2> QED
    BY <1>c, <2>1, <2>2 DEF ChunkInv, Fits, LastGap, JsonFits
<1> QED
  BY <1>1, <1>2, <1>3, <1>4, <1>5, <1>6, <1>7, <1>8, <1>9, <1>10 DEF Next

(* No raw chunk of a text has more bytes than the limit and the overlap,   *)
(* but for the blocks of a word that is too long, which have up to four    *)
(* times the limit; and none of a JSON value is longer than the limit but  *)
(* for single entries, whatever the files are and however their words      *)
(* fall.                                                                   *)
THEOREM SpecChunkSizeBounded == Spec => []ChunkSizeBounded
<1>1. ChunkInv => ChunkSizeBounded
  BY DEF ChunkInv
<1> QED
  BY <1>1, InitChunkInv, NextChunkInv, PTL DEF Spec

-----------------------------------------------------------------------------
(* The definitions and the loose code between them.                        *)

Inside(x, c) == c.first <= x /\ x <= c.last

(* The chunks hold the words 1 .. e, and loose code shares none.           *)
Covers(cs, e) ==
    \A x \in Nat : x \in 1 .. e <=> \E n \in DOMAIN cs : Inside(x, cs[n])
Apart(cs) ==
    \A m, n \in DOMAIN cs : \A x \in Nat :
        m # n /\ IsLoose(cs[m]) => ~(Inside(x, cs[m]) /\ Inside(x, cs[n]))
LooseSigned(cs) ==
    \A n \in DOMAIN cs : IsLoose(cs[n]) =>
        /\ cs[n].first <= cs[n].last
        /\ cs[n].signature = <<"loose_code", cs[n].first - 1>>

(* Loose code lies before the definition that was taken after it.          *)
LooseBefore(cs, x) ==
    \A n \in DOMAIN cs : IsLoose(cs[n]) => cs[n].last < x

AstInv ==
    /\ doc \in Documents
    /\ pc \in {"ast", "raw", "pieces", "words", "json", "done"}
    /\ node \in 0 .. Len(doc.defs)
    /\ last_end \in 0 .. Len(words)
    /\ ast \in Seq(AstChunkType)
    /\ doc.kind = "code" /\ doc.parsed =>
          /\ Covers(ast, IF pc = "ast" THEN last_end ELSE Len(words))
          /\ Apart(ast) /\ LooseSigned(ast)
          /\ pc = "ast" => \A i \in 1 .. Len(doc.defs) :
                              i > node => LooseBefore(ast, doc.defs[i].first)

(* The definitions of a file. *)
LEMMA DefsTyped ==
    ASSUME doc \in Documents
    PROVE  /\ doc \in Document /\ Len(doc.defs) \in Nat /\ DOMAIN doc.defs = 1 .. Len(doc.defs)
           /\ Len(words) \in Nat /\ DOMAIN words = 1 .. Len(words)
           /\ \A i \in 1 .. Len(doc.defs) :
                 /\ doc.defs[i].first \in Nat \ {0} /\ doc.defs[i].last \in Nat
                 /\ doc.defs[i].first <= doc.defs[i].last /\ doc.defs[i].last <= Len(words)
                 /\ \A j \in 1 .. i : doc.defs[j].first <= doc.defs[i].first
<1>1. doc \in Document /\ words \in Seq(Word) /\ doc.defs \in Seq(Definition)
  BY DocumentsAssumption DEF Document, words
<1>2. DOMAIN doc.defs = 1 .. Len(doc.defs) /\ Len(doc.defs) \in Nat
  BY <1>1
<1>3. DOMAIN words = 1 .. Len(words) /\ Len(words) \in Nat
  BY <1>1
<1>4. \A i \in DOMAIN doc.defs : doc.defs[i] \in Definition
  BY <1>1
<1>5. \A i \in DOMAIN doc.defs : doc.defs[i].first \in Nat \ {0} /\ doc.defs[i].last \in Nat
  BY <1>4 DEF Definition
<1>6. /\ \A i \in DOMAIN doc.defs : /\ doc.defs[i].first <= doc.defs[i].last
                                    /\ doc.defs[i].last <= Len(words)
      /\ \A i, j \in DOMAIN doc.defs : i <= j => doc.defs[i].first <= doc.defs[j].first
  BY DocumentsAssumption DEF words
<1> QED
  BY <1>1, <1>2, <1>3, <1>5, <1>6

(* What Loose adds: at most one chunk. *)
LEMMA LooseTyped ==
    ASSUME doc \in Documents, NEW first \in Nat \ {0}, NEW last \in Int, last <= Len(words)
    PROVE  /\ first > last => Loose(first, last) = <<>>
           /\ first <= last => \E c \in AstChunkType :
                 /\ Loose(first, last) = <<c>>
                 /\ c.first = first /\ c.last = last /\ IsLoose(c)
                 /\ c.signature = <<"loose_code", first - 1>>
<1>1. first - 1 \in Nat /\ Len(words) \in Nat
  BY DefsTyped
<1>2. ASSUME first <= last PROVE AstChunk(<<"loose_code", first - 1>>, first, last) \in AstChunkType
  <2>1. first - 1 \in 0 .. Len(words) /\ last \in Nat
    BY <1>1, <1>2
  <2> QED
    BY <2>1 DEF AstChunk, AstChunkType
<1> QED
  BY <1>2 DEF Loose, AstChunk, IsLoose

LEMMA NodeTyped ==
    ASSUME doc \in Documents, NEW i \in 1 .. Len(doc.defs)
    PROVE  \E c \in AstChunkType :
              /\ Node(doc.defs[i]) = <<c>> /\ ~IsLoose(c)
              /\ c.first = doc.defs[i].first /\ c.last = doc.defs[i].last
<1> DEFINE d == doc.defs[i]
           c == AstChunk(<<"definition", d.name>>, d.first, d.last)
<1>1. d \in Range(doc.defs) /\ d.first \in Nat \ {0} /\ d.last \in Nat
  BY DefsTyped DEF Range
<1>2. c \in AstChunkType
  BY <1>1 DEF AstChunk, AstChunkType
<1> QED
  BY <1>2 DEF Node, AstChunk, IsLoose

(* A sequence with one element more. *)
LEMMA OneMore ==
    ASSUME NEW S, NEW s \in Seq(S), NEW c \in S
    PROVE  /\ s \o <<c>> \in Seq(S) /\ Len(s) \in Nat
           /\ DOMAIN (s \o <<c>>) = DOMAIN s \cup {Len(s) + 1} /\ Len(s) + 1 \notin DOMAIN s
           /\ \A n \in DOMAIN s : (s \o <<c>>)[n] = s[n]
           /\ (s \o <<c>>)[Len(s) + 1] = c
OBVIOUS

(* Loose code that goes on where the chunks end. *)
LEMMA LooseAdded ==
    ASSUME NEW T, NEW cs \in Seq(T), NEW c \in T, NEW e \in Nat,
           Covers(cs, e), Apart(cs), LooseSigned(cs),
           c.first = e + 1, c.last \in Nat, c.first <= c.last, IsLoose(c),
           c.signature = <<"loose_code", c.first - 1>>
    PROVE  Covers(cs \o <<c>>, c.last) /\ Apart(cs \o <<c>>) /\ LooseSigned(cs \o <<c>>)
<1> DEFINE all == cs \o <<c>>
           l == Len(cs) + 1
<1>1. /\ DOMAIN all = DOMAIN cs \cup {l} /\ l \notin DOMAIN cs
      /\ \A n \in DOMAIN cs : all[n] = cs[n]
      /\ all[l] = c
  BY OneMore
<1> HIDE DEF all, l
<1>2. \A x \in Nat : x \in 1 .. c.last <=> (x \in 1 .. e \/ Inside(x, c))
  BY DEF Inside
<1>3. Covers(all, c.last)
  BY <1>1, <1>2 DEF Covers
<1>4. \A n \in DOMAIN cs : \A x \in Nat : ~(Inside(x, cs[n]) /\ Inside(x, c))
  <2>1. \A x \in Nat : Inside(x, c) => x \notin 1 .. e
    BY DEF Inside
  <2> QED
    BY <2>1 DEF Covers
<1>5. Apart(all)
  BY <1>1, <1>4 DEF Apart
<1>6. LooseSigned(all)
  BY <1>1 DEF LooseSigned
<1> QED
  BY <1>3, <1>5, <1>6 DEF all

(* A definition that does not reach back to any loose code. *)
LEMMA NodeAdded ==
    ASSUME NEW T, NEW cs \in Seq(T), NEW c \in T, NEW e \in Nat,
           Covers(cs, e), Apart(cs), LooseSigned(cs), LooseBefore(cs, c.first),
           c.first \in Nat \ {0}, c.last \in Nat, c.first <= e + 1, c.first <= c.last, ~IsLoose(c),
           \A n \in DOMAIN cs : cs[n].last \in Int
    PROVE  /\ Covers(cs \o <<c>>, IF c.last > e THEN c.last ELSE e)
           /\ Apart(cs \o <<c>>) /\ LooseSigned(cs \o <<c>>)
<1> DEFINE all == cs \o <<c>>
           l == Len(cs) + 1
           end == IF c.last > e THEN c.last ELSE e
<1>1. /\ DOMAIN all = DOMAIN cs \cup {l} /\ l \notin DOMAIN cs
      /\ \A n \in DOMAIN cs : all[n] = cs[n]
      /\ all[l] = c
  BY OneMore
<1> HIDE DEF all, l
<1>2. \A x \in Nat : x \in 1 .. end <=> (x \in 1 .. e \/ Inside(x, c))
  BY DEF Inside
<1> HIDE DEF end
<1>3. Covers(all, end)
  BY <1>1, <1>2 DEF Covers
<1>4. \A n \in DOMAIN cs : IsLoose(cs[n]) =>
         \A x \in Nat : ~(Inside(x, cs[n]) /\ Inside(x, c))
  BY DEF Inside, LooseBefore
<1>5. Apart(all)
  BY <1>1, <1>4 DEF Apart
<1>6. LooseSigned(all)
  BY <1>1 DEF LooseSigned
<1> QED
  BY <1>3, <1>5, <1>6 DEF all, end

(* The loose code up to a word, if there is any. *)
LEMMA GapAdded ==
    ASSUME doc \in Documents, NEW cs \in Seq(AstChunkType), NEW e \in Nat,
           NEW x \in Nat \ {0}, x - 1 <= Len(words)
    PROVE  LET mid == cs \o Loose(e + 1, x - 1)
               g == IF x - 1 > e THEN x - 1 ELSE e
           IN  /\ mid \in Seq(AstChunkType)
               /\ Covers(cs, e) /\ Apart(cs) /\ LooseSigned(cs) /\ LooseBefore(cs, x) =>
                     Covers(mid, g) /\ Apart(mid) /\ LooseSigned(mid) /\ LooseBefore(mid, x)
<1> DEFINE gap == Loose(e + 1, x - 1)
           g == IF x - 1 > e THEN x - 1 ELSE e
<1>1. e + 1 \in Nat \ {0} /\ x - 1 \in Int /\ g \in Nat /\ (e + 1) - 1 = e
  OBVIOUS
<1>2. CASE e + 1 > x - 1
  <2>1. gap = <<>>
    BY <1>1, <1>2, LooseTyped
  <2>2. cs \o gap = cs
    <3> HIDE DEF gap
    <3> QED
      BY <2>1
  <2>3. g = e
    BY <1>2
  <2> QED
    BY <2>2, <2>3
<1>3. CASE e + 1 <= x - 1
  <2>1. PICK b \in AstChunkType : /\ gap = <<b>> /\ IsLoose(b)
                                  /\ b.first = e + 1 /\ b.last = x - 1
                                  /\ b.signature = <<"loose_code", (e + 1) - 1>>
    BY <1>1, <1>3, LooseTyped
  <2>2. g = b.last
    BY <1>3, <2>1
  <2> HIDE DEF gap, g
  <2> DEFINE mid == cs \o <<b>>
  <2>3. /\ DOMAIN mid = DOMAIN cs \cup {Len(cs) + 1} /\ mid \in Seq(AstChunkType)
        /\ \A n \in DOMAIN cs : mid[n] = cs[n]
        /\ mid[Len(cs) + 1] = b
    BY OneMore
  <2>4. b.last \in Nat /\ b.first <= b.last /\ b.last < x
    BY <1>3, <2>1
  <2>5. ASSUME Covers(cs, e), Apart(cs), LooseSigned(cs)
        PROVE  Covers(mid, b.last) /\ Apart(mid) /\ LooseSigned(mid)
    <3> HIDE DEF mid
    <3>1. b.signature = <<"loose_code", b.first - 1>>
      BY <2>1
    <3>2. mid = cs \o <<b>>
      BY DEF mid
    <3> QED
      BY <2>1, <2>4, <2>5, <3>1, <3>2, LooseAdded
  <2>6. LooseBefore(cs, x) => LooseBefore(mid, x)
    <3> HIDE DEF mid
    <3> QED
      BY <2>3, <2>4 DEF LooseBefore
  <2> QED
    BY <2>1, <2>2, <2>3, <2>5, <2>6 DEF gap, g
<1> QED
  BY <1>2, <1>3

LEMMA CutDefinitionAst ==
    ASSUME AstInv, CutDefinition
    PROVE  AstInv'
<1> DEFINE i == node + 1
           d == doc.defs[i]
           mid == ast \o Loose(last_end + 1, d.first - 1)
           g == IF d.first - 1 > last_end THEN d.first - 1 ELSE last_end
<1>1. /\ doc' = doc /\ pc = "ast" /\ pc' = "ast" /\ words' = words /\ node' = i
      /\ i \in 1 .. Len(doc.defs)
      /\ doc \in Documents /\ ast \in Seq(AstChunkType)
  BY DefsTyped DEF CutDefinition, AstInv, words
<1>2. node \in Nat /\ last_end \in Nat /\ last_end <= Len(words) /\ Len(words) \in Nat
  BY DefsTyped DEF AstInv
<1>3. /\ d.first \in Nat \ {0} /\ d.last \in Nat /\ d.first <= d.last /\ d.last <= Len(words)
      /\ \A j \in 1 .. Len(doc.defs) : j > node => d.first <= doc.defs[j].first
      /\ \A j \in 1 .. Len(doc.defs) : doc.defs[j].first \in Nat
  BY <1>1, <1>2, DefsTyped
<1>4. PICK c \in AstChunkType : /\ Node(d) = <<c>> /\ ~IsLoose(c)
                                /\ c.first = d.first /\ c.last = d.last
  BY <1>1, NodeTyped
<1>5. last_end' = (IF d.last > last_end THEN d.last ELSE last_end) /\ ast' = mid \o <<c>>
  BY <1>4 DEF CutDefinition, AfterNode
<1> HIDE DEF d
<1>6. /\ mid \in Seq(AstChunkType)
      /\ Covers(ast, last_end) /\ Apart(ast) /\ LooseSigned(ast) /\ LooseBefore(ast, d.first) =>
            Covers(mid, g) /\ Apart(mid) /\ LooseSigned(mid) /\ LooseBefore(mid, d.first)
  <2>1. d.first - 1 <= Len(words)
    BY <1>2, <1>3
  <2> QED
    BY <1>1, <1>2, <1>3, <2>1, GapAdded
<1>7. g \in Nat /\ d.first <= g + 1 /\ last_end' = (IF d.last > g THEN d.last ELSE g)
  BY <1>2, <1>3, <1>5
<1> HIDE DEF mid, g
<1>8. /\ DOMAIN ast' = DOMAIN mid \cup {Len(mid) + 1} /\ ast' \in Seq(AstChunkType)
      /\ \A n \in DOMAIN mid : ast'[n] = mid[n]
      /\ ast'[Len(mid) + 1] = c
  BY <1>5, <1>6, OneMore
<1>9. last_end' \in 0 .. Len(words)
  BY <1>2, <1>3, <1>5
<1>10. /\ \A n \in DOMAIN mid : mid[n].last \in Int
       /\ \A n \in DOMAIN ast' : ast'[n].last \in Int
  <2>1. \A n \in DOMAIN mid : mid[n] \in AstChunkType
    BY <1>6
  <2>2. \A n \in DOMAIN ast' : ast'[n] \in AstChunkType
    BY <1>8, <2>1
  <2> QED
    BY <2>1, <2>2 DEF AstChunkType
<1>11. ASSUME doc.kind = "code", doc.parsed
       PROVE  /\ Covers(ast', last_end') /\ Apart(ast') /\ LooseSigned(ast')
              /\ \A j \in 1 .. Len(doc.defs) : j > i => LooseBefore(ast', doc.defs[j].first)
  <2>1. /\ Covers(ast, last_end) /\ Apart(ast) /\ LooseSigned(ast)
        /\ \A j \in 1 .. Len(doc.defs) : j > node => LooseBefore(ast, doc.defs[j].first)
    BY <1>1, <1>11 DEF AstInv
  <2>2. LooseBefore(ast, d.first)
    <3>1. i > node
      BY <1>2
    <3> QED
      BY <1>1, <2>1, <3>1 DEF d
  <2>3. Covers(mid, g) /\ Apart(mid) /\ LooseSigned(mid) /\ LooseBefore(mid, d.first)
    BY <1>6, <2>1, <2>2
  <2>4. Covers(ast', last_end') /\ Apart(ast') /\ LooseSigned(ast')
    BY <1>3, <1>4, <1>5, <1>6, <1>7, <1>10, <2>3, NodeAdded
  <2>5. LooseBefore(ast', d.first)
    BY <1>4, <1>8, <2>3 DEF LooseBefore
  <2>6. ASSUME NEW j \in 1 .. Len(doc.defs), j > i PROVE LooseBefore(ast', doc.defs[j].first)
    <3>1. d.first <= doc.defs[j].first /\ doc.defs[j].first \in Nat /\ d.first \in Nat
      <4>1. j > node
        BY <1>2, <2>6
      <4> QED
        BY <1>3, <4>1
    <3> QED
      BY <1>10, <2>5, <3>1 DEF LooseBefore
  <2> QED
    BY <2>4, <2>6
<1>12. AstChunkType' = AstChunkType
  BY <1>1 DEF AstChunkType
<1> QED
  BY <1>1, <1>8, <1>9, <1>11, <1>12 DEF AstInv

LEMMA CutRestAst ==
    ASSUME AstInv, CutRest
    PROVE  AstInv'
<1>1. /\ doc' = doc /\ pc = "ast" /\ pc' = "raw" /\ words' = words
      /\ UNCHANGED <<node, last_end>> /\ ast' = ast \o Rest
      /\ doc \in Documents /\ ast \in Seq(AstChunkType)
  BY DEF CutRest, AstInv, words
<1>2. last_end \in Nat /\ last_end <= Len(words) /\ Len(words) \in Nat /\ node = Len(doc.defs)
  BY DefsTyped DEF AstInv, CutRest
<1> DEFINE x == Len(words) + 1
<1>3. /\ x \in Nat \ {0} /\ x - 1 = Len(words) /\ x - 1 <= Len(words)
      /\ (IF x - 1 > last_end THEN x - 1 ELSE last_end) = Len(words)
  BY <1>2
<1> HIDE DEF x
<1>4. /\ ast' \in Seq(AstChunkType)
      /\ Covers(ast, last_end) /\ Apart(ast) /\ LooseSigned(ast) /\ LooseBefore(ast, x) =>
            Covers(ast', Len(words)) /\ Apart(ast') /\ LooseSigned(ast')
  <2>1. ast' = ast \o Loose(last_end + 1, x - 1)
    BY <1>1, <1>3 DEF Rest
  <2> QED
    BY <1>1, <1>2, <1>3, <2>1, GapAdded
<1>5. ASSUME doc.kind = "code", doc.parsed
      PROVE  Covers(ast, last_end) /\ Apart(ast) /\ LooseSigned(ast) /\ LooseBefore(ast, x)
  <2>1. Covers(ast, last_end) /\ Apart(ast) /\ LooseSigned(ast)
    BY <1>1, <1>5 DEF AstInv
  <2>2. \A n \in DOMAIN ast : IsLoose(ast[n]) => ast[n].last < x
    <3>1. \A n \in DOMAIN ast : ast[n] \in AstChunkType
      BY <1>1
    <3>2. \A n \in DOMAIN ast : ast[n].last \in Nat /\ ast[n].first \in Nat
      BY <3>1 DEF AstChunkType
    <3>3. \A n \in DOMAIN ast : IsLoose(ast[n]) => ast[n].last \in 1 .. last_end
      BY <2>1, <3>2 DEF Covers, LooseSigned, Inside
    <3> QED
      BY <1>2, <3>3 DEF x
  <2> QED
    BY <2>1, <2>2 DEF LooseBefore
<1>6. AstChunkType' = AstChunkType
  BY <1>1 DEF AstChunkType
<1> QED
  BY <1>1, <1>2, <1>4, <1>5, <1>6 DEF AstInv

LEMMA InitAstInv == Init => AstInv
<1> SUFFICES ASSUME Init PROVE AstInv
  OBVIOUS
<1>1. Len(words) \in Nat /\ Len(doc.defs) \in Nat /\ doc \in Documents
  BY DefsTyped DEF Init
<1>2. ast = <<>> /\ last_end = 0 /\ node = 0 /\ pc \in {"ast", "raw"}
      /\ (doc.kind = "code" /\ doc.parsed => pc = "ast")
  BY DEF Init
<1> QED
  BY <1>1, <1>2 DEF AstInv, Covers, Apart, LooseSigned, LooseBefore

LEMMA NextAstInv == AstInv /\ [Next]_vars => AstInv'
<1> SUFFICES ASSUME AstInv, [Next]_vars PROVE AstInv'
  OBVIOUS
<1>1. CASE CutDefinition
  BY <1>1, CutDefinitionAst
<1>2. CASE CutRest
  BY <1>2, CutRestAst
<1>3. ASSUME ~CutDefinition, ~CutRest PROVE AstInv'
  <2>1. /\ UNCHANGED <<doc, node, last_end, ast>>
        /\ pc' = pc \/ (pc # "ast" /\ pc' \in {"raw", "pieces", "words", "json", "done"})
    BY <1>3 DEF Next, Begin, AddEntry, EndJson, AddPiece, AddWord, CutWord, EndPiece, EndText,
                vars, astVars
  <2>2. AstChunkType' = AstChunkType /\ words' = words
    BY <2>1 DEF AstChunkType, words
  <2> QED
    BY <2>1, <2>2 DEF AstInv
<1> QED
  BY <1>1, <1>2, <1>3

(* Whatever the definitions of a code file are, nested or not, their       *)
(* chunks and the loose code between them make up the file: no word is in  *)
(* none, loose code repeats no word of another chunk, and no two chunks of *)
(* loose code have one signature, which their keys are made of.            *)
THEOREM SpecAstPartition == Spec => []AstPartition
<1>1. AstInv => AstPartition
  <2> SUFFICES ASSUME AstInv, doc.kind = "code", doc.parsed
               PROVE  /\ Covered = IF pc = "ast" THEN 1 .. last_end ELSE DOMAIN words
                      /\ \A m, n \in DOMAIN ast :
                            m # n /\ IsLoose(ast[m]) =>
                                /\ ast[m].first .. ast[m].last \cap ast[n].first .. ast[n].last = {}
                                /\ ast[m].signature # ast[n].signature
    BY DEF AstPartition
  <2>1. /\ Covers(ast, IF pc = "ast" THEN last_end ELSE Len(words))
        /\ Apart(ast) /\ LooseSigned(ast) /\ DOMAIN words = 1 .. Len(words)
    BY DefsTyped DEF AstInv
  <2>2. \A n \in DOMAIN ast : ast[n].first \in Nat \ {0} /\ ast[n].last \in Nat
    <3>1. \A n \in DOMAIN ast : ast[n] \in AstChunkType
      BY DEF AstInv
    <3> QED
      BY <3>1 DEF AstChunkType
  <2>3. \A n \in DOMAIN ast : \A x : x \in ast[n].first .. ast[n].last <=> x \in Nat /\ Inside(x, ast[n])
    BY <2>2 DEF Inside
  <2>4. \A x : x \in Covered <=> \E n \in DOMAIN ast : x \in ast[n].first .. ast[n].last
    BY DEF Covered, Range
  <2>5. Covered = IF pc = "ast" THEN 1 .. last_end ELSE DOMAIN words
    <3> DEFINE e == IF pc = "ast" THEN last_end ELSE Len(words)
    <3>1. \A x : x \in Covered <=> x \in Nat /\ x \in 1 .. e
      BY <2>1, <2>3, <2>4 DEF Covers
    <3>2. e \in Nat
      BY DefsTyped DEF AstInv
    <3>3. \A x : x \in Covered <=> x \in 1 .. e
      <4> HIDE DEF e
      <4> QED
        BY <3>1, <3>2
    <3>4. Covered = 1 .. e
      BY <3>3
    <3> QED
      BY <2>1, <3>4
  <2>6. ASSUME NEW m \in DOMAIN ast, NEW n \in DOMAIN ast, m # n, IsLoose(ast[m])
        PROVE  /\ ast[m].first .. ast[m].last \cap ast[n].first .. ast[n].last = {}
               /\ ast[m].signature # ast[n].signature
    <3>1. \A x \in Nat : ~(Inside(x, ast[m]) /\ Inside(x, ast[n]))
      BY <2>1, <2>6 DEF Apart
    <3>2. ast[m].first .. ast[m].last \cap ast[n].first .. ast[n].last = {}
      BY <2>3, <3>1
    <3>3. ASSUME ast[m].signature = ast[n].signature PROVE FALSE
      <4>1. IsLoose(ast[n])
        BY <2>6, <3>3 DEF IsLoose
      <4>2. ast[m].first - 1 = ast[n].first - 1
        BY <2>1, <2>6, <3>3, <4>1 DEF LooseSigned
      <4>3. ast[m].first = ast[n].first
        BY <2>2, <4>2
      <4>4. Inside(ast[m].first, ast[m]) /\ Inside(ast[m].first, ast[n])
        BY <2>1, <2>2, <2>6, <4>1, <4>3 DEF LooseSigned, Inside
      <4> QED
        BY <2>2, <3>1, <4>4
    <3> QED
      BY <3>2, <3>3
  <2> QED
    BY <2>5, <2>6
<1> QED
  BY <1>1, InitAstInv, NextAstInv, PTL DEF Spec

-----------------------------------------------------------------------------
(* Every word, in its order.                                               *)

(* A chunk of consecutive words; one that goes on after the word e; the    *)
(* last word of the chunks; chunks that go on where the one before ends.   *)
Run(c) ==
    /\ c.tokens # <<>>
    /\ \A m \in DOMAIN c.tokens : c.tokens[m].word = FirstWord(c) + m - 1
Follows(c, e) == Run(c) /\ FirstWord(c) <= e + 1 /\ LastWord(c) >= e
LastKept(s) == IF s = <<>> THEN 0 ELSE LastWord(s[Len(s)])
Chain(s) == \A n \in DOMAIN s : Follows(s[n], IF n = 1 THEN 0 ELSE LastWord(s[n - 1]))

(* The chunks s and the chunk c being filled hold the words up to e.       *)
UpTo(s, c, e) ==
    /\ Chain(s)
    /\ IF c.tokens = <<>> THEN LastKept(s) = e
       ELSE Follows(c, LastKept(s)) /\ LastWord(c) = e

KeptInv ==
    /\ ChunkInv
    /\ pc \in {"ast", "raw"} => at = 0
    /\ pc \in {"pieces", "words", "json"} => UpTo(chunks, current, at)
    /\ pc = "json" /\ at > 0 => current.tokens # <<>>
    /\ pc = "words" => at <= upto
    /\ pc = "done" =>
          /\ at = Total
          /\ IF at = 0 THEN \A n \in DOMAIN chunks : chunks[n].tokens = <<>>
             ELSE Chain(chunks) /\ LastKept(chunks) = at

LEMMA RunTyped ==
    ASSUME NEW c \in ChunkType, Run(c)
    PROVE  /\ c.tokens \in Seq(TokenType) /\ Len(c.tokens) \in Nat \ {0}
           /\ DOMAIN c.tokens = 1 .. Len(c.tokens)
           /\ FirstWord(c) \in Nat \ {0} /\ LastWord(c) \in Nat \ {0}
           /\ LastWord(c) = FirstWord(c) + Len(c.tokens) - 1
           /\ FirstWord(c) <= LastWord(c)
<1>1. /\ c.tokens \in Seq(TokenType) /\ Len(c.tokens) \in Nat \ {0}
      /\ DOMAIN c.tokens = 1 .. Len(c.tokens)
  BY DEF ChunkType, Run
<1>2. 1 \in DOMAIN c.tokens /\ Len(c.tokens) \in DOMAIN c.tokens
  BY <1>1
<1>3. FirstWord(c) \in Nat \ {0} /\ LastWord(c) \in Nat \ {0}
  <2>1. c.tokens[1] \in TokenType /\ c.tokens[Len(c.tokens)] \in TokenType
    BY <1>1, <1>2
  <2> QED
    BY <2>1 DEF FirstWord, LastWord, TokenType
<1>4. LastWord(c) = FirstWord(c) + Len(c.tokens) - 1
  BY <1>2 DEF Run, LastWord
<1> QED
  BY <1>1, <1>3, <1>4

(* Chunks with the same words. *)
LEMMA SameWords ==
    ASSUME NEW c, NEW d, DOMAIN d.tokens = DOMAIN c.tokens,
           c.tokens \in Seq(TokenType), d.tokens \in Seq(TokenType), Run(c),
           \A m \in DOMAIN c.tokens : d.tokens[m].word = c.tokens[m].word
    PROVE  Run(d) /\ FirstWord(d) = FirstWord(c) /\ LastWord(d) = LastWord(c)
<1>1. /\ Len(d.tokens) = Len(c.tokens) /\ c.tokens # <<>> /\ d.tokens # <<>>
      /\ 1 \in DOMAIN c.tokens /\ Len(c.tokens) \in DOMAIN c.tokens
  BY DEF Run
<1> QED
  BY <1>1 DEF Run, FirstWord, LastWord

LEMMA LastKeptTyped ==
    ASSUME NEW s \in Seq(ChunkType), Chain(s)
    PROVE  /\ LastKept(s) \in Nat
           /\ s # <<>> => LastKept(s) > 0
<1>1. CASE s = <<>>
  BY <1>1 DEF LastKept
<1>2. CASE s # <<>>
  <2>1. Len(s) \in DOMAIN s /\ s[Len(s)] \in ChunkType
    BY <1>2
  <2>2. Run(s[Len(s)])
    BY <2>1 DEF Chain, Follows
  <2> QED
    BY <1>2, <2>1, <2>2, RunTyped DEF LastKept
<1> QED
  BY <1>1, <1>2

(* A chunk that goes on where the chunks end. *)
LEMMA ChainGrows ==
    ASSUME NEW s \in Seq(ChunkType), Chain(s), NEW c \in ChunkType, Follows(c, LastKept(s))
    PROVE  /\ Append(s, c) \in Seq(ChunkType) /\ Chain(Append(s, c))
           /\ LastKept(Append(s, c)) = LastWord(c)
<1> DEFINE a == Append(s, c)
           l == Len(s) + 1
<1>1. /\ a \in Seq(ChunkType) /\ DOMAIN a = 1 .. l /\ Len(a) = l /\ a # <<>>
      /\ a[l] = c /\ \A n \in DOMAIN s : a[n] = s[n]
      /\ DOMAIN s = 1 .. l - 1 /\ l \in Nat \ {0} /\ (s = <<>> <=> l = 1) /\ Len(s) = l - 1
  OBVIOUS
<1> HIDE DEF a, l
<1>2. ASSUME NEW n \in DOMAIN a PROVE Follows(a[n], IF n = 1 THEN 0 ELSE LastWord(a[n - 1]))
  <2>1. CASE n = l
    <3>1. n # 1 => a[n - 1] = s[Len(s)]
      <4>1. n # 1 => n - 1 \in DOMAIN s
        BY <1>1, <2>1
      <4> QED
        BY <1>1, <2>1, <4>1
    <3>2. LastKept(s) = IF n = 1 THEN 0 ELSE LastWord(a[n - 1])
      BY <1>1, <2>1, <3>1 DEF LastKept
    <3> QED
      BY <1>1, <2>1, <3>2
  <2>2. CASE n # l
    <3>1. n \in DOMAIN s /\ (n # 1 => n - 1 \in DOMAIN s)
      BY <1>1, <2>2
    <3>2. a[n] = s[n] /\ (n # 1 => a[n - 1] = s[n - 1])
      BY <1>1, <3>1
    <3>3. Follows(s[n], IF n = 1 THEN 0 ELSE LastWord(s[n - 1]))
      BY <3>1 DEF Chain
    <3> QED
      BY <3>2, <3>3
  <2> QED
    BY <2>1, <2>2
<1>3. LastKept(a) = LastWord(c)
  BY <1>1 DEF LastKept
<1> QED
  BY <1>1, <1>2, <1>3 DEF Chain, a

LEMMA TextRun ==
    ASSUME doc \in Documents, NEW i \in 1 .. Len(words), NEW j \in i .. Len(words),
           NEW gap \in 0 .. 2
    PROVE  Run(Text(i, j, gap)) /\ FirstWord(Text(i, j, gap)) = i /\ LastWord(Text(i, j, gap)) = j
<1> DEFINE t == Text(i, j, gap)
           n == j - i + 1
<1>1. Len(words) \in Nat /\ i \in Nat /\ j \in Nat /\ n \in Nat \ {0} /\ i + n - 1 = j
  BY WordsTyped
<1>2. t.tokens = Tokens(i, j, gap) /\ t \in ChunkType
  BY TextTyped DEF Text
<1>3. /\ DOMAIN Tokens(i, j, gap) = 1 .. n
      /\ \A m \in 1 .. n : Tokens(i, j, gap)[m].word = i + m - 1
  BY DEF Tokens, Token
<1> HIDE DEF n, t
<1>4. t.tokens \in Seq(TokenType) /\ Len(t.tokens) = n /\ t.tokens # <<>>
  BY <1>1, <1>2, <1>3 DEF ChunkType
<1>5. FirstWord(t) = i /\ LastWord(t) = j
  BY <1>1, <1>2, <1>3, <1>4 DEF FirstWord, LastWord
<1>6. Run(t)
  BY <1>2, <1>3, <1>4, <1>5 DEF Run
<1> QED
  BY <1>5, <1>6 DEF t

(* A text added to the chunk that ends before it. *)
LEMMA Joined ==
    ASSUME NEW s \in Seq(ChunkType), NEW c \in ChunkType, NEW t \in ChunkType, NEW e \in Nat,
           UpTo(s, c, e), Run(t), FirstWord(t) = e + 1
    PROVE  Append2(c, t).tokens # <<>> /\ UpTo(s, Append2(c, t), LastWord(t))
<1> DEFINE a == Append2(c, t)
<1>1. a.tokens = c.tokens \o t.tokens
  BY DEF Append2
<1>2. /\ c.tokens \in Seq(TokenType) /\ t.tokens \in Seq(TokenType)
      /\ t.tokens # <<>> /\ e + 1 <= LastWord(t) /\ LastWord(t) \in Nat
  BY RunTyped DEF ChunkType, Run
<1>3. LastKept(s) \in Nat
  BY LastKeptTyped DEF UpTo
<1> HIDE DEF a
<1>4. CASE c.tokens = <<>>
  <2>1. a.tokens = t.tokens
    BY <1>1, <1>2, <1>4
  <2>2. Run(a) /\ FirstWord(a) = FirstWord(t) /\ LastWord(a) = LastWord(t)
    BY <2>1 DEF Run, FirstWord, LastWord
  <2> QED
    BY <1>2, <1>3, <1>4, <2>1, <2>2 DEF UpTo, Follows, a
<1>5. CASE c.tokens # <<>>
  <2> DEFINE k == Len(c.tokens)
             l == Len(t.tokens)
  <2>1. Follows(c, LastKept(s)) /\ LastWord(c) = e /\ Run(c)
    BY <1>5 DEF UpTo, Follows
  <2>2. /\ k \in Nat \ {0} /\ l \in Nat \ {0}
        /\ FirstWord(c) \in Nat \ {0} /\ e = FirstWord(c) + k - 1
        /\ DOMAIN c.tokens = 1 .. k /\ DOMAIN t.tokens = 1 .. l
        /\ LastWord(t) = (e + 1) + l - 1
    BY <2>1, RunTyped
  <2>3. /\ Len(a.tokens) = k + l /\ DOMAIN a.tokens = 1 .. k + l
        /\ \A m \in 1 .. k : a.tokens[m] = c.tokens[m]
        /\ \A m \in 1 .. l : a.tokens[k + m] = t.tokens[m]
        /\ k = Len(c.tokens) /\ l = Len(t.tokens)
    <3> DEFINE x == c.tokens
               y == t.tokens
    <3>1. x \in Seq(TokenType) /\ y \in Seq(TokenType) /\ a.tokens = x \o y
      BY <1>1, <1>2
    <3>2. k = Len(x) /\ l = Len(y)
      OBVIOUS
    <3> HIDE DEF k, l, x, y
    <3>3. /\ Len(x \o y) = k + l /\ DOMAIN (x \o y) = 1 .. k + l
          /\ \A m \in 1 .. k : (x \o y)[m] = x[m]
          /\ \A m \in 1 .. l : (x \o y)[k + m] = y[m]
      BY <3>1, <3>2
    <3> QED
      BY <3>1, <3>2, <3>3 DEF x, y
  <2> HIDE DEF k, l
  <2>9. /\ 1 \in 1 .. k /\ l \in 1 .. l /\ k + l \in Nat \ {0}
    BY <2>2
  <2>10. a.tokens # <<>>
    <3>1. Len(a.tokens) # 0
      BY <2>3, <2>9
    <3> QED
      BY <3>1
  <2>4. FirstWord(a) = FirstWord(c)
    BY <2>3, <2>9 DEF FirstWord
  <2>5. LastWord(a) = LastWord(t)
    <3>1. a.tokens[k + l] = t.tokens[l]
      BY <2>3, <2>9
    <3> QED
      BY <2>3, <3>1 DEF LastWord
  <2>6. ASSUME NEW m \in 1 .. k + l PROVE a.tokens[m].word = FirstWord(a) + m - 1
    <3>1. CASE m <= k
      <4>1. m \in 1 .. k
        BY <2>2, <3>1
      <4>2. c.tokens[m].word = FirstWord(c) + m - 1
        BY <2>1, <2>2, <4>1 DEF Run
      <4> QED
        BY <2>3, <2>4, <4>1, <4>2
    <3>2. CASE m > k
      <4>1. m - k \in 1 .. l /\ k + (m - k) = m
        BY <2>2, <3>2
      <4>2. a.tokens[m] = t.tokens[m - k]
        BY <2>3, <4>1
      <4>3. t.tokens[m - k].word = (e + 1) + (m - k) - 1
        BY <2>2, <4>1 DEF Run
      <4>4. (e + 1) + (m - k) - 1 = FirstWord(c) + m - 1
        <5>1. /\ m \in Int /\ k \in Int /\ FirstWord(c) \in Int
              /\ e = FirstWord(c) + k - 1
          BY <2>2
        <5> QED
          BY <5>1
      <4> QED
        BY <2>4, <4>2, <4>3, <4>4
    <3> QED
      BY <2>2, <3>1, <3>2
  <2>7. Run(a)
    BY <2>3, <2>6, <2>10 DEF Run
  <2>8. FirstWord(c) <= LastKept(s) + 1 /\ e >= LastKept(s)
    BY <2>1 DEF Follows
  <2> QED
    BY <1>2, <1>3, <2>10, <2>4, <2>5, <2>7, <2>8 DEF UpTo, Follows, a
<1> QED
  BY <1>4, <1>5

LEMMA TrimRun ==
    ASSUME NEW c \in ChunkType, Run(c), c.len >= LastGap(c)
    PROVE  Run(Trim(c)) /\ FirstWord(Trim(c)) = FirstWord(c) /\ LastWord(Trim(c)) = LastWord(c)
<1> DEFINE n == Len(c.tokens)
<1>1. c.tokens \in Seq(TokenType) /\ c.tokens # <<>> /\ Trim(c).tokens \in Seq(TokenType)
  BY TrimTyped DEF ChunkType, Run
<1>2. Trim(c).tokens = [c.tokens EXCEPT ![n].gap = 0]
  BY DEF Trim
<1>3. ASSUME NEW m \in DOMAIN c.tokens PROVE Trim(c).tokens[m].word = c.tokens[m].word
  <2>1. c.tokens[m] \in TokenType
    BY <1>1
  <2>2. [c.tokens[m] EXCEPT !.gap = 0].word = c.tokens[m].word
    BY <2>1 DEF TokenType
  <2>3. Trim(c).tokens[m] = IF m = n THEN [c.tokens[m] EXCEPT !.gap = 0] ELSE c.tokens[m]
    BY <1>2
  <2> QED
    BY <2>2, <2>3
<1>4. DOMAIN Trim(c).tokens = DOMAIN c.tokens
  BY <1>2
<1> QED
  BY <1>1, <1>3, <1>4, SameWords

LEMMA Suffix ==
    ASSUME NEW S, NEW s \in Seq(S), NEW l, l = Len(s), NEW n \in 1 .. l
    PROVE  /\ SubSeq(s, n, l) \in Seq(S) /\ Len(SubSeq(s, n, l)) = l - n + 1
           /\ DOMAIN SubSeq(s, n, l) = 1 .. l - n + 1
           /\ \A m \in 1 .. l - n + 1 : SubSeq(s, n, l)[m] = s[n + m - 1]
<1>1. l \in Nat /\ n \in Int /\ l - n + 1 \in Nat
  OBVIOUS
<1>2. SubSeq(s, n, l) \in Seq(S)
  OBVIOUS
<1>3. Len(SubSeq(s, n, l)) = l - n + 1
  BY <1>1
<1>4. \A m \in 1 .. l - n + 1 : SubSeq(s, n, l)[m] = s[n + m - 1]
  BY <1>1
<1> QED
  BY <1>2, <1>3, <1>4

(* The overlap, if there is one, ends where its chunk does. *)
LEMMA OverlapRun ==
    ASSUME NEW c \in ChunkType, Run(c), OverlapText(c).tokens # <<>>
    PROVE  Run(OverlapText(c)) /\ LastWord(OverlapText(c)) = LastWord(c)
<1> DEFINE fitting == {n \in {n \in DOMAIN c.tokens : n = 1 \/ c.tokens[n - 1].gap > 0} :
                          LenOf(LastWords(c.tokens, n)) \in 1 .. Overlap}
           l == Len(c.tokens)
<1>1. OverlapText(c) # Empty
  BY DEF Empty
<1>2. PICK n \in DOMAIN c.tokens : OverlapText(c).tokens = LastWords(c.tokens, n)
  <2> DEFINE n == CHOOSE n \in fitting : \A m \in fitting : n <= m
  <2>1. fitting # {} /\ fitting \in SUBSET Nat
    BY <1>1 DEF OverlapText, ChunkType
  <2>2. n \in fitting
    BY <2>1, NatMin
  <2>3. OverlapText(c).tokens = LastWords(c.tokens, n)
    BY Zenon, <1>1 DEF OverlapText
  <2> QED
    BY <2>2, <2>3
<1>3. /\ c.tokens \in Seq(TokenType) /\ l \in Nat \ {0} /\ DOMAIN c.tokens = 1 .. l
      /\ n \in 1 .. l /\ FirstWord(c) \in Nat /\ LastWord(c) = FirstWord(c) + l - 1
  BY RunTyped
<1> DEFINE t == SubSeq(c.tokens, n, l)
           o == OverlapText(c)
<1>4. /\ t \in Seq(TokenType) /\ Len(t) = l - n + 1 /\ DOMAIN t = 1 .. l - n + 1
      /\ \A m \in 1 .. l - n + 1 : t[m] = c.tokens[n + m - 1]
  <2> DEFINE s == c.tokens
  <2>1. s \in Seq(TokenType) /\ l = Len(s)
    BY <1>3
  <2> HIDE DEF s, l
  <2>2. /\ SubSeq(s, n, l) \in Seq(TokenType) /\ Len(SubSeq(s, n, l)) = l - n + 1
        /\ DOMAIN SubSeq(s, n, l) = 1 .. l - n + 1
        /\ \A m \in 1 .. l - n + 1 : SubSeq(s, n, l)[m] = s[n + m - 1]
    <3>1. n \in 1 .. Len(s)
      BY <1>3, <2>1
    <3> QED
      BY <2>1, <3>1, Suffix
  <2> QED
    BY <2>2 DEF s
<1>5. o.tokens = Blanked(t)
  <2>1. LastWords(c.tokens, n) = Blanked(t)
    BY Zenon DEF LastWords
  <2> QED
    BY Zenon, <1>2, <2>1
<1> HIDE DEF t, o, l
<1>6. \A m \in DOMAIN t : t[m] \in TokenType
  BY <1>4
<1>7. \A m \in DOMAIN t : Blanked(t)[m].word = t[m].word
  BY <1>6 DEF Blanked, TokenType
<1>8. /\ o.tokens \in Seq(TokenType) /\ DOMAIN o.tokens = 1 .. l - n + 1
      /\ Len(o.tokens) = l - n + 1
  <2>1. o.tokens \in Seq(TokenType)
    BY OverlapTyped DEF o, ChunkType
  <2>2. DOMAIN o.tokens = DOMAIN t
    BY <1>5 DEF Blanked
  <2>3. l - n + 1 \in Nat
    BY <1>3
  <2> QED
    BY <1>4, <2>1, <2>2, <2>3
<1>9. \A m \in 1 .. l - n + 1 : o.tokens[m].word = FirstWord(c) + (n + m - 1) - 1
  <2> TAKE m \in 1 .. l - n + 1
  <2>1. n + m - 1 \in 1 .. l
    <3>1. l \in Int /\ n \in Int /\ 1 <= n /\ n <= l
      BY <1>3
    <3> QED
      BY <3>1
  <2>2. c.tokens[n + m - 1].word = FirstWord(c) + (n + m - 1) - 1
    BY <1>3, <2>1 DEF Run
  <2> QED
    BY <1>4, <1>5, <1>7, <2>2
<1>10. FirstWord(o) = FirstWord(c) + n - 1
  <2>1. 1 \in 1 .. l - n + 1 /\ n \in Int /\ FirstWord(c) + (n + 1 - 1) - 1 = FirstWord(c) + n - 1
    BY <1>3
  <2> QED
    BY <1>9, <2>1 DEF FirstWord
<1>11. LastWord(o) = LastWord(c)
  <2>1. l - n + 1 \in 1 .. l - n + 1
    BY <1>3
  <2>2. o.tokens[l - n + 1].word = FirstWord(c) + (n + (l - n + 1) - 1) - 1
    BY <1>9, <2>1
  <2>3. FirstWord(c) + (n + (l - n + 1) - 1) - 1 = LastWord(c)
    BY <1>3
  <2> QED
    BY <1>8, <2>2, <2>3 DEF LastWord
<1>12. Run(o)
  <2>1. \A m \in 1 .. l - n + 1 :
           FirstWord(c) + (n + m - 1) - 1 = (FirstWord(c) + n - 1) + m - 1
    BY <1>3
  <2> QED
    BY <1>8, <1>9, <1>10, <2>1 DEF Run, o
<1> QED
  BY <1>11, <1>12 DEF o

(* A full chunk that is flushed, and the overlap that is kept of it. *)
LEMMA Flush ==
    ASSUME NEW s \in Seq(ChunkType), NEW c \in ChunkType, NEW e \in Nat,
           UpTo(s, c, e), c.tokens # <<>>, c.len >= LastGap(c)
    PROVE  /\ Append(s, Trim(c)) \in Seq(ChunkType)
           /\ Chain(Append(s, Trim(c))) /\ LastKept(Append(s, Trim(c))) = e
           /\ UpTo(Append(s, Trim(c)), OverlapText(c), e)
<1> DEFINE a == Append(s, Trim(c))
           o == OverlapText(c)
<1>1. Chain(s) /\ Follows(c, LastKept(s)) /\ Run(c) /\ LastWord(c) = e
  BY DEF UpTo, Follows
<1>2. Trim(c) \in ChunkType /\ Follows(Trim(c), LastKept(s)) /\ LastWord(Trim(c)) = e
  BY <1>1, TrimTyped, TrimRun DEF Follows
<1>3. a \in Seq(ChunkType) /\ Chain(a) /\ LastKept(a) = e
  BY <1>1, <1>2, ChainGrows
<1>4. UpTo(a, o, e)
  <2>1. CASE o.tokens = <<>>
    BY <1>3, <2>1 DEF UpTo
  <2>2. CASE o.tokens # <<>>
    <3>1. Run(o) /\ LastWord(o) = e /\ o \in ChunkType
      BY <1>1, <2>2, OverlapRun, OverlapTyped
    <3>2. FirstWord(o) <= e + 1
      BY <3>1, RunTyped
    <3> HIDE DEF a, o
    <3> QED
      BY <1>3, <2>2, <3>1, <3>2 DEF UpTo, Follows
  <2> QED
    BY <2>1, <2>2
<1> QED
  BY <1>3, <1>4

LEMMA FlushKept ==
    ASSUME KeptInv, pc \in {"pieces", "words"}, NEW len \in Int
    PROVE  UpTo(Flushed(len), Open(len), at)
<1>1. /\ chunks \in Seq(ChunkType) /\ current \in ChunkType /\ at \in Nat
      /\ current.len >= LastGap(current) /\ UpTo(chunks, current, at)
  BY WordsTyped DEF KeptInv, ChunkInv, Fits
<1>2. CASE IsFull(len)
  <2>1. current.tokens # <<>>
    BY <1>2 DEF IsFull
  <2>2. UpTo(Append(chunks, Trim(current)), OverlapText(current), at)
    BY <1>1, <2>1, Flush
  <2> QED
    BY <1>2, <2>2 DEF Flushed, Open
<1>3. CASE ~ IsFull(len)
  BY <1>1, <1>3 DEF Flushed, Open
<1> QED
  BY <1>2, <1>3

LEMMA PendingKept ==
    ASSUME KeptInv, pc \in {"pieces", "words"}
    PROVE  /\ chunks \o Pending \in Seq(ChunkType)
           /\ Chain(chunks \o Pending) /\ LastKept(chunks \o Pending) = at
<1>1. /\ chunks \in Seq(ChunkType) /\ current \in ChunkType /\ at \in Nat
      /\ current.len >= LastGap(current) /\ UpTo(chunks, current, at)
  BY WordsTyped DEF KeptInv, ChunkInv, Fits
<1>2. CASE current.tokens = <<>>
  <2>1. chunks \o Pending = chunks
    BY <1>1, <1>2 DEF Pending
  <2> QED
    BY <1>1, <1>2, <2>1 DEF UpTo
<1>3. CASE current.tokens # <<>>
  <2>1. /\ Append(chunks, Trim(current)) \in Seq(ChunkType)
        /\ Chain(Append(chunks, Trim(current))) /\ LastKept(Append(chunks, Trim(current))) = at
    BY <1>1, <1>3, Flush
  <2>2. Pending = <<Trim(current)>>
    BY <1>3 DEF Pending
  <2>3. chunks \o Pending = Append(chunks, Trim(current))
    BY <1>1, <2>2
  <2> QED
    BY <2>1, <2>3
<1> QED
  BY <1>2, <1>3

(* One token is a run. *)
LEMMA OneTokenRun ==
    ASSUME NEW t \in TokenType, NEW len
    PROVE  LET c == [tokens |-> <<t>>, len |-> len]
           IN  Run(c) /\ FirstWord(c) = t.word /\ LastWord(c) = t.word
<1> DEFINE c == [tokens |-> <<t>>, len |-> len]
<1>1. c.tokens = <<t>> /\ t.word \in Nat
  BY DEF TokenType
<1> HIDE DEF c
<1>2. FirstWord(c) = t.word /\ LastWord(c) = t.word
  BY <1>1 DEF FirstWord, LastWord
<1>3. \A m \in DOMAIN c.tokens : m = 1 /\ c.tokens[m] = t
  BY <1>1
<1>4. Run(c)
  BY <1>1, <1>2, <1>3 DEF Run
<1> QED
  BY <1>2, <1>4 DEF c

(* The blocks of a word too long for a chunk: one of them at least. *)
LEMMA BlocksRun ==
    ASSUME doc \in Documents, NEW i \in 1 .. Len(words), Size(i) > MaxChunk
    PROVE  /\ Blocks(i) \in Seq(ChunkType) /\ Blocks(i) # <<>>
           /\ \A n \in DOMAIN Blocks(i) :
                 Run(Blocks(i)[n]) /\ FirstWord(Blocks(i)[n]) = i /\ LastWord(Blocks(i)[n]) = i
<1> DEFINE k == BlockCount(i)
           b == Blocks(i)
<1>1. /\ b \in Seq(ChunkType) /\ Size(i) > 0 /\ k \in Nat /\ k > 0
      /\ b = [n \in 1 .. k |-> [tokens |-> <<Block(i, n)>>, len |-> Block(i, n).size]]
      /\ \A n \in 1 .. k : Block(i, n) \in TokenType
  <2>1. Size(i) > 0
    BY WordsTyped, ChunkingAssumption
  <2> QED
    BY <2>1, BlocksTyped
<1> HIDE DEF k, b
<1>2. DOMAIN b = 1 .. k /\ b # <<>>
  <2>1. DOMAIN b = 1 .. k
    BY <1>1
  <2>2. 1 \in DOMAIN b
    BY <1>1, <2>1
  <2>3. Len(b) # 0
    BY <1>1, <2>2
  <2> QED
    BY <1>1, <2>1, <2>3
<1>3. ASSUME NEW n \in 1 .. k
      PROVE  Run(b[n]) /\ FirstWord(b[n]) = i /\ LastWord(b[n]) = i
  <2> DEFINE t == Block(i, n)
  <2>1. b[n] = [tokens |-> <<t>>, len |-> t.size] /\ t \in TokenType
    BY <1>1
  <2>2. t.word = i
    BY DEF Block, Token
  <2> HIDE DEF t
  <2> QED
    BY <2>1, <2>2, OneTokenRun
<1> QED
  BY <1>1, <1>2, <1>3 DEF b

LEMMA BlocksKept ==
    ASSUME NEW s \in Seq(ChunkType), NEW b \in Seq(ChunkType), NEW e \in Nat,
           Chain(s), LastKept(s) = e, b # <<>>,
           \A n \in DOMAIN b : Run(b[n]) /\ FirstWord(b[n]) = e + 1 /\ LastWord(b[n]) = e + 1
    PROVE  Chain(s \o b) /\ LastKept(s \o b) = e + 1
<1> DEFINE a == s \o b
           k == Len(s)
           l == Len(b)
<1>1. /\ a \in Seq(ChunkType) /\ Len(a) = k + l /\ DOMAIN a = 1 .. k + l
      /\ DOMAIN s = 1 .. k /\ DOMAIN b = 1 .. l /\ k \in Nat /\ l \in Nat \ {0} /\ a # <<>>
      /\ (s = <<>> <=> k = 0)
  OBVIOUS
<1>2. \A n \in 1 .. k : a[n] = s[n]
  OBVIOUS
<1>3. \A n \in 1 .. l : a[k + n] = b[n]
  OBVIOUS
<1>4. LastKept(s) = IF k = 0 THEN 0 ELSE LastWord(s[k])
  BY <1>1 DEF LastKept
<1> HIDE DEF a, k, l
<1>5. \A n \in k + 1 .. k + l :
         Run(a[n]) /\ FirstWord(a[n]) = e + 1 /\ LastWord(a[n]) = e + 1
  <2> TAKE n \in k + 1 .. k + l
  <2>1. n - k \in 1 .. l /\ k + (n - k) = n
    BY <1>1
  <2>2. a[n] = b[n - k]
    BY <1>3, <2>1
  <2> QED
    BY <1>1, <2>1, <2>2
<1>6. LastKept(a) = e + 1
  <2>1. k + l \in k + 1 .. k + l
    BY <1>1
  <2> QED
    BY <1>1, <1>5, <2>1 DEF LastKept
<1>7. ASSUME NEW n \in 1 .. k + l PROVE Follows(a[n], IF n = 1 THEN 0 ELSE LastWord(a[n - 1]))
  <2>1. CASE n <= k
    <3>1. n \in 1 .. k /\ (n # 1 => n - 1 \in 1 .. k)
      BY <1>1, <2>1
    <3>2. Follows(s[n], IF n = 1 THEN 0 ELSE LastWord(s[n - 1]))
      BY <1>1, <3>1 DEF Chain
    <3> QED
      BY <1>2, <3>1, <3>2
  <2>2. CASE n = k + 1
    <3>1. n # 1 => n - 1 = k /\ k \in 1 .. k
      BY <1>1, <2>2
    <3>2. (IF n = 1 THEN 0 ELSE LastWord(a[n - 1])) = e
      BY <1>1, <1>2, <1>4, <2>2, <3>1
    <3>3. Follows(a[n], e)
      <4>1. n \in k + 1 .. k + l
        BY <1>1, <2>2
      <4> QED
        BY <1>5, <4>1 DEF Follows
    <3> QED
      BY <3>2, <3>3
  <2>3. CASE n > k + 1
    <3>1. n \in k + 1 .. k + l /\ n - 1 \in k + 1 .. k + l /\ n # 1
      BY <1>1, <2>3
    <3>2. Follows(a[n], e + 1) /\ LastWord(a[n - 1]) = e + 1
      BY <1>5, <3>1 DEF Follows
    <3> QED
      BY <3>1, <3>2
  <2> QED
    BY <1>1, <2>1, <2>2, <2>3
<1> QED
  BY <1>1, <1>6, <1>7 DEF Chain, a

LEMMA InitKeptInv == Init => KeptInv
<1> SUFFICES ASSUME Init PROVE KeptInv
  OBVIOUS
<1>1. pc \in {"ast", "raw"} /\ at = 0
  BY DEF Init
<1> QED
  BY <1>1, InitChunkInv DEF KeptInv

LEMMA WrittenRun ==
    ASSUME NEW c \in ChunkType, Run(c)
    PROVE  Run(Written(c)) /\ FirstWord(Written(c)) = FirstWord(c) /\ LastWord(Written(c)) = LastWord(c)
<1>1. Written(c).tokens = c.tokens
  BY DEF Written, ChunkType
<1> QED
  BY <1>1 DEF Run, FirstWord, LastWord

LEMMA NextKeptInv == KeptInv /\ [Next]_vars => KeptInv'
<1> SUFFICES ASSUME KeptInv, [Next]_vars PROVE KeptInv'
  OBVIOUS
<1>a. /\ Len(words) \in Nat /\ at \in 0 .. Total /\ at \in Nat /\ upto \in 0 .. Len(words)
      /\ Total \in Nat
      /\ (doc.kind # "json" \/ ~IsCut) => Total = Len(words)
      /\ pc \in {"pieces", "words"} => doc.kind # "json"
      /\ doc \in Documents /\ chunks \in Seq(ChunkType) /\ current \in ChunkType
      /\ pc \in {"ast", "raw"} => at = 0 /\ current = Empty /\ chunks = <<>>
  BY WordsTyped, TotalTyped DEF KeptInv, ChunkInv
<1>b. ChunkInv'
  BY NextChunkInv DEF KeptInv
<1>c. doc' = doc => words' = words /\ Total' = Total
  BY DEF words, Total, IsCut
<1> USE DEF astVars, rawVars
<1>1. CASE CutDefinition \/ CutRest
  <2>1. /\ pc = "ast" /\ pc' \in {"ast", "raw"} /\ at' = at
    BY <1>1 DEF CutDefinition, CutRest
  <2> QED
    BY <1>a, <1>b, <2>1 DEF KeptInv
<1>2. CASE Begin
  <2>1. /\ doc' = doc /\ words' = words /\ Total' = Total
        /\ pc = "raw" /\ at = 0 /\ current = Empty /\ chunks = <<>>
    BY <1>2, <1>a, <1>c DEF Begin
  <2>2. CASE /\ pc' = "done" /\ at' = Len(words) /\ at' = Total
             /\ chunks' = IF words = <<>> THEN <<Empty>> ELSE <<Text(1, Len(words), 0)>>
    <3>1. CASE words = <<>>
      <4>1. Len(words) = 0 /\ chunks' = <<Empty>>
        BY <2>2, <3>1
      <4>2. \A n \in DOMAIN chunks' : chunks'[n].tokens = <<>>
        BY <4>1 DEF Empty
      <4> QED
        BY <1>b, <2>1, <2>2, <4>1, <4>2 DEF KeptInv
    <3>2. CASE words # <<>>
      <4> DEFINE t == Text(1, Len(words), 0)
      <4>1. /\ Len(words) > 0 /\ 1 \in 1 .. Len(words) /\ Len(words) \in 1 .. Len(words)
            /\ 0 \in 0 .. 2
        <5>1. words \in Seq(Word)
          BY <1>a, WordsTyped
        <5> QED
          BY <3>2, <5>1
      <4>2. Run(t) /\ FirstWord(t) = 1 /\ LastWord(t) = Len(words) /\ t \in ChunkType
        BY <1>a, <4>1, TextRun, TextTyped
      <4> HIDE DEF t
      <4>3. Chain(<<>>) /\ LastKept(<<>>) = 0 /\ <<>> \in Seq(ChunkType) /\ Follows(t, 0)
        BY <1>a, <4>1, <4>2 DEF Chain, LastKept, Follows
      <4>4. Chain(Append(<<>>, t)) /\ LastKept(Append(<<>>, t)) = Len(words)
        BY <4>2, <4>3, ChainGrows
      <4>5. chunks' = <<t>>
        BY Zenon, <2>2, <3>2 DEF t
      <4>6. chunks' = Append(<<>>, t)
        BY <4>5
      <4>7. /\ pc' = "done" /\ at' = Total' /\ at' # 0
            /\ Chain(chunks') /\ LastKept(chunks') = at'
        <5>1. pc' = "done" /\ at' = Total' /\ at' = Len(words)
          BY Zenon, <2>1, <2>2
        <5>2. Len(words) # 0
          BY <1>a, <4>1
        <5>3. Chain(chunks') /\ LastKept(chunks') = Len(words)
          BY Zenon, <4>4, <4>6
        <5> QED
          BY Zenon, <5>1, <5>2, <5>3
      <4> QED
        BY <1>b, <4>7 DEF KeptInv
    <3> QED
      BY <3>1, <3>2
  <2>3. CASE /\ pc' \in {"json", "pieces"} /\ at' = at /\ chunks' = chunks
             /\ current' \in {Bracketed, current}
    <3>1. current'.tokens = <<>>
      BY <2>1, <2>3, BracketsTyped DEF Empty
    <3>2. UpTo(chunks', current', at')
      BY <2>1, <2>3, <3>1 DEF UpTo, Chain, LastKept
    <3> QED
      BY <1>b, <2>1, <2>3, <3>2 DEF KeptInv
  <2> QED
    BY <1>2, <1>a, <2>2, <2>3 DEF Begin
<1>3. CASE AddEntry
  <2> DEFINE size == Size(doc.entries[at + 1]) + 2
             full == current.tokens # <<>> /\ current.len + size > MaxChunk
             open == Renewed(full)
             entry == [tokens |-> <<Token(at + 1, 0, size - 2, 1)>>, len |-> size]
  <2>1. /\ pc = "json" /\ pc' = "json" /\ doc' = doc /\ at' = at + 1
        /\ doc.kind = "json" /\ IsCut
        /\ at + 1 \in 1 .. Total /\ UpTo(chunks, current, at) /\ JsonFits(current)
    BY <1>3, <1>a DEF AddEntry, KeptInv, ChunkInv
  <2>8. size \in Nat /\ size - 2 \in Nat
    <3>1. doc.entries[at + 1] \in 1 .. Len(words)
      BY <1>a, <2>1, TotalTyped
    <3>2. Size(doc.entries[at + 1]) \in Nat
      BY <1>a, <3>1, WordsTyped
    <3> QED
      BY <3>2
  <2>2. /\ chunks' = (IF full THEN Append(chunks, Written(current)) ELSE chunks)
        /\ current' = Append2(open, entry)
    BY Zenon, <1>3 DEF AddEntry
  <2>3. Token(at + 1, 0, size - 2, 1) \in TokenType
    <3> HIDE DEF size
    <3> QED
      BY <1>a, <2>8 DEF Token, TokenType
  <2>4. Run(entry) /\ FirstWord(entry) = at + 1 /\ LastWord(entry) = at + 1
    <3>1. Token(at + 1, 0, size - 2, 1).word = at + 1
      BY DEF Token
    <3> QED
      BY <2>3, <3>1, OneTokenRun
  <2>5. entry \in ChunkType
    <3> HIDE DEF size
    <3> QED
      BY <2>3, <2>8 DEF ChunkType
  <2> HIDE DEF entry, full
  <2>6. chunks' \in Seq(ChunkType) /\ open \in ChunkType /\ UpTo(chunks', open, at)
    <3>1. CASE full
      <4>1. current.tokens # <<>> /\ Follows(current, LastKept(chunks)) /\ LastWord(current) = at
        BY <2>1, <3>1 DEF full, UpTo
      <4>2. Run(current) /\ Written(current) \in ChunkType
        BY <1>a, <2>1, <4>1, WrittenTyped DEF Follows
      <4>3. Follows(Written(current), LastKept(chunks)) /\ LastWord(Written(current)) = at
        BY <1>a, <4>1, <4>2, WrittenRun DEF Follows
      <4>4. /\ Append(chunks, Written(current)) \in Seq(ChunkType)
            /\ Chain(Append(chunks, Written(current)))
            /\ LastKept(Append(chunks, Written(current))) = at
        BY <1>a, <2>1, <4>2, <4>3, ChainGrows DEF UpTo
      <4>5. open = Bracketed /\ Bracketed \in ChunkType /\ Bracketed.tokens = <<>>
        BY <3>1, BracketsTyped DEF Renewed
      <4> HIDE DEF open
      <4> QED
        BY <2>2, <3>1, <4>4, <4>5 DEF UpTo
    <3>2. CASE ~ full
      BY <1>a, <2>1, <2>2, <3>2 DEF Renewed
    <3> QED
      BY <3>1, <3>2
  <2> HIDE DEF open
  <2>7. UpTo(chunks', Append2(open, entry), at + 1) /\ Append2(open, entry).tokens # <<>>
    BY <1>a, <2>4, <2>5, <2>6, Joined
  <2> QED
    BY <1>b, <2>1, <2>2, <2>7 DEF KeptInv
<1>4. CASE EndJson
  <2>1. /\ pc = "json" /\ pc' = "done" /\ Total' = Total /\ at' = at
        /\ at = Total /\ UpTo(chunks, current, at) /\ JsonFits(current)
        /\ chunks' = Append(chunks, IF current.tokens = <<>> THEN Bracketed ELSE Written(current))
    BY <1>4, <1>c DEF EndJson, KeptInv, ChunkInv
  <2>2. CASE current.tokens = <<>>
    <3>1. at = 0 /\ LastKept(chunks) = 0 /\ Chain(chunks)
      BY <1>a, <2>1, <2>2 DEF KeptInv, UpTo
    <3>2. chunks = <<>>
      BY <1>a, <3>1, LastKeptTyped
    <3>3. chunks' = <<Bracketed>> /\ Bracketed.tokens = <<>>
      BY <2>1, <2>2, <3>2, BracketsTyped
    <3>4. \A n \in DOMAIN chunks' : chunks'[n].tokens = <<>>
      BY <3>3
    <3> QED
      BY <1>b, <2>1, <3>1, <3>4 DEF KeptInv
  <2>3. CASE current.tokens # <<>>
    <3>1. Follows(current, LastKept(chunks)) /\ LastWord(current) = at /\ Run(current)
      BY <2>1, <2>3 DEF UpTo, Follows
    <3>2. Written(current) \in ChunkType
      BY <1>a, <2>1, <2>3, WrittenTyped
    <3>3. Follows(Written(current), LastKept(chunks)) /\ LastWord(Written(current)) = at
      BY <1>a, <3>1, WrittenRun DEF Follows
    <3>4. chunks' = Append(chunks, Written(current))
      BY <2>1, <2>3
    <3>5. Chain(chunks') /\ LastKept(chunks') = at
      BY <1>a, <2>1, <3>2, <3>3, <3>4, ChainGrows DEF UpTo
    <3>6. at # 0
      BY <1>a, <3>1, RunTyped
    <3> QED
      BY <1>b, <2>1, <3>5, <3>6 DEF KeptInv
  <2> QED
    BY <2>2, <2>3
<1>5. CASE AddPiece
  <2> DEFINE j == PieceEnd(at + 1)
             t == Text(at + 1, j, PieceGap(at + 1, j))
  <2>1. /\ pc = "pieces" /\ at + 1 \in 1 .. Len(words) /\ doc' = doc /\ words' = words
    BY <1>5, <1>a DEF AddPiece, words
  <2>2. j \in at + 1 .. Len(words) /\ PieceGap(at + 1, j) \in 0 .. 2 /\ at <= j
    BY <1>a, <2>1, PieceEndTyped DEF PieceGap
  <2>3. /\ t \in ChunkType /\ Run(t) /\ FirstWord(t) = at + 1 /\ LastWord(t) = j
    BY <1>a, <2>1, <2>2, TextTyped, TextRun
  <2>4. /\ chunks' = Flushed(t.len)
        /\ \/ /\ current' = Append2(Open(t.len), t)
              /\ at' = j
              /\ pc' = pc /\ upto' = upto
           \/ /\ current' = Open(t.len)
              /\ pc' = "words"
              /\ upto' = j
              /\ at' = at
    BY Zenon, <1>5 DEF AddPiece
  <2>5. t.len \in Int
    BY <2>3 DEF ChunkType
  <2> HIDE DEF t, j
  <2>6. /\ UpTo(Flushed(t.len), Open(t.len), at)
        /\ Open(t.len) \in ChunkType /\ Flushed(t.len) \in Seq(ChunkType)
    BY <2>1, <2>5, FlushKept, FlushTyped DEF KeptInv
  <2>7. UpTo(Flushed(t.len), Append2(Open(t.len), t), j)
    BY <1>a, <2>3, <2>6, Joined
  <2> QED
    BY <1>b, <2>1, <2>2, <2>4, <2>6, <2>7 DEF KeptInv
<1>6. CASE AddWord
  <2> DEFINE t == Text(at + 1, at + 1, 1)
  <2>1. /\ pc = "words" /\ pc' = "words" /\ at + 1 \in 1 .. Len(words) /\ doc' = doc
        /\ words' = words /\ upto' = upto /\ at' = at + 1 /\ at < upto
    BY <1>6, <1>a DEF AddWord, words
  <2>2. t \in ChunkType /\ Run(t) /\ FirstWord(t) = at + 1 /\ LastWord(t) = at + 1
    <3>1. at + 1 \in at + 1 .. Len(words) /\ 1 \in 0 .. 2
      BY <1>a, <2>1
    <3> QED
      BY <1>a, <2>1, <3>1, TextTyped, TextRun
  <2>3. chunks' = Flushed(t.len) /\ current' = Append2(Open(t.len), t)
    BY Zenon, <1>6 DEF AddWord
  <2>4. t.len \in Int
    BY <2>2 DEF ChunkType
  <2> HIDE DEF t
  <2>5. /\ UpTo(Flushed(t.len), Open(t.len), at)
        /\ Open(t.len) \in ChunkType /\ Flushed(t.len) \in Seq(ChunkType)
    BY <2>1, <2>4, FlushKept, FlushTyped DEF KeptInv
  <2>6. UpTo(chunks', current', at + 1)
    BY <1>a, <2>2, <2>3, <2>5, Joined
  <2>7. at + 1 <= upto
    BY <1>a, <2>1
  <2> QED
    BY <1>b, <2>1, <2>6, <2>7 DEF KeptInv
<1>7. CASE CutWord
  <2>1. /\ pc = "words" /\ pc' = "words" /\ at + 1 \in 1 .. Len(words) /\ doc' = doc
        /\ words' = words /\ upto' = upto /\ at' = at + 1 /\ at < upto
        /\ Size(at + 1) > MaxChunk /\ current' = Empty
        /\ chunks' = (chunks \o Pending) \o Blocks(at + 1)
    BY <1>7, <1>a DEF CutWord, words
  <2>2. /\ chunks \o Pending \in Seq(ChunkType)
        /\ Chain(chunks \o Pending) /\ LastKept(chunks \o Pending) = at
    BY <2>1, PendingKept
  <2>3. /\ Blocks(at + 1) \in Seq(ChunkType) /\ Blocks(at + 1) # <<>>
        /\ \A n \in DOMAIN Blocks(at + 1) :
              /\ Run(Blocks(at + 1)[n])
              /\ FirstWord(Blocks(at + 1)[n]) = at + 1 /\ LastWord(Blocks(at + 1)[n]) = at + 1
    BY <1>a, <2>1, BlocksRun
  <2>4. Chain(chunks') /\ LastKept(chunks') = at + 1
    <3> DEFINE s == chunks \o Pending
               b == Blocks(at + 1)
    <3>1. chunks' = s \o b
      BY <2>1
    <3>2. s \in Seq(ChunkType) /\ b \in Seq(ChunkType) /\ Chain(s) /\ LastKept(s) = at /\ b # <<>>
      BY <2>2, <2>3
    <3>3. \A n \in DOMAIN b : Run(b[n]) /\ FirstWord(b[n]) = at + 1 /\ LastWord(b[n]) = at + 1
      BY <2>3
    <3> HIDE DEF s, b
    <3> QED
      BY <1>a, <3>1, <3>2, <3>3, BlocksKept
  <2>5. UpTo(chunks', current', at + 1)
    BY <2>1, <2>4 DEF UpTo, Empty
  <2>6. at + 1 <= upto
    BY <1>a, <2>1
  <2> QED
    BY <1>b, <2>1, <2>5, <2>6 DEF KeptInv
<1>8. CASE EndPiece
  BY <1>8, <1>b DEF EndPiece, KeptInv, words
<1>9. CASE EndText
  <2>1. /\ pc = "pieces" /\ pc' = "done" /\ Total' = Total /\ at' = at
        /\ at = Total /\ chunks' = chunks \o Pending
    BY <1>9, <1>a, <1>c DEF EndText
  <2>2. chunks' \in Seq(ChunkType) /\ Chain(chunks') /\ LastKept(chunks') = at
    BY <2>1, PendingKept
  <2>3. at = 0 => \A n \in DOMAIN chunks' : chunks'[n].tokens = <<>>
    <3>1. at = 0 => chunks' = <<>>
      BY <2>2, LastKeptTyped
    <3> QED
      BY <3>1
  <2> QED
    BY <1>b, <2>1, <2>2, <2>3 DEF KeptInv
<1>10. CASE UNCHANGED vars
  BY <1>10, <1>b, <1>c DEF vars, KeptInv
<1> QED
  BY <1>1, <1>2, <1>3, <1>4, <1>5, <1>6, <1>7, <1>8, <1>9, <1>10 DEF Next

(* Whatever the words, entries, limits and overlaps are: the chunks hold   *)
(* every word of a text in its order, through flushes, overlaps, pieces    *)
(* and blocks, and every entry of a JSON value in the order of the parsed  *)
(* value; none is skipped between two chunks, and the last chunk ends with *)
(* the last.                                                               *)
THEOREM SpecWordsKept == Spec => []WordsKept
<1>1. KeptInv /\ AstInv => WordsKept
  <2> SUFFICES ASSUME KeptInv, AstInv PROVE WordsKept
    OBVIOUS
  <2>1. /\ chunks \in Seq(ChunkType) /\ current \in ChunkType /\ at \in Nat
        /\ pc \in {"ast", "raw"} => at = 0 /\ current = Empty /\ chunks = <<>>
    BY WordsTyped DEF KeptInv, ChunkInv
  <2>2. Filled \in Seq(ChunkType)
    BY <2>1 DEF Filled
  <2>3. /\ at = 0 => \A n \in DOMAIN Filled : Filled[n].tokens = <<>>
        /\ at > 0 => Chain(Filled) /\ LastKept(Filled) = at
    <3>1. CASE pc \in {"ast", "raw"}
      <4>1. at = 0 /\ Filled = <<>>
        BY <2>1, <3>1 DEF Filled, Empty
      <4> QED
        BY <4>1
    <3>2. CASE pc = "done"
      <4>1. Filled = chunks
        BY <3>2 DEF Filled
      <4> QED
        BY <3>2, <4>1, <2>1 DEF KeptInv
    <3>3. CASE pc \in {"pieces", "words", "json"}
      <4>1. UpTo(chunks, current, at)
        BY <3>3 DEF KeptInv
      <4>2. Chain(Filled) /\ LastKept(Filled) = at
        <5>1. CASE current.tokens = <<>>
          BY <4>1, <5>1 DEF UpTo, Filled
        <5>2. CASE current.tokens # <<>>
          <6>1. Filled = Append(chunks, current)
            BY <3>3, <5>2 DEF Filled
          <6>2. Chain(chunks) /\ Follows(current, LastKept(chunks)) /\ LastWord(current) = at
            BY <4>1, <5>2 DEF UpTo
          <6> QED
            BY <2>1, <6>1, <6>2, ChainGrows
        <5> QED
          BY <5>1, <5>2
      <4>3. at = 0 => Filled = <<>>
        BY <2>2, <4>2, LastKeptTyped
      <4> QED
        BY <4>2, <4>3
    <3> QED
      BY <3>1, <3>2, <3>3 DEF AstInv
  <2>4. pc = "done" => at = Total
    BY DEF KeptInv
  <2>5. CASE at = 0
    BY <2>3, <2>4, <2>5 DEF WordsKept
  <2>6. CASE at > 0
    <3>1. Chain(Filled) /\ LastKept(Filled) = at
      BY <2>3, <2>6
    <3>2. Filled # <<>> /\ LastWord(Filled[Len(Filled)]) = at
      BY <2>6, <3>1 DEF LastKept
    <3>3. ASSUME NEW n \in DOMAIN Filled
          PROVE  /\ Filled[n].tokens # <<>>
                 /\ \A m \in 1 .. Len(Filled[n].tokens) - 1 :
                       Filled[n].tokens[m + 1].word = Filled[n].tokens[m].word + 1
                 /\ IF n = 1 THEN FirstWord(Filled[n]) = 1
                    ELSE /\ FirstWord(Filled[n]) <= LastWord(Filled[n - 1]) + 1
                         /\ LastWord(Filled[n]) >= LastWord(Filled[n - 1])
      <4> DEFINE c == Filled[n]
      <4>1. c \in ChunkType /\ Follows(c, IF n = 1 THEN 0 ELSE LastWord(Filled[n - 1]))
        <5>1. \A k \in DOMAIN Filled : Filled[k] \in ChunkType
          BY <2>2
        <5> QED
          BY <3>1, <5>1 DEF Chain
      <4>2. Run(c) /\ c.tokens # <<>>
        BY <4>1 DEF Follows, Run
      <4>3. /\ FirstWord(c) \in Nat \ {0} /\ Len(c.tokens) \in Nat
            /\ DOMAIN c.tokens = 1 .. Len(c.tokens)
        BY <4>1, <4>2, RunTyped
      <4>4. ASSUME NEW m \in 1 .. Len(c.tokens) - 1
            PROVE  c.tokens[m + 1].word = c.tokens[m].word + 1
        <5> HIDE DEF c
        <5>1. m \in 1 .. Len(c.tokens) /\ m + 1 \in 1 .. Len(c.tokens)
          BY <4>3
        <5>2. /\ c.tokens[m].word = FirstWord(c) + m - 1
              /\ c.tokens[m + 1].word = FirstWord(c) + (m + 1) - 1
          BY <4>2, <4>3, <5>1 DEF Run
        <5> QED
          BY <4>3, <5>1, <5>2
      <4>5. IF n = 1 THEN FirstWord(c) = 1
            ELSE /\ FirstWord(c) <= LastWord(Filled[n - 1]) + 1
                 /\ LastWord(c) >= LastWord(Filled[n - 1])
        BY <4>1, <4>3 DEF Follows
      <4> QED
        BY <4>2, <4>4, <4>5
    <3> QED
      BY <2>4, <2>6, <3>2, <3>3 DEF WordsKept
  <2> QED
    BY <2>1, <2>5, <2>6
<1> QED
  BY <1>1, InitKeptInv, NextKeptInv, InitAstInv, NextAstInv, PTL DEF Spec

(* The types: in particular no chunk's length is negative, though the code *)
(* trims, and writes a JSON chunk with fewer bytes than it counted.        *)
THEOREM SpecTypeOK == Spec => []TypeOK
<1>1. ChunkInv /\ AstInv => TypeOK
  BY DefsTyped DEF ChunkInv, AstInv, TypeOK
<1> QED
  BY <1>1, InitChunkInv, NextChunkInv, InitAstInv, NextAstInv, PTL DEF Spec
=============================================================================
