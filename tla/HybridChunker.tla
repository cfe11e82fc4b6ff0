---------------------------- MODULE HybridChunker ----------------------------
(***************************************************************************)
(* The chunks of one file: HybridChunker::process                          *)
(* (src/core/chunking/hybrid.rs) and extract_ast_chunks                    *)
(* (src/processors/chunking.rs).  A code file is cut at its definitions,   *)
(* with the code between them as chunks of their own; then any file is cut *)
(* into raw chunks of at most MaxChunk bytes: a JSON value between its     *)
(* entries, a text between paragraphs, else sentences, else words, else    *)
(* anywhere, each chunk with the last words of the one before.             *)
(*                                                                         *)
(* A document is a sequence of words (of entries, for JSON) with their     *)
(* byte ranges, their characters and what each of them ends; a sentence's  *)
(* last word includes its full stop.  All words differ, so a text occurs   *)
(* where it was cut from or nowhere; a definition begins and ends with a   *)
(* word.  A JSON value is read as serde_json has it, which keeps the       *)
(* entries of an object in a map: in the order of their keys, and of equal *)
(* keys the last.                                                          *)
(***************************************************************************)
EXTENDS Integers, Sequences, FiniteSets, SequencesExt

CONSTANTS
    MaxChunk,   \* config.size.max_chunk_size
    Overlap,    \* config.size.overlap_size
    Documents

(* A chunk has room for the empty value "{}". *)
ASSUME ChunkingAssumption == MaxChunk \in Nat /\ MaxChunk >= 2 /\ Overlap \in Nat

(* A word with the offsets at which its characters end, and its key: an    *)
(* entry's in its object, or its index in its array.                       *)
Word ==
    [from : Nat, to : Nat, ends : {"word", "sentence", "paragraph"},
     chars : Seq(Nat), key : Nat]
Definition == [name : STRING, first : Nat \ {0}, last : Nat]
Document ==
    [kind : {"text", "json", "code"}, size : Nat, words : Seq(Word),
     entries : Seq(Nat \ {0}), parsed : BOOLEAN, defs : Seq(Definition)]

CharEnd(word, n) == IF n = 0 THEN 0 ELSE word.chars[n]

(* UTF-8: n characters are n to 4 * n bytes. *)
Encoded(word) ==
    /\ CharEnd(word, Len(word.chars)) = word.to - word.from
    /\ \A m, n \in 0 .. Len(word.chars) :
          m <= n => CharEnd(word, n) - CharEnd(word, m) \in n - m .. 4 * (n - m)

(* The entries of a parsed value, and what they are in the file. *)
LastOfKey(d) ==
    {i \in DOMAIN d.words : \A j \in DOMAIN d.words : j > i => d.words[j].key # d.words[i].key}
Parsed(d) ==
    /\ Range(d.entries) = LastOfKey(d)
    /\ \A m, n \in DOMAIN d.entries :
          m < n => d.words[d.entries[m]].key < d.words[d.entries[n]].key

(* Words come in the order of their bytes; definitions are inside the file *)
(* and, once sorted, in the order of their first.                          *)
ASSUME DocumentsAssumption ==
    \A d \in Documents :
        /\ d \in Document
        /\ \A i, j \in DOMAIN d.words : i <= j => d.words[i].from <= d.words[j].to
        /\ \A i \in DOMAIN d.words : d.words[i].to <= d.size /\ Encoded(d.words[i])
        /\ d.kind = "json" => Parsed(d)
        /\ \A i \in DOMAIN d.defs : /\ d.defs[i].first <= d.defs[i].last
                                    /\ d.defs[i].last <= Len(d.words)
        /\ \A i, j \in DOMAIN d.defs : i <= j => d.defs[i].first <= d.defs[j].first

VARIABLES
    doc,       \* the file
    pc,        \* "ast", "raw", "pieces", "words", "json" or "done"
    node,      \* definitions seen
    last_end,  \* the last word inside them
    ast,       \* AST chunks
    at,        \* words or entries taken
    upto,      \* the last word of the piece that is split into words
    current,   \* the chunk being filled
    chunks     \* raw chunks

astVars == <<node, last_end, ast>>
rawVars == <<at, upto, current, chunks>>
vars == <<doc, pc, astVars, rawVars>>

words == doc.words

(* What is read is the words of the file, or the entries of the value if   *)
(* that is cut.                                                            *)
IsCut == doc.size > MaxChunk
Total == IF doc.kind = "json" /\ IsCut THEN Len(doc.entries) ELSE Len(words)
Empty == [tokens |-> <<>>, len |-> 0]
Bracketed == [Empty EXCEPT !.len = 2]  \* "{}" or "[]"

Init ==
    /\ doc \in Documents
    /\ pc = IF doc.kind = "code" /\ doc.parsed THEN "ast" ELSE "raw"
    /\ node = 0 /\ last_end = 0 /\ ast = <<>>
    /\ at = 0 /\ upto = 0 /\ current = Empty /\ chunks = <<>>

-----------------------------------------------------------------------------
(* AST chunks, next to the file chunk with the whole content.              *)

AstChunk(signature, first, last) ==
    [signature |-> signature, first |-> first, last |-> last]
Node(d) == <<AstChunk(<<"definition", d.name>>, d.first, d.last)>>

(* Code between the definitions, if it is more than white space. *)
Loose(first, last) ==
    IF first <= last THEN <<AstChunk(<<"loose_code", first - 1>>, first, last)>> ELSE <<>>

AfterNode_Last(d) == d.last
AfterNode_Past(d) == IF d.last > last_end THEN d.last + 1 ELSE last_end
AfterNode(d) == IF d.last > last_end THEN d.last ELSE last_end

CutDefinition ==
    /\ pc = "ast"
    /\ node < Len(doc.defs)
    /\ LET d == doc.defs[node + 1]
       IN  /\ ast' = ast \o Loose(last_end + 1, d.first - 1) \o Node(d)
           /\ last_end' = AfterNode(d)
    /\ node' = node + 1
    /\ UNCHANGED <<doc, pc, rawVars>>

Rest == Loose(last_end + 1, Len(words))

CutRest ==
    /\ pc = "ast"
    /\ node = Len(doc.defs)
    /\ ast' = ast \o Rest
    /\ pc' = "raw"
    /\ UNCHANGED <<doc, node, last_end, rawVars>>

-----------------------------------------------------------------------------
(* Raw chunks.                                                             *)

(* A part of a word, which is known by its place in what is read.          *)
Token(word, from, size, gap) ==
    [word |-> word, from |-> from, size |-> size, gap |-> gap]
Size(i) == words[i].to - words[i].from
TextLen(i, j) == words[j].to - words[i].from

(* White space after a word. *)
Gap(i) == IF words[i].ends = "paragraph" THEN 2 ELSE 1

Tokens(i, j, gap) ==
    [n \in 1 .. j - i + 1 |->
        LET k == i + n - 1
        IN  Token(k, 0, Size(k), IF k = j THEN gap ELSE Gap(k))]
Text(i, j, gap) == [tokens |-> Tokens(i, j, gap), len |-> TextLen(i, j) + gap]
Append2(chunk, text) ==
    [tokens |-> chunk.tokens \o text.tokens, len |-> chunk.len + text.len]

Trim(chunk) ==
    LET n == Len(chunk.tokens)
    IN  [tokens |-> [chunk.tokens EXCEPT ![n].gap = 0],
         len |-> chunk.len - chunk.tokens[n].gap]

(* A file that is short enough is one chunk; the others are cut.           *)
Begin ==
    /\ pc = "raw"
    /\ \/ /\ ~IsCut
          /\ pc' = "done"
          /\ at' = Len(words)
          /\ chunks' = IF words = <<>> THEN <<Empty>> ELSE <<Text(1, Len(words), 0)>>
          /\ UNCHANGED current
       \/ /\ IsCut /\ doc.kind = "json"
          /\ pc' = "json"
          /\ current' = Bracketed
          /\ UNCHANGED <<at, chunks>>
       \/ /\ IsCut /\ doc.kind # "json"
          /\ pc' = "pieces"
          /\ UNCHANGED <<at, current, chunks>>
    /\ UNCHANGED <<doc, astVars, upto>>

(* chunk_json.  An entry counts with two bytes more than it has, a chunk   *)
(* with two for its brackets; written, it has one comma less than entries. *)
Written(chunk) == [chunk EXCEPT !.len = @ - Len(chunk.tokens) - 1]

Renewed(full) == IF full THEN Bracketed ELSE current

AddEntry ==
    /\ pc = "json"
    /\ at < Total
    /\ LET size == Size(doc.entries[at + 1]) + 2
           full == current.tokens # <<>> /\ current.len + size > MaxChunk
       IN  /\ chunks' = IF full THEN Append(chunks, Written(current)) ELSE chunks
           /\ current' =
                 Append2(Renewed(full), [tokens |-> <<Token(at + 1, 0, size - 2, 1)>>, len |-> size])
    /\ at' = at + 1
    /\ UNCHANGED <<doc, pc, astVars, upto>>

EndJson ==
    /\ pc = "json"
    /\ at = Total
    /\ chunks' = Append(chunks, IF current.tokens = <<>> THEN Bracketed ELSE Written(current))
    /\ pc' = "done"
    /\ UNCHANGED <<doc, astVars, at, upto, current>>

(***************************************************************************)
(* The overlap: the last words of a chunk, as split_whitespace finds them, *)
(* with a blank after each (so never of no bytes), as many as fit into     *)
(* Overlap bytes.                                                          *)
(***************************************************************************)
Blanked(tokens) == [n \in DOMAIN tokens |->
    [tokens[n] EXCEPT !.gap = IF @ > 0 \/ n = Len(tokens) THEN 1 ELSE 0]]
LenOf(tokens) == FoldSeq(LAMBDA t, n : t.size + t.gap + n, 0, tokens)
LastWords(tokens, n) == Blanked(SubSeq(tokens, n, Len(tokens)))

OverlapText(chunk) ==
    LET tokens == chunk.tokens
        starts == {n \in DOMAIN tokens : n = 1 \/ tokens[n - 1].gap > 0}
        fitting == {n \in starts : LenOf(LastWords(tokens, n)) \in 1 .. Overlap}
    IN  IF chunk.len <= Overlap \/ fitting = {} THEN Empty
        ELSE LET n == CHOOSE n \in fitting : \A m \in fitting : n <= m
             IN  [tokens |-> LastWords(tokens, n), len |-> LenOf(LastWords(tokens, n))]

(* What becomes of the current chunk before len bytes are added. *)
IsFull(len) == current.len + len > MaxChunk /\ current.tokens # <<>>
Open_KeepsAll(len) == current
Open(len) == IF IsFull(len) THEN OverlapText(current) ELSE current
Flushed(len) == IF IsFull(len) THEN Append(chunks, Trim(current)) ELSE chunks

(***************************************************************************)
(* The pieces of a text: a paragraph, or its sentences if it is too long.  *)
(* A paragraph keeps the blank line after it and a sentence its blank; the *)
(* last of several sentences keeps nothing, and is joined to what follows. *)
(***************************************************************************)
ParagraphEnds == {j \in DOMAIN words : words[j].ends = "paragraph"}
FirstOf(i) ==  \* the first word of the paragraph with word i
    CHOOSE f \in 1 .. i : /\ \A j \in f .. i - 1 : j \notin ParagraphEnds
                          /\ f = 1 \/ (f - 1) \in ParagraphEnds
LastOf(i) ==
    CHOOSE l \in i .. Len(words) : /\ \A j \in i .. l - 1 : j \notin ParagraphEnds
                                   /\ l = Len(words) \/ l \in ParagraphEnds
Sentence(i, j) ==
    /\ \A k \in i .. j - 1 : words[k].ends # "sentence"
    /\ j = LastOf(i) \/ words[j].ends = "sentence"

PieceEnd(i) ==
    IF TextLen(FirstOf(i), LastOf(i)) <= MaxChunk THEN LastOf(i)
    ELSE CHOOSE j \in i .. LastOf(i) : Sentence(i, j)

PieceGap(i, j) ==
    IF i = FirstOf(i) /\ j = LastOf(i) THEN 2 ELSE IF j = LastOf(i) THEN 0 ELSE 1

AddPiece ==
    /\ pc = "pieces"
    /\ at < Len(words)
    /\ LET j == PieceEnd(at + 1)
           text == Text(at + 1, j, PieceGap(at + 1, j))
       IN  /\ chunks' = Flushed(text.len)
           /\ \/ /\ text.len <= MaxChunk
                 /\ current' = Append2(Open(text.len), text)
                 /\ at' = j
                 /\ UNCHANGED <<pc, upto>>
              \/ /\ text.len > MaxChunk
                 /\ current' = Open(text.len)
                 /\ pc' = "words"
                 /\ upto' = j
                 /\ UNCHANGED at
    /\ UNCHANGED <<doc, astVars>>

(* The next word of a piece that is too long itself. *)
AddWord ==
    /\ pc = "words"
    /\ at < upto
    /\ Size(at + 1) <= MaxChunk
    /\ LET text == Text(at + 1, at + 1, 1)
       IN  /\ chunks' = Flushed(text.len)
           /\ current' = Append2(Open(text.len), text)
    /\ at' = at + 1
    /\ UNCHANGED <<doc, pc, astVars, upto>>

(* A word of more bytes than MaxChunk is cut into blocks of MaxChunk       *)
(* characters, after what is before it.                                    *)
Blocks(i) ==
    LET count == Len(words[i].chars)
        End(n) == CharEnd(words[i], IF n * MaxChunk < count THEN n * MaxChunk ELSE count)
    IN  [n \in 1 .. (count + MaxChunk - 1) \div MaxChunk |->
            LET size == End(n) - End(n - 1)
            IN  [tokens |-> <<Token(i, End(n - 1), size, 0)>>, len |-> size]]

Pending_None == <<>>
Pending == IF current.tokens = <<>> THEN <<>> ELSE <<Trim(current)>>

CutWord ==
    /\ pc = "words"
    /\ at < upto
    /\ Size(at + 1) > MaxChunk
    /\ chunks' = chunks \o Pending \o Blocks(at + 1)
    /\ current' = Empty
    /\ at' = at + 1
    /\ UNCHANGED <<doc, pc, astVars, upto>>

EndPiece ==
    /\ pc = "words"
    /\ at = upto
    /\ pc' = "pieces"
    /\ UNCHANGED <<doc, astVars, rawVars>>

EndText ==
    /\ pc = "pieces"
    /\ at = Len(words)
    /\ chunks' = chunks \o Pending
    /\ current' = Empty
    /\ pc' = "done"
    /\ UNCHANGED <<doc, astVars, at, upto>>

Next ==
    \/ CutDefinition \/ CutRest
    \/ Begin
    \/ AddEntry \/ EndJson
    \/ AddPiece \/ AddWord \/ CutWord \/ EndPiece \/ EndText

Spec == Init /\ [][Next]_vars

-----------------------------------------------------------------------------
(* Properties.                                                             *)

TokenType == [word : Nat \ {0}, from : Nat, size : Nat, gap : 0 .. 2]
ChunkType == [tokens : Seq(TokenType), len : Nat]
AstChunkType ==
    [signature : {<<"definition", d.name>> : d \in Range(doc.defs)}
                    \cup {<<"loose_code", i>> : i \in 0 .. Len(words)},
     first : Nat \ {0}, last : Nat]

TypeOK ==
    /\ doc \in Document
    /\ pc \in {"ast", "raw", "pieces", "words", "json", "done"}
    /\ node \in 0 .. Len(doc.defs)
    /\ last_end \in 0 .. Len(words)
    /\ ast \in Seq(AstChunkType)
    /\ at \in 0 .. Total
    /\ upto \in 0 .. Len(words)
    /\ current \in ChunkType
    /\ chunks \in Seq(ChunkType)

(* A raw chunk of a text has at most as many bytes as max_chunk_size and   *)
(* the overlap, which is added after the size test; or it is a block of a  *)
(* word that is too long, whose characters are counted: up to four times   *)
(* as many bytes.  One of a JSON value is longer than max_chunk_size only  *)
(* if it is a single entry.                                                *)
IsBlock(chunk) ==
    Len(chunk.tokens) = 1 /\ Size(chunk.tokens[1].word) > MaxChunk
ChunkSizeBounded ==
    \A n \in DOMAIN chunks :
        IF doc.kind = "json"
        THEN chunks[n].len <= MaxChunk \/ Len(chunks[n].tokens) = 1
        ELSE \/ chunks[n].len <= MaxChunk + Overlap
             \/ IsBlock(chunks[n]) /\ chunks[n].len <= 4 * MaxChunk

(* No word of a text, and no entry of a value once it is parsed, is lost   *)
(* or comes out of its order, through flushes, overlaps, the change        *)
(* between pieces and words, and blocks: read one after the other, the     *)
(* chunks and the one being filled go on where the words of the ones       *)
(* before end, or earlier, and the last ends where the file does.          *)
Filled == IF current.tokens = <<>> \/ pc = "done" THEN chunks ELSE Append(chunks, current)
FirstWord(chunk) == chunk.tokens[1].word
LastWord(chunk) == chunk.tokens[Len(chunk.tokens)].word
WordsKept ==
    /\ \A n \in DOMAIN Filled :
          LET tokens == Filled[n].tokens
          IN  IF at = 0 THEN tokens = <<>>
              ELSE /\ tokens # <<>>
                   /\ \A m \in 1 .. Len(tokens) - 1 : tokens[m + 1].word = tokens[m].word + 1
                   /\ IF n = 1 THEN FirstWord(Filled[n]) = 1
                      ELSE /\ FirstWord(Filled[n]) <= LastWord(Filled[n - 1]) + 1
                           /\ LastWord(Filled[n]) >= LastWord(Filled[n - 1])
    /\ at > 0 => Filled # <<>> /\ LastWord(Filled[Len(Filled)]) = at
    /\ pc = "done" => at = Total

(* The definitions and the code between them make up the file: every word  *)
(* up to the last definition taken is in one of their chunks, nested       *)
(* definitions or not, no loose code repeats a definition's, and no two    *)
(* chunks of loose code have one signature.                                *)
Covered == UNION {c.first .. c.last : c \in Range(ast)}
IsLoose(c) == c.signature[1] = "loose_code"
AstPartition ==
    doc.kind = "code" /\ doc.parsed =>
        /\ Covered = IF pc = "ast" THEN 1 .. last_end ELSE DOMAIN words
        /\ \A m, n \in DOMAIN ast :
              m # n /\ IsLoose(ast[m]) =>
                  /\ ast[m].first .. ast[m].last \cap ast[n].first .. ast[n].last = {}
                  /\ ast[m].signature # ast[n].signature
=============================================================================
