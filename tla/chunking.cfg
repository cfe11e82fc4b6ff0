SPECIFICATION Spec
CONSTANTS
  MaxChunk = 6
  Overlap = 4
  MaxWords = 4
  Documents <- MCDocuments
INVARIANTS TypeOK ChunkSizeBounded WordsKept AstPartition
CHECK_DEADLOCK FALSE
