CONSTANTS
  MediaSize = 8
  Partitions <- MCPartitions
  Images <- MCImages
  SPARSE_HEADER = 7
  FILE_HDR = 7
  CHUNK_HDR = 3
  blk_sz = 2
  WORD_RANGE = 1024
  UINTN_WORDS = 1
  Faults = {"label", "media", "heap"}
  MaxChunks = 3
  MaxBadChunks = 2
  BlockCounts = {0, 1, 2}
  Short = {8}
SPECIFICATION Spec
INVARIANTS
  TypeOK
  InsidePartition
  AcceptsGoodImage
PROPERTIES
  ImplementsPartUpdate
