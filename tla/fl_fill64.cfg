CONSTANTS
  MediaSize = 8
  Partitions <- MCPartitions
  Images <- MCImages
  SPARSE_HEADER = 7
  FILE_HDR = 7
  CHUNK_HDR = 3
  blk_sz = 2
  WORD_RANGE = 1024
  UINTN_WORDS = 2
  Faults = {}
  MaxChunks = 1
  MaxBadChunks = 0
  BlockCounts = {1}
  Short = {}
SPECIFICATION Spec
INVARIANTS
  SuccessMeansImage
