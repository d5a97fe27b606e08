------------------------------- MODULE MCFlash -------------------------------
(***************************************************************************)
(* Flash with a block of two words, three chunk headers at most, and the   *)
(* header sizes of the format (28 and 12 bytes).                           *)
(***************************************************************************)
EXTENDS Flash

CONSTANTS
    MaxChunks,      \* chunks of a well-formed image
    MaxBadChunks,   \* chunks of an inconsistent or truncated image
    BlockCounts,    \* blocks of a chunk
    Short           \* words missing at the end of a truncated image

MCPartitions == {[lo |-> 1, hi |-> 7], [lo |-> 0, hi |-> 5]}

\* A chunk may have a word of input too many or too few.
MCChunks(slack) ==
    {c \in [type : ChunkTypes, chunk_sz : BlockCounts, total_sz : 0 .. 11] :
        /\ c.total_sz - CHUNK_HDR - DataSize(c) \in slack
        /\ c.type \in {"CRC32", "UNKNOWN"} => c.chunk_sz = 0}

ChunkSeqs(max, slack) == UNION {[1 .. n -> MCChunks(slack)] : n \in 0 .. max}

SparseImages(chunkSeqs, short) ==
    {im \in [sparse : {TRUE}, chunks : chunkSeqs, size : 0 .. 40] :
        InBefore(im)[Len(im.chunks) + 1] - im.size \in short}

PlainImages ==
    [sparse : {FALSE}, chunks : {<<>>}, size : 0 .. 7]

MCImages ==
    PlainImages
        \cup SparseImages(ChunkSeqs(MaxChunks, {0}), {0})
        \cup SparseImages(ChunkSeqs(MaxBadChunks, -1 .. 1), {0} \cup Short)
=============================================================================
