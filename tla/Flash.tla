-------------------------------- MODULE Flash --------------------------------
(***************************************************************************)
(* Writing an image to a partition: flash() of fastboot/flash.c and the    *)
(* sparse format of fastboot/sparse.c.  Sizes, offsets and positions are   *)
(* counted in 32-bit words; a word of the medium holds the position in the *)
(* image of the word written there, so that misplaced data shows.          *)
(***************************************************************************)
EXTENDS Integers, Sequences

CONSTANTS
    MediaSize,      \* words of the medium
    Partitions,     \* [lo, hi): part_start and part_end of the GPT entries
    Images,         \* download buffers: plain, or sparse with their chunks
    SPARSE_HEADER,  \* sizeof(struct sparse_header)
    FILE_HDR,       \* sph->file_hdr_sz
    CHUNK_HDR,      \* sph->chunk_hdr_sz
    blk_sz,         \* sph->blk_sz
    WORD_RANGE,     \* 2^32 bytes, in words: where unsigned int wraps
    UINTN_WORDS,    \* sizeof(UINTN) in words: 1 on i386, 2 on x86_64
    Faults          \* what may fail: "label", "media", "heap"

ASSUME FlashAssumption ==
    /\ MediaSize \in Nat
    /\ Partitions \subseteq [lo : 0 .. MediaSize, hi : 0 .. MediaSize]
    /\ SPARSE_HEADER \in Nat /\ FILE_HDR \in Nat /\ CHUNK_HDR \in Nat
    /\ SPARSE_HEADER <= FILE_HDR
    /\ blk_sz \in Nat \ {0}
    /\ WORD_RANGE \in Nat \ {0}
    /\ UINTN_WORDS \in {1, 2}
    /\ Faults \subseteq {"label", "media", "heap"}

ChunkTypes == {"RAW", "FILL", "DONT_CARE", "CRC32", "UNKNOWN"}

\* An image is marked sparse when it starts with the magic number and header
\* sizes and a version that is_sparse_image accepts.
\* A chunk header: size in blocks of the output, size in words of the input.
Chunks == [type : ChunkTypes, chunk_sz : Nat, total_sz : Nat]

\* total_sz is 32 bits wide.
ASSUME ImageAssumption ==
    /\ Images \subseteq [sparse : BOOLEAN, chunks : Seq(Chunks), size : Nat]
    /\ \A im \in Images : \A k \in DOMAIN im.chunks :
          im.chunks[k].total_sz < WORD_RANGE

VARIABLES
    pc,
    gparti,         \* static: the partition found last
    cur_offset,     \* static
    image,          \* data and size of the request
    i, s, rlen,     \* locals of flash_sparse: chunk, read position, rest
    broken,         \* what fails, now and then, during this request
    disk            \* what this request has put on the medium

vars == <<pc, gparti, cur_offset, image, i, s, rlen, broken, disk>>
locals == <<i, s, rlen>>

Untouched == -2
Uninitialised == -1     \* what AllocatePool left in a buffer

Media == 0 .. MediaSize - 1
Clean == [w \in Media |-> Untouched]
NoImage == [sparse |-> FALSE, chunks |-> <<>>, size |-> 0]

TypeOK ==
    /\ pc \in {"idle", "plain", "chunk", "ok", "failed"}
    /\ gparti \in [lo : 0 .. MediaSize, hi : 0 .. MediaSize]
    /\ cur_offset \in Nat
    /\ image \in [sparse : BOOLEAN, chunks : Seq(Chunks), size : Nat]
    /\ i \in Nat /\ s \in Nat /\ rlen \in Nat
    /\ broken \subseteq Faults
    /\ disk \in [Media -> Int]
    /\ pc = "chunk" => i \in 1 .. Len(image.chunks) + 1

Init ==
    /\ pc = "idle"
    /\ gparti = [lo |-> 0, hi |-> 0]
    /\ cur_offset = 0
    /\ image = NoImage
    /\ i = 0 /\ s = 0 /\ rlen = 0
    /\ broken = {}
    /\ disk = Clean

-----------------------------------------------------------------------------
(***************************************************************************)
(* The primitives of flash.c.  Each is an action that is possible when the *)
(* function may return r; it changes the medium and the cursor only.       *)
(***************************************************************************)
u32(n) == n % WORD_RANGE

\* Mutants: only the start of the range is compared; the last word of the
\* partition is refused.
is_inside_partition_StartOnly(off, sz) == off >= gparti.lo /\ off < gparti.hi
is_inside_partition_Strict(off, sz) == off >= gparti.lo /\ off + sz < gparti.hi

is_inside_partition(off, sz) == off >= gparti.lo /\ off + sz <= gparti.hi

\* n words of f at the cursor.
Put(f, n) ==
    [w \in Media |->
        IF w >= cur_offset /\ w < cur_offset + n THEN f[w - cur_offset] ELSE disk[w]]

flash_skip(size, r) ==
    /\ UNCHANGED disk
    /\ IF is_inside_partition(cur_offset, size)
       THEN r = "SUCCESS" /\ cur_offset' = cur_offset + size
       ELSE r = "ERROR" /\ UNCHANGED cur_offset

\* Mutant: the status of WriteDisk is dropped.
flash_write_ErrorLost(f, size, r) ==
    IF ~is_inside_partition(cur_offset, size)
    THEN r = "ERROR" /\ UNCHANGED <<disk, cur_offset>>
    ELSE /\ r = "SUCCESS"
         /\ \E n \in (IF "media" \in broken THEN 0 .. size ELSE {size}) :
               disk' = Put(f, n)
         /\ cur_offset' = cur_offset + size

\* WriteDisk may fail after any part of the data; the cursor moves anyway.
flash_write(f, size, r) ==
    \/ /\ ~is_inside_partition(cur_offset, size)
       /\ r = "ERROR"
       /\ UNCHANGED <<disk, cur_offset>>
    \/ /\ is_inside_partition(cur_offset, size)
       /\ r = "SUCCESS"
       /\ disk' = Put(f, size)
       /\ cur_offset' = cur_offset + size
    \/ /\ is_inside_partition(cur_offset, size)
       /\ r = "ERROR" /\ "media" \in broken
       /\ \E n \in 0 .. size : disk' = Put(f, n)
       /\ cur_offset' = cur_offset + size

\* The loop stores size / sizeof(UINTN) words of the pattern at p.
flash_fill(p, size, r) ==
    \/ /\ "heap" \in broken
       /\ r = "ERROR"
       /\ UNCHANGED <<disk, cur_offset>>
    \/ flash_write([w \in 0 .. size - 1 |->
                      IF w < size \div UINTN_WORDS THEN p ELSE Uninitialised],
                   size, r)

\* flash_chunk on a chunk whose data of size words starts at p.
flash_chunk(ckh, p, size, r) ==
    LET out == u32(ckh.chunk_sz * blk_sz)
        Stay == UNCHANGED <<disk, cur_offset>>
        consistent == size % blk_sz = 0 /\ size = out
    IN \/ /\ ckh.type = "RAW" /\ consistent
          /\ flash_write([w \in 0 .. size - 1 |-> p + w], size, r)
       \/ ckh.type = "RAW" /\ ~consistent /\ r = "ERROR" /\ Stay
       \/ ckh.type = "DONT_CARE" /\ flash_skip(out, r)
       \/ ckh.type = "FILL" /\ flash_fill(p, out, r)
       \/ ckh.type = "CRC32" /\ r = "SUCCESS" /\ Stay
       \/ ckh.type = "UNKNOWN" /\ r = "ERROR" /\ Stay

-----------------------------------------------------------------------------
(***************************************************************************)
(* flash() and flash_sparse().                                             *)
(***************************************************************************)
is_sparse_image(im) == im.size >= SPARSE_HEADER /\ im.sparse

\* gpt_get_partition_by_label finds nothing.
FlashNoPartition ==
    /\ pc = "idle"
    /\ "label" \in Faults
    /\ pc' = "failed"
    /\ broken' = Faults
    /\ UNCHANGED <<gparti, cur_offset, image, locals, disk>>

\* The partition is found; is_sparse_image chooses the way on.
Flash ==
    /\ pc = "idle"
    /\ gparti' \in Partitions
    /\ cur_offset' = gparti'.lo
    /\ image' \in Images
    /\ broken' \in {{}, Faults}
    /\ UNCHANGED disk
    /\ IF is_sparse_image(image')
       THEN /\ i' = 1 /\ s' = FILE_HDR /\ rlen' = image'.size
            /\ pc' = "chunk"
       ELSE /\ pc' = "plain"
            /\ UNCHANGED locals

FlashPlain ==
    /\ pc = "plain"
    /\ \E r \in {"SUCCESS", "ERROR"} :
          /\ flash_write([w \in 0 .. image.size - 1 |-> w], image.size, r)
          /\ pc' = IF r = "SUCCESS" THEN "ok" ELSE "failed"
    /\ UNCHANGED <<gparti, image, locals, broken>>

\* Mutant: only the header is compared with the rest.
Truncated_HeaderOnly(ckh) == rlen < CHUNK_HDR

Truncated(ckh) == rlen < CHUNK_HDR \/ rlen < ckh.total_sz
Malformed(ckh) == ckh.total_sz < CHUNK_HDR

\* One turn of the loop of flash_sparse.
FlashChunk ==
    /\ pc = "chunk" /\ i <= Len(image.chunks)
    /\ LET ckh == image.chunks[i] IN
       \/ /\ Truncated(ckh) \/ Malformed(ckh)
          /\ pc' = "failed"
          /\ UNCHANGED <<locals, disk, cur_offset>>
       \/ /\ ~Truncated(ckh) /\ ~Malformed(ckh)
          /\ flash_chunk(ckh, s + CHUNK_HDR, ckh.total_sz - CHUNK_HDR, "ERROR")
          /\ pc' = "failed"
          /\ UNCHANGED locals
       \/ /\ ~Truncated(ckh) /\ ~Malformed(ckh)
          /\ flash_chunk(ckh, s + CHUNK_HDR, ckh.total_sz - CHUNK_HDR, "SUCCESS")
          /\ i' = i + 1 /\ s' = s + ckh.total_sz /\ rlen' = rlen - ckh.total_sz
          /\ UNCHANGED pc
    /\ UNCHANGED <<gparti, image, broken>>

\* Every chunk of the header's total_chunks has been handled.
FlashSparseEnd ==
    /\ pc = "chunk" /\ i > Len(image.chunks)
    /\ pc' = "ok"
    /\ UNCHANGED <<gparti, cur_offset, image, locals, broken, disk>>

\* The caller has the result: the buffer and the locals are gone, the
\* statics stay, and disk starts to record the next request.
Return ==
    /\ pc \in {"ok", "failed"}
    /\ pc' = "idle"
    /\ image' = NoImage /\ i' = 0 /\ s' = 0 /\ rlen' = 0
    /\ broken' = {}
    /\ disk' = Clean
    /\ UNCHANGED <<gparti, cur_offset>>

Next ==
    \/ FlashNoPartition \/ Flash \/ FlashPlain \/ FlashChunk \/ FlashSparseEnd
    \/ Return

Spec == Init /\ [][Next]_vars

-----------------------------------------------------------------------------
(***************************************************************************)
(* The meaning of an image, after the comments of sparse_format.h: chunk k *)
(* describes chunk_sz blocks of the output, and its data follows its       *)
(* header in the input.                                                    *)
(***************************************************************************)
\* At k: start and the sizes before the k-th.
RunningSum(start, sizes) ==
    LET sum[k \in 1 .. Len(sizes) + 1] ==
            IF k = 1 THEN start ELSE sum[k - 1] + sizes[k - 1]
    IN sum

\* Words of output and of input before chunk k.
OutBefore(im) ==
    RunningSum(0, [k \in 1 .. Len(im.chunks) |-> im.chunks[k].chunk_sz * blk_sz])

InBefore(im) ==
    RunningSum(FILE_HDR, [k \in 1 .. Len(im.chunks) |-> im.chunks[k].total_sz])

Meaning(im, w) ==
    LET out == OutBefore(im)
        holders == {k \in 1 .. Len(im.chunks) :
                       /\ im.chunks[k].type \in {"RAW", "FILL"}
                       /\ out[k] <= w /\ w < out[k + 1]}
    IN IF ~is_sparse_image(im) THEN (IF w < im.size THEN w ELSE Untouched)
       ELSE IF holders = {} THEN Untouched
       ELSE LET k == CHOOSE k \in holders : TRUE
                p == InBefore(im)[k] + CHUNK_HDR
            IN IF im.chunks[k].type = "RAW" THEN p + w - out[k] ELSE p

InPart(w) == gparti.lo <= w /\ w < gparti.hi

Goal ==
    IF pc = "idle" THEN Clean
    ELSE [w \in Media |->
             IF InPart(w) THEN Meaning(image, w - gparti.lo) ELSE Untouched]

DataSize(ckh) ==
    CASE ckh.type = "RAW"       -> ckh.chunk_sz * blk_sz
      [] ckh.type = "DONT_CARE" -> 0
      [] OTHER                  -> 1

WellFormed(im) ==
    /\ \A k \in 1 .. Len(im.chunks) :
          /\ im.chunks[k].type # "UNKNOWN"
          /\ im.chunks[k].total_sz = CHUNK_HDR + DataSize(im.chunks[k])
    /\ im.size = InBefore(im)[Len(im.chunks) + 1]

Fits(im) ==
    gparti.lo + (IF is_sparse_image(im) THEN OutBefore(im)[Len(im.chunks) + 1] ELSE im.size)
        <= gparti.hi

-----------------------------------------------------------------------------
(***************************************************************************)
(* Properties.                                                             *)
(***************************************************************************)
\* No request changes a word outside its partition, whatever the chunk
\* headers say and wherever a write fails (is_inside_partition).
InsidePartition ==
    \A w \in Media : disk[w] # Untouched => InPart(w)

\* After a success the partition holds the image, each word at its place.
SuccessMeansImage == pc = "ok" => disk = Goal

\* flash() implements the promise of PartUpdate: in each state of a request
\* the medium holds a part of the image and nothing else, and success means
\* all of it.
Contract == INSTANCE PartUpdate WITH
    Values <- Int,
    st <- IF pc \in {"plain", "chunk"} THEN "busy" ELSE pc,
    part <- IF pc = "idle" THEN {} ELSE {w \in Media : InPart(w)},
    goal <- Goal
ImplementsPartUpdate == Contract!Spec

\* While the hardware works, an image that keeps to the format and fits is
\* flashed, whatever the requests before it did: none of the checks of
\* flash_sparse and is_inside_partition refuses it.
AcceptsGoodImage ==
    broken = {} /\ pc = "failed" =>
        ~(Fits(image) /\ (is_sparse_image(image) => WellFormed(image)))
=============================================================================
