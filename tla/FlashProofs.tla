------------------------------ MODULE FlashProofs ------------------------------
(***************************************************************************)
(* Theorems about Flash, for every medium, set of partitions, set of       *)
(* images, word width and choice of faults.                                *)
(***************************************************************************)
EXTENDS Flash, TLAPS, WellFoundedInduction

-----------------------------------------------------------------------------
(***************************************************************************)
(* Type correctness.  The only arithmetic that could leave Nat is          *)
(* rlen - total_sz, which Truncated guards, and total_sz - CHUNK_HDR,      *)
(* which Malformed guards.                                                 *)
(***************************************************************************)
\* A product reduced to unsigned int is a natural number.
LEMMA U32Type == ASSUME NEW n \in Nat PROVE u32(n) \in Nat
  BY FlashAssumption DEF u32

\* The length of a chunk's output is a natural number.
LEMMA OutType ==
  ASSUME NEW ckh \in Chunks
  PROVE  u32(ckh.chunk_sz * blk_sz) \in Nat
  <1>1. ckh.chunk_sz \in Nat /\ blk_sz \in Nat
    BY FlashAssumption DEF Chunks
  <1>2. ckh.chunk_sz * blk_sz \in Nat
    BY <1>1
  <1> QED
    BY <1>2, U32Type

\* flash_write leaves a well-typed medium and cursor behind.
LEMMA WriteType ==
  ASSUME TypeOK, NEW f, NEW size \in Nat, NEW r,
         \A w \in 0 .. size - 1 : f[w] \in Int,
         flash_write(f, size, r)
  PROVE  disk' \in [Media -> Int] /\ cur_offset' \in Nat
  <1>1. ASSUME NEW n \in 0 .. size PROVE Put(f, n) \in [Media -> Int]
    <2>1. ASSUME NEW w \in Media, w >= cur_offset, w < cur_offset + n
          PROVE  w - cur_offset \in 0 .. size - 1
      BY <1>1, <2>1, FlashAssumption DEF TypeOK, Media
    <2> QED
      BY <2>1 DEF Put, TypeOK
  <1>2. size \in 0 .. size
    OBVIOUS
  <1> QED
    BY <1>1, <1>2 DEF flash_write, TypeOK

\* So does every chunk.
LEMMA ChunkType ==
  ASSUME TypeOK, NEW ckh \in Chunks, NEW p \in Nat, NEW size \in Nat, NEW r,
         flash_chunk(ckh, p, size, r)
  PROVE  disk' \in [Media -> Int] /\ cur_offset' \in Nat
  <1> DEFINE out == u32(ckh.chunk_sz * blk_sz)
  <1>0. out \in Nat
    BY OutType
  <1> HIDE DEF out
  <1>1. ASSUME flash_write([w \in 0 .. size - 1 |-> p + w], size, r)
        PROVE  disk' \in [Media -> Int] /\ cur_offset' \in Nat
    BY <1>1, WriteType
  <1>2. ASSUME flash_fill(p, out, r)
        PROVE  disk' \in [Media -> Int] /\ cur_offset' \in Nat
    <2> DEFINE f == [w \in 0 .. out - 1 |->
                        IF w < out \div UINTN_WORDS THEN p ELSE Uninitialised]
    <2>1. \A w \in 0 .. out - 1 : f[w] \in Int
      BY DEF Uninitialised
    <2>2. CASE flash_write(f, out, r)
      <3> HIDE DEF f
      <3> QED BY <1>0, <2>1, <2>2, WriteType
    <2>3. CASE UNCHANGED <<disk, cur_offset>>
      BY <2>3 DEF TypeOK
    <2> QED
      BY <1>2, <2>2, <2>3 DEF flash_fill
  <1>3. ASSUME flash_skip(out, r)
        PROVE  disk' \in [Media -> Int] /\ cur_offset' \in Nat
    BY <1>0, <1>3 DEF flash_skip, TypeOK
  <1>4. ASSUME UNCHANGED <<disk, cur_offset>>
        PROVE  disk' \in [Media -> Int] /\ cur_offset' \in Nat
    BY <1>4 DEF TypeOK
  <1> QED
    BY <1>1, <1>2, <1>3, <1>4 DEF flash_chunk, out

\* Every variable keeps its type.  In particular the rest of the input,
\* unsigned in flash_sparse, never wraps.
THEOREM TypeCorrect == Spec => []TypeOK
  <1>1. Init => TypeOK
    BY FlashAssumption DEF Init, TypeOK, Clean, Untouched, NoImage
  <1>2. TypeOK /\ [Next]_vars => TypeOK'
    <2> SUFFICES ASSUME TypeOK, [Next]_vars PROVE TypeOK'
      OBVIOUS
    <2>1. CASE FlashNoPartition
      BY <2>1 DEF TypeOK, FlashNoPartition, locals
    <2>2. CASE Flash
      <3>1. /\ gparti' \in [lo : 0 .. MediaSize, hi : 0 .. MediaSize]
            /\ image' \in [sparse : BOOLEAN, chunks : Seq(Chunks), size : Nat]
        BY <2>2, FlashAssumption, ImageAssumption DEF Flash
      <3>2. cur_offset' \in Nat
        BY <2>2, <3>1, FlashAssumption DEF Flash
      <3>3. disk' \in [Media -> Int] /\ broken' \subseteq Faults
        BY <2>2 DEF Flash, TypeOK
      <3>4. CASE is_sparse_image(image')
        <4>1. pc' = "chunk" /\ i' = 1 /\ s' = FILE_HDR /\ rlen' = image'.size
          BY <2>2, <3>4 DEF Flash
        <4>2. Len(image'.chunks) \in Nat
          BY <3>1
        <4> QED
          BY <3>1, <3>2, <3>3, <4>1, <4>2, FlashAssumption DEF TypeOK
      <3>5. CASE ~is_sparse_image(image')
        <4>1. pc' = "plain" /\ UNCHANGED <<i, s, rlen>>
          BY <2>2, <3>5 DEF Flash, locals
        <4> QED
          BY <3>1, <3>2, <3>3, <4>1 DEF TypeOK
      <3> QED
        BY <3>4, <3>5
    <2>3. CASE FlashPlain
      <3> DEFINE f == [w \in 0 .. image.size - 1 |-> w]
      <3>1. PICK r \in {"SUCCESS", "ERROR"} :
               /\ flash_write(f, image.size, r)
               /\ pc' = IF r = "SUCCESS" THEN "ok" ELSE "failed"
        BY <2>3 DEF FlashPlain
      <3>2. image.size \in Nat
        BY DEF TypeOK
      <3>3. \A w \in 0 .. image.size - 1 : f[w] \in Int
        BY <3>2
      <3> HIDE DEF f
      <3>4. disk' \in [Media -> Int] /\ cur_offset' \in Nat
        BY <3>1, <3>2, <3>3, WriteType
      <3>5. UNCHANGED <<gparti, image, i, s, rlen, broken>>
        BY <2>3 DEF FlashPlain, locals
      <3> QED
        BY <3>1, <3>4, <3>5 DEF TypeOK
    <2>4. CASE FlashChunk
      <3> DEFINE ckh == image.chunks[i]
      <3>1. /\ pc = "chunk" /\ i \in 1 .. Len(image.chunks)
            /\ UNCHANGED <<gparti, image, broken>>
        BY <2>4 DEF FlashChunk, TypeOK
      <3>2. ckh \in Chunks
        BY <3>1 DEF TypeOK
      <3>3. ckh.total_sz \in Nat /\ CHUNK_HDR \in Nat /\ s \in Nat /\ rlen \in Nat
        BY <3>2, FlashAssumption DEF Chunks, TypeOK
      <3>4. CASE pc' = "failed" /\ UNCHANGED <<locals, disk, cur_offset>>
        BY <3>1, <3>4 DEF TypeOK, locals
      <3>5. ASSUME ~Truncated(ckh), ~Malformed(ckh), NEW r,
                   flash_chunk(ckh, s + CHUNK_HDR, ckh.total_sz - CHUNK_HDR, r)
            PROVE  disk' \in [Media -> Int] /\ cur_offset' \in Nat
        <4>1. ckh.total_sz - CHUNK_HDR \in Nat /\ s + CHUNK_HDR \in Nat
          BY <3>3, <3>5 DEF Malformed
        <4> HIDE DEF ckh
        <4> QED
          BY <3>2, <3>5, <4>1, ChunkType
      <3>6. CASE /\ ~Truncated(ckh) /\ ~Malformed(ckh)
                 /\ flash_chunk(ckh, s + CHUNK_HDR, ckh.total_sz - CHUNK_HDR, "ERROR")
                 /\ pc' = "failed"
                 /\ UNCHANGED locals
        <4>1. disk' \in [Media -> Int] /\ cur_offset' \in Nat
          BY <3>5, <3>6
        <4> QED
          BY <3>1, <3>6, <4>1 DEF TypeOK, locals
      <3>7. CASE /\ ~Truncated(ckh) /\ ~Malformed(ckh)
                 /\ flash_chunk(ckh, s + CHUNK_HDR, ckh.total_sz - CHUNK_HDR, "SUCCESS")
                 /\ i' = i + 1 /\ s' = s + ckh.total_sz /\ rlen' = rlen - ckh.total_sz
                 /\ UNCHANGED pc
        <4>1. disk' \in [Media -> Int] /\ cur_offset' \in Nat
          BY <3>5, <3>7
        <4>2. rlen' \in Nat /\ s' \in Nat
          BY <3>3, <3>7 DEF Truncated
        <4>3. i' \in 1 .. Len(image.chunks) + 1 /\ i' \in Nat
          BY <3>1, <3>7 DEF TypeOK
        <4> QED
          BY <3>1, <3>7, <4>1, <4>2, <4>3 DEF TypeOK
      <3> QED
        BY <2>4, <3>4, <3>6, <3>7 DEF FlashChunk
    <2>5. CASE FlashSparseEnd
      BY <2>5 DEF TypeOK, FlashSparseEnd, locals
    <2>6. CASE Return
      BY <2>6 DEF TypeOK, Return, NoImage, Clean, Untouched
    <2>7. CASE UNCHANGED vars
      BY <2>7 DEF TypeOK, vars
    <2> QED
      BY <2>1, <2>2, <2>3, <2>4, <2>5, <2>6, <2>7 DEF Next
  <1> QED
    BY <1>1, <1>2, PTL DEF Spec

-----------------------------------------------------------------------------
(***************************************************************************)
(* Nothing outside the partition.  A request starts with a clean record,   *)
(* and each write goes through is_inside_partition.                        *)
(***************************************************************************)
CleanAtStart == pc = "idle" => disk = Clean
InsideInv == TypeOK /\ InsidePartition /\ CleanAtStart

\* A write that starts with a record inside the partition ends with one,
\* also when it fails half-way.
LEMMA WriteInside ==
  ASSUME TypeOK, InsidePartition, NEW f, NEW size \in Nat, NEW r,
         flash_write(f, size, r), UNCHANGED gparti
  PROVE  InsidePartition'
  <1>1. ASSUME is_inside_partition(cur_offset, size), NEW n \in 0 .. size,
               disk' = Put(f, n)
        PROVE  InsidePartition'
    <2> SUFFICES ASSUME NEW w \in Media, disk'[w] # Untouched
                 PROVE  gparti.lo <= w /\ w < gparti.hi
      BY DEF InsidePartition, InPart
    <2>1. CASE w >= cur_offset /\ w < cur_offset + n
      BY <1>1, <2>1, FlashAssumption DEF is_inside_partition, TypeOK, Media
    <2>2. CASE ~(w >= cur_offset /\ w < cur_offset + n)
      <3>1. disk[w] # Untouched
        BY <1>1, <2>2 DEF Put
      <3> QED
        BY <3>1 DEF InsidePartition, InPart
    <2> QED
      BY <2>1, <2>2
  <1>2. CASE UNCHANGED disk
    BY <1>2 DEF InsidePartition, InPart
  <1>3. size \in 0 .. size
    OBVIOUS
  <1> QED
    BY <1>1, <1>2, <1>3 DEF flash_write

\* So does a chunk of any type.
LEMMA ChunkInside ==
  ASSUME TypeOK, InsidePartition, NEW ckh \in Chunks, NEW p \in Nat,
         NEW size \in Nat, NEW r,
         flash_chunk(ckh, p, size, r), UNCHANGED gparti
  PROVE  InsidePartition'
  <1> DEFINE out == u32(ckh.chunk_sz * blk_sz)
  <1>0. out \in Nat
    BY OutType
  <1> HIDE DEF out
  <1>1. ASSUME UNCHANGED disk PROVE InsidePartition'
    BY <1>1 DEF InsidePartition, InPart
  <1>2. ASSUME flash_write([w \in 0 .. size - 1 |-> p + w], size, r)
        PROVE  InsidePartition'
    BY <1>2, WriteInside
  <1>3. ASSUME flash_fill(p, out, r) PROVE InsidePartition'
    BY <1>0, <1>1, <1>3, WriteInside DEF flash_fill
  <1>4. ASSUME flash_skip(out, r) PROVE InsidePartition'
    BY <1>1, <1>4 DEF flash_skip
  <1> QED
    BY <1>1, <1>2, <1>3, <1>4 DEF flash_chunk, out

\* Whatever the chunk headers claim, however the sizes wrap and wherever a
\* write fails, flash() changes no word outside the partition it was given.
THEOREM InsidePartitionSafe == Spec => []InsidePartition
  <1>1. Init => InsidePartition /\ CleanAtStart
    BY DEF Init, InsidePartition, CleanAtStart, Clean
  <1>2. InsideInv /\ TypeOK' /\ [Next]_vars => InsidePartition' /\ CleanAtStart'
    <2> SUFFICES ASSUME InsideInv, [Next]_vars
                 PROVE  InsidePartition' /\ CleanAtStart'
      OBVIOUS
    <2> USE DEF InsideInv
    <2>1. CASE FlashNoPartition
      BY <2>1 DEF FlashNoPartition, InsidePartition, CleanAtStart, InPart
    <2>2. CASE Flash
      <3>1. disk' = Clean /\ pc' # "idle"
        BY <2>2 DEF Flash, CleanAtStart
      <3> QED
        BY <3>1 DEF InsidePartition, CleanAtStart, Clean
    <2>3. CASE FlashPlain
      <3>1. \E r : flash_write([w \in 0 .. image.size - 1 |-> w], image.size, r)
        BY <2>3 DEF FlashPlain
      <3>2. image.size \in Nat
        BY DEF TypeOK
      <3>3. UNCHANGED gparti /\ pc' # "idle"
        BY <2>3 DEF FlashPlain
      <3> QED
        BY <3>1, <3>2, <3>3, WriteInside DEF CleanAtStart
    <2>4. CASE FlashChunk
      <3> DEFINE ckh == image.chunks[i]
      <3>1. pc = "chunk" /\ i \in 1 .. Len(image.chunks) /\ UNCHANGED gparti
        BY <2>4 DEF FlashChunk, TypeOK
      <3>2. pc' # "idle"
        BY <2>4, <3>1 DEF FlashChunk
      <3>3. ckh \in Chunks
        BY <3>1 DEF TypeOK
      <3>4. CASE UNCHANGED disk
        BY <3>1, <3>2, <3>4 DEF InsidePartition, InPart, CleanAtStart
      <3>5. CASE \E r : /\ ~Malformed(ckh)
                        /\ flash_chunk(ckh, s + CHUNK_HDR, ckh.total_sz - CHUNK_HDR, r)
        <4>1. ckh.total_sz - CHUNK_HDR \in Nat /\ s + CHUNK_HDR \in Nat
          BY <3>3, <3>5, FlashAssumption DEF Malformed, Chunks, TypeOK
        <4> HIDE DEF ckh
        <4> QED
          BY <3>1, <3>2, <3>3, <3>5, <4>1, ChunkInside DEF CleanAtStart
      <3> QED
        BY <2>4, <3>4, <3>5 DEF FlashChunk
    <2>5. CASE FlashSparseEnd
      BY <2>5 DEF FlashSparseEnd, InsidePartition, CleanAtStart, InPart
    <2>6. CASE Return
      BY <2>6 DEF Return, InsidePartition, CleanAtStart, Clean
    <2>7. CASE UNCHANGED vars
      BY <2>7 DEF vars, InsidePartition, CleanAtStart, InPart
    <2> QED
      BY <2>1, <2>2, <2>3, <2>4, <2>5, <2>6, <2>7 DEF Next
  <1> QED
    BY <1>1, <1>2, TypeCorrect, PTL DEF Spec, InsideInv

-----------------------------------------------------------------------------
(***************************************************************************)
(* Induction on the natural numbers, over sets of them, and the running    *)
(* sums that place the chunks of an image.                                 *)
(***************************************************************************)
Less == {p \in Nat \X Nat : p[1] < p[2]}

LEMMA LessWellFounded == IsWellFoundedOn(Less, Nat)
  BY NatLessThanWellFounded DEF OpToRel, Less

\* A set of numbers that holds 0 and every successor holds all of them.
LEMMA SetInduction ==
  ASSUME NEW S \in SUBSET Nat, 0 \in S, \A n \in S : n + 1 \in S
  PROVE  S = Nat
  <1> SUFFICES ASSUME Nat \ S # {} PROVE FALSE
    OBVIOUS
  <1>1. PICK x \in Nat \ S : \A y \in Nat \ S : ~ (<<y, x>> \in Less)
    BY LessWellFounded, WFMin
  <1>2. x # 0 /\ x - 1 \in Nat /\ (x - 1) + 1 = x
    BY <1>1
  <1>3. x - 1 \in S
    <2>1. <<x - 1, x>> \in Less
      BY <1>2 DEF Less
    <2> QED
      BY <1>1, <1>2, <2>1
  <1> QED
    BY <1>1, <1>2, <1>3

IsRunningSum(f, a, c, n) ==
    f = [k \in 1 .. n + 1 |-> IF k = 1 THEN a ELSE f[k - 1] + c[k - 1]]

LEMMA RunningSumExists ==
  ASSUME NEW a \in Nat, NEW n \in Nat, NEW c, \A k \in 1 .. n : c[k] \in Nat
  PROVE  \E f \in [1 .. n + 1 -> Nat] : IsRunningSum(f, a, c, n)
  <1> DEFINE S == {m \in Nat : m <= n => 
                     \E f \in [1 .. m + 1 -> Nat] : IsRunningSum(f, a, c, m)}
  <1>1. 0 \in S
    <2> DEFINE f == [k \in 1 .. 0 + 1 |-> a]
    <2>1. f \in [1 .. 0 + 1 -> Nat] /\ IsRunningSum(f, a, c, 0)
      BY DEF IsRunningSum
    <2> QED
      BY <2>1
  <1>2. ASSUME NEW m \in S PROVE m + 1 \in S
    <2> SUFFICES ASSUME m + 1 <= n
                 PROVE  \E f \in [1 .. (m + 1) + 1 -> Nat] : IsRunningSum(f, a, c, m + 1)
      <3>1. m \in Nat /\ m + 1 \in Nat
        OBVIOUS
      <3> QED
        BY <3>1
    <2>1. PICK g \in [1 .. m + 1 -> Nat] : IsRunningSum(g, a, c, m)
      OBVIOUS
    <2> DEFINE f == [k \in 1 .. (m + 1) + 1 |-> 
                       IF k = m + 2 THEN g[m + 1] + c[m + 1] ELSE g[k]]
    <2>2. c[m + 1] \in Nat /\ g[m + 1] \in Nat
      OBVIOUS
    <2>3. f \in [1 .. (m + 1) + 1 -> Nat]
      BY <2>2
    <2>4. ASSUME NEW k \in 1 .. (m + 1) + 1
          PROVE  f[k] = IF k = 1 THEN a ELSE f[k - 1] + c[k - 1]
      <3>1. CASE k = m + 2
        BY <3>1
      <3>2. CASE k \in 1 .. m + 1
        <4>1. g[k] = IF k = 1 THEN a ELSE g[k - 1] + c[k - 1]
          BY <2>1, <3>2 DEF IsRunningSum
        <4>2. k # 1 => k - 1 \in 1 .. m + 1 /\ k - 1 # m + 2
          BY <3>2
        <4> QED
          BY <3>2, <4>1, <4>2
      <3> QED
        BY <3>1, <3>2
    <2> HIDE DEF f
    <2>5. IsRunningSum(f, a, c, m + 1)
      BY <2>3, <2>4 DEF IsRunningSum
    <2> QED
      BY <2>3, <2>5
  <1> HIDE DEF S
  <1>3. S = Nat
    <2>1. S \subseteq Nat
      BY DEF S
    <2> QED
      BY <1>1, <1>2, <2>1, SetInduction
  <1>4. n \in S
    BY <1>3
  <1> QED
    BY <1>4 DEF S

LEMMA RunningSumDef ==
  ASSUME NEW a \in Nat, NEW n \in Nat, NEW c \in [1 .. n -> Nat]
  PROVE  /\ RunningSum(a, c) \in [1 .. n + 1 -> Nat]
         /\ RunningSum(a, c)[1] = a
         /\ \A k \in 1 .. n : RunningSum(a, c)[k + 1] = RunningSum(a, c)[k] + c[k]
  <1> DEFINE F == RunningSum(a, c)
  <1>1. F = CHOOSE f : IsRunningSum(f, a, c, n)
    <2>1. Len(c) = n
      OBVIOUS
    <2> QED
      BY <2>1 DEF RunningSum, IsRunningSum
  <1>2. \E f : IsRunningSum(f, a, c, n)
    BY RunningSumExists
  <1> HIDE DEF F
  <1>3. IsRunningSum(F, a, c, n)
    BY <1>1, <1>2, Zenon
  <1>4. F = [k \in 1 .. n + 1 |-> IF k = 1 THEN a ELSE F[k - 1] + c[k - 1]]
    BY <1>3 DEF IsRunningSum
  <1>5. F[1] = a
    BY <1>4
  <1>6. ASSUME NEW k \in 1 .. n PROVE F[k + 1] = F[k] + c[k]
    <2>1. k + 1 \in 1 .. n + 1 /\ k + 1 # 1 /\ (k + 1) - 1 = k
      OBVIOUS
    <2> QED
      BY <1>4, <2>1
  <1>7. ASSUME NEW k \in 1 .. n + 1 PROVE F[k] \in Nat
    <2> DEFINE S == {j \in Nat : j <= n => F[j + 1] \in Nat}
    <2>1. 0 \in S
      BY <1>5
    <2>2. ASSUME NEW j \in S PROVE j + 1 \in S
      <3>1. ASSUME j + 1 <= n PROVE F[(j + 1) + 1] \in Nat
        <4>1. j \in Nat /\ j + 1 \in 1 .. n
          BY <3>1
        <4>2. F[j + 1] \in Nat /\ c[j + 1] \in Nat
          BY <4>1
        <4> QED
          BY <1>6, <4>1, <4>2
      <3> QED
        BY <3>1
    <2> HIDE DEF S
    <2>3. S = Nat
      <3>1. S \subseteq Nat
        BY DEF S
      <3> QED
        BY <2>1, <2>2, <3>1, SetInduction
    <2>4. k - 1 \in S /\ k - 1 <= n /\ (k - 1) + 1 = k
      BY <2>3
    <2> QED
      BY <2>4 DEF S
  <1>8. F \in [1 .. n + 1 -> Nat]
    BY <1>4, <1>7
  <1> QED
    BY <1>5, <1>6, <1>8 DEF F

LEMMA RunningSumMonotone ==
  ASSUME NEW a \in Nat, NEW n \in Nat, NEW c \in [1 .. n -> Nat],
         NEW j \in 1 .. n + 1, NEW k \in 1 .. n + 1, j <= k
  PROVE  RunningSum(a, c)[j] <= RunningSum(a, c)[k]
  <1> DEFINE F == RunningSum(a, c)
             S == {d \in Nat : j + d <= n + 1 => F[j] <= F[j + d]}
  <1>1. /\ F \in [1 .. n + 1 -> Nat]
        /\ \A m \in 1 .. n : F[m + 1] = F[m] + c[m]
    BY RunningSumDef
  <1> HIDE DEF F
  <1>2. 0 \in S
    BY <1>1
  <1>3. ASSUME NEW d \in S PROVE d + 1 \in S
    <2>1. ASSUME j + (d + 1) <= n + 1 PROVE F[j] <= F[j + (d + 1)]
      <3>1. d \in Nat /\ j + d \in 1 .. n /\ (j + d) + 1 = j + (d + 1) /\ j + d <= n + 1
        BY <2>1
      <3>2. F[j] <= F[j + d] /\ F[(j + d) + 1] = F[j + d] + c[j + d] /\ c[j + d] \in Nat
        BY <1>1, <3>1
      <3>3. F[j] \in Nat /\ F[j + d] \in Nat
        BY <1>1, <3>1
      <3> QED
        BY <3>1, <3>2, <3>3
    <2> QED
      BY <2>1
  <1> HIDE DEF S
  <1>4. S = Nat
    <2>1. S \subseteq Nat
      BY DEF S
    <2> QED
      BY <1>2, <1>3, <2>1, SetInduction
  <1>5. k - j \in S /\ j + (k - j) = k
    BY <1>4
  <1>6. F[j] <= F[k]
    BY <1>5 DEF S
  <1> QED
    BY <1>6 DEF F
-----------------------------------------------------------------------------
(***************************************************************************)
(* What the chunks of an image describe.                                   *)
(***************************************************************************)
ImageType == [sparse : BOOLEAN, chunks : Seq(Chunks), size : Nat]

\* Positions in the output: each chunk starts where the one before it ends.
LEMMA OutBeforeDef ==
  ASSUME NEW im \in ImageType
  PROVE  LET n == Len(im.chunks)
             out == OutBefore(im)
         IN /\ n \in Nat
            /\ out \in [1 .. n + 1 -> Nat]
            /\ out[1] = 0
            /\ \A k \in 1 .. n :
                  out[k + 1] = out[k] + im.chunks[k].chunk_sz * blk_sz
            /\ \A j, k \in 1 .. n + 1 : j <= k => out[j] <= out[k]
  <1> DEFINE n == Len(im.chunks)
             c == [k \in 1 .. n |-> im.chunks[k].chunk_sz * blk_sz]
  <1>1. n \in Nat
    BY DEF ImageType
  <1>2. ASSUME NEW k \in 1 .. n PROVE im.chunks[k].chunk_sz * blk_sz \in Nat
    <2>1. im.chunks[k] \in Chunks
      BY DEF ImageType
    <2>2. im.chunks[k].chunk_sz \in Nat /\ blk_sz \in Nat
      BY <2>1, FlashAssumption DEF Chunks
    <2> QED
      BY <2>2
  <1>3. c \in [1 .. n -> Nat]
    BY <1>2
  <1>4. OutBefore(im) = RunningSum(0, c)
    BY DEF OutBefore
  <1>5. \A k \in 1 .. n : c[k] = im.chunks[k].chunk_sz * blk_sz
    OBVIOUS
  <1> HIDE DEF n, c
  <1>6. 0 \in Nat
    OBVIOUS
  <1>7. /\ RunningSum(0, c) \in [1 .. n + 1 -> Nat]
        /\ RunningSum(0, c)[1] = 0
        /\ \A k \in 1 .. n : RunningSum(0, c)[k + 1] = RunningSum(0, c)[k] + c[k]
    BY <1>1, <1>3, <1>6, RunningSumDef
  <1>8. \A j, k \in 1 .. n + 1 : j <= k => RunningSum(0, c)[j] <= RunningSum(0, c)[k]
    BY <1>1, <1>3, <1>6, RunningSumMonotone
  <1> QED
    BY <1>1, <1>4, <1>5, <1>7, <1>8 DEF n

\* And in the input.
LEMMA InBeforeDef ==
  ASSUME NEW im \in ImageType
  PROVE  LET n == Len(im.chunks)
             in == InBefore(im)
         IN /\ in \in [1 .. n + 1 -> Nat]
            /\ in[1] = FILE_HDR
            /\ \A k \in 1 .. n : in[k + 1] = in[k] + im.chunks[k].total_sz
            /\ \A j, k \in 1 .. n + 1 : j <= k => in[j] <= in[k]
  <1> DEFINE n == Len(im.chunks)
             c == [k \in 1 .. n |-> im.chunks[k].total_sz]
  <1>1. n \in Nat
    BY DEF ImageType
  <1>2. ASSUME NEW k \in 1 .. n PROVE im.chunks[k].total_sz \in Nat
    <2>1. im.chunks[k] \in Chunks
      BY DEF ImageType
    <2> QED
      BY <2>1 DEF Chunks
  <1>3. c \in [1 .. n -> Nat]
    BY <1>2
  <1>4. InBefore(im) = RunningSum(FILE_HDR, c)
    BY DEF InBefore
  <1>5. \A k \in 1 .. n : c[k] = im.chunks[k].total_sz
    OBVIOUS
  <1> HIDE DEF n, c
  <1>6. FILE_HDR \in Nat
    BY FlashAssumption
  <1>7. /\ RunningSum(FILE_HDR, c) \in [1 .. n + 1 -> Nat]
        /\ RunningSum(FILE_HDR, c)[1] = FILE_HDR
        /\ \A k \in 1 .. n :
              RunningSum(FILE_HDR, c)[k + 1] = RunningSum(FILE_HDR, c)[k] + c[k]
    BY <1>1, <1>3, <1>6, RunningSumDef
  <1>8. \A j, k \in 1 .. n + 1 :
            j <= k => RunningSum(FILE_HDR, c)[j] <= RunningSum(FILE_HDR, c)[k]
    BY <1>1, <1>3, <1>6, RunningSumMonotone
  <1> QED
    BY <1>4, <1>5, <1>7, <1>8 DEF n

\* A word of the output is described by one chunk at most.
LEMMA MeaningOfChunk ==
  ASSUME NEW im \in ImageType, is_sparse_image(im), NEW k \in 1 .. Len(im.chunks),
         NEW w \in Nat, OutBefore(im)[k] <= w, w < OutBefore(im)[k + 1]
  PROVE  Meaning(im, w) =
            IF im.chunks[k].type = "RAW"
            THEN InBefore(im)[k] + CHUNK_HDR + w - OutBefore(im)[k]
            ELSE IF im.chunks[k].type = "FILL" THEN InBefore(im)[k] + CHUNK_HDR
            ELSE Untouched
  <1> DEFINE n == Len(im.chunks)
             out == OutBefore(im)
             holders == {j \in 1 .. n : /\ im.chunks[j].type \in {"RAW", "FILL"}
                                        /\ out[j] <= w /\ w < out[j + 1]}
  <1>1. /\ n \in Nat
        /\ out \in [1 .. n + 1 -> Nat]
        /\ \A j, m \in 1 .. n + 1 : j <= m => out[j] <= out[m]
    BY OutBeforeDef
  <1>2. ASSUME NEW j \in 1 .. n, out[j] <= w, w < out[j + 1] PROVE j = k
    <2>1. /\ j \in Int /\ k \in Int
          /\ j \in 1 .. n + 1 /\ k \in 1 .. n + 1
          /\ j + 1 \in 1 .. n + 1 /\ k + 1 \in 1 .. n + 1
      BY <1>1
    <2>2. /\ out[j] \in Nat /\ out[k] \in Nat
          /\ out[j + 1] \in Nat /\ out[k + 1] \in Nat
      BY <1>1, <2>1
    <2>3. CASE j < k
      <3>1. out[j + 1] <= out[k]
        BY <1>1, <2>1, <2>3
      <3> QED
        BY <1>2, <2>2, <3>1
    <2>4. CASE k < j
      <3>1. out[k + 1] <= out[j]
        BY <1>1, <2>1, <2>4
      <3> QED
        BY <1>2, <2>2, <3>1
    <2> QED
      BY <2>1, <2>3, <2>4
  <1>3. Meaning(im, w) =
            IF holders = {} THEN Untouched
            ELSE LET h == CHOOSE h \in holders : TRUE
                     p == InBefore(im)[h] + CHUNK_HDR
                 IN IF im.chunks[h].type = "RAW" THEN p + w - out[h] ELSE p
    BY DEF Meaning
  <1>4. CASE im.chunks[k].type \in {"RAW", "FILL"}
    <2>1. holders = {k}
      BY <1>2, <1>4
    <2>2. (CHOOSE h \in holders : TRUE) = k
      BY <2>1
    <2> HIDE DEF holders, out
    <2>3. holders # {}
      BY <2>1
    <2> QED
      BY <1>3, <1>4, <2>2, <2>3 DEF out
  <1>5. CASE im.chunks[k].type \notin {"RAW", "FILL"}
    <2>1. holders = {}
      BY <1>2, <1>5
    <2> HIDE DEF holders
    <2> QED
      BY <1>3, <1>5, <2>1
  <1> QED
    BY <1>4, <1>5

\* Behind the last chunk nothing is described.
LEMMA MeaningAfterLast ==
  ASSUME NEW im \in ImageType, is_sparse_image(im), NEW w \in Nat,
         OutBefore(im)[Len(im.chunks) + 1] <= w
  PROVE  Meaning(im, w) = Untouched
  <1> DEFINE n == Len(im.chunks)
             out == OutBefore(im)
  <1>1. /\ n \in Nat
        /\ out \in [1 .. n + 1 -> Nat]
        /\ \A j, m \in 1 .. n + 1 : j <= m => out[j] <= out[m]
    BY OutBeforeDef
  <1>2. ASSUME NEW j \in 1 .. n PROVE ~(w < out[j + 1])
    <2>1. j + 1 \in 1 .. n + 1 /\ n + 1 \in 1 .. n + 1 /\ j + 1 <= n + 1
      BY <1>1
    <2>2. out[j + 1] <= out[n + 1] /\ out[j + 1] \in Nat /\ out[n + 1] \in Nat
      BY <1>1, <2>1
    <2> QED
      BY <2>2
  <1> HIDE DEF out
  <1>3. {k \in 1 .. n : /\ im.chunks[k].type \in {"RAW", "FILL"}
                        /\ out[k] <= w /\ w < out[k + 1]} = {}
    BY <1>2
  <1> QED
    BY <1>3 DEF Meaning, out

LEMMA MeaningType ==
  ASSUME NEW im \in ImageType, NEW w \in Nat
  PROVE  Meaning(im, w) \in Int
  <1> DEFINE n == Len(im.chunks)
             out == OutBefore(im)
             holders == {j \in 1 .. n : /\ im.chunks[j].type \in {"RAW", "FILL"}
                                        /\ out[j] <= w /\ w < out[j + 1]}
  <1>1. /\ n \in Nat /\ out \in [1 .. n + 1 -> Nat] /\ InBefore(im) \in [1 .. n + 1 -> Nat]
    BY OutBeforeDef, InBeforeDef
  <1>2. CASE ~is_sparse_image(im)
    BY <1>2 DEF Meaning, Untouched
  <1>3. CASE is_sparse_image(im) /\ holders = {}
    BY <1>3 DEF Meaning, Untouched
  <1>4. CASE is_sparse_image(im) /\ holders # {}
    <2> DEFINE h == CHOOSE h \in holders : TRUE
    <2>1. h \in holders
      BY <1>4
    <2>2. h \in 1 .. n
      BY <2>1
    <2>3. Meaning(im, w) = IF im.chunks[h].type = "RAW"
                           THEN InBefore(im)[h] + CHUNK_HDR + w - out[h]
                           ELSE InBefore(im)[h] + CHUNK_HDR
      BY <1>4 DEF Meaning
    <2> HIDE DEF h, out, holders
    <2>4. h \in 1 .. n + 1
      BY <1>1, <2>2
    <2>5. InBefore(im)[h] \in Nat /\ out[h] \in Nat /\ CHUNK_HDR \in Nat
      BY <1>1, <2>4, FlashAssumption
    <2> QED
      BY <2>3, <2>5
  <1> QED
    BY <1>2, <1>3, <1>4

-----------------------------------------------------------------------------
(***************************************************************************)
(* Where flash_sparse stands in the image.                                 *)
(***************************************************************************)
CursorInv ==
    /\ pc = "plain" => ~is_sparse_image(image) /\ cur_offset = gparti.lo
    /\ pc = "chunk" =>
          /\ image \in Images /\ is_sparse_image(image)
          /\ s = InBefore(image)[i]
          /\ rlen + s = image.size + FILE_HDR
          /\ gparti.lo <= cur_offset
          /\ cur_offset <= gparti.lo + OutBefore(image)[i]

Out(ckh) == u32(ckh.chunk_sz * blk_sz)

\* Reduction to unsigned int.
LEMMA U32Bounds ==
  ASSUME NEW n \in Nat
  PROVE  u32(n) \in Nat /\ u32(n) <= n /\ (n < WORD_RANGE => u32(n) = n)
  <1>1. WORD_RANGE \in Int /\ WORD_RANGE > 0 /\ n \in Int /\ n >= 0
    BY FlashAssumption
  <1>2. n = WORD_RANGE * (n \div WORD_RANGE) + (n % WORD_RANGE)
    BY <1>1, Z3
  <1>3. n % WORD_RANGE \in 0 .. WORD_RANGE - 1
    BY <1>1, Z3
  <1>4. n \div WORD_RANGE \in Nat
    BY <1>1, Z3
  <1>5. WORD_RANGE * (n \div WORD_RANGE) \in Nat
    BY <1>1, <1>4
  <1>6. n < WORD_RANGE => n % WORD_RANGE = n
    BY <1>1, Z3
  <1> HIDE DEF u32
  <1> QED
    BY <1>1, <1>2, <1>3, <1>5, <1>6 DEF u32

\* The cursor after a chunk.
LEMMA ChunkCursor ==
  ASSUME TypeOK, NEW ckh \in Chunks, NEW p \in Nat, NEW size \in Nat, NEW r,
         flash_chunk(ckh, p, size, r)
  PROVE  cur_offset <= cur_offset' /\ cur_offset' <= cur_offset + ckh.chunk_sz * blk_sz
  <1>1. ckh.chunk_sz * blk_sz \in Nat
    <2>1. ckh.chunk_sz \in Nat /\ blk_sz \in Nat
      BY FlashAssumption DEF Chunks
    <2> QED
      BY <2>1
  <1>2. /\ Out(ckh) \in Nat /\ Out(ckh) <= ckh.chunk_sz * blk_sz
    BY <1>1, U32Bounds DEF Out
  <1>3. cur_offset' \in {cur_offset, cur_offset + Out(ckh)}
    <2>1. CASE ckh.type = "RAW"
      BY <2>1 DEF flash_chunk, flash_write, Out
    <2>2. CASE ckh.type = "FILL"
      BY <2>2 DEF flash_chunk, flash_fill, flash_write, Out
    <2>3. CASE ckh.type = "DONT_CARE"
      BY <2>3 DEF flash_chunk, flash_skip, Out
    <2>4. CASE ckh.type \notin {"RAW", "FILL", "DONT_CARE"}
      BY <2>4 DEF flash_chunk
    <2> QED
      BY <2>1, <2>2, <2>3, <2>4
  <1>4. cur_offset \in Nat
    BY DEF TypeOK
  <1> QED
    BY <1>1, <1>2, <1>3, <1>4

LEMMA CursorStep ==
  ASSUME TypeOK, CursorInv, [Next]_vars
  PROVE  CursorInv'
  <1> USE DEF CursorInv
  <1>1. CASE FlashNoPartition
    BY <1>1 DEF FlashNoPartition
  <1>2. CASE Flash
    <2>1. image' \in Images /\ image' \in ImageType
      BY <1>2, ImageAssumption DEF Flash, ImageType
    <2>2. gparti'.lo \in Nat /\ cur_offset' = gparti'.lo
      BY <1>2, FlashAssumption DEF Flash
    <2>3. CASE is_sparse_image(image')
      <3>1. pc' = "chunk" /\ i' = 1 /\ s' = FILE_HDR /\ rlen' = image'.size
        BY <1>2, <2>3 DEF Flash
      <3>2. InBefore(image')[1] = FILE_HDR /\ OutBefore(image')[1] = 0
        BY <2>1, InBeforeDef, OutBeforeDef
      <3> QED
        BY <2>1, <2>2, <2>3, <3>1, <3>2, FlashAssumption DEF is_sparse_image, InBefore, OutBefore
    <2>4. CASE ~is_sparse_image(image')
      <3>1. pc' = "plain"
        BY <1>2, <2>4 DEF Flash
      <3> QED
        BY <2>2, <2>4, <3>1 DEF is_sparse_image
    <2> QED
      BY <2>3, <2>4
  <1>3. CASE FlashPlain
    BY <1>3 DEF FlashPlain
  <1>4. CASE FlashChunk
    <2> DEFINE ckh == image.chunks[i]
    <2>1. /\ pc = "chunk" /\ i \in 1 .. Len(image.chunks)
          /\ UNCHANGED <<gparti, image, broken>>
      BY <1>4 DEF FlashChunk, TypeOK
    <2>2. CASE pc' = "failed"
      BY <2>2
    <2>3. CASE pc' # "failed"
      <3>1. /\ ~Truncated(ckh) /\ ~Malformed(ckh)
            /\ flash_chunk(ckh, s + CHUNK_HDR, ckh.total_sz - CHUNK_HDR, "SUCCESS")
            /\ i' = i + 1 /\ s' = s + ckh.total_sz /\ rlen' = rlen - ckh.total_sz
            /\ pc' = "chunk"
        BY <1>4, <2>1, <2>3 DEF FlashChunk
      <3>2. image \in ImageType /\ ckh \in Chunks
        BY <2>1 DEF TypeOK, ImageType
      <3>3. /\ Len(image.chunks) \in Nat
            /\ OutBefore(image) \in [1 .. Len(image.chunks) + 1 -> Nat]
            /\ OutBefore(image)[i + 1] = OutBefore(image)[i] + ckh.chunk_sz * blk_sz
            /\ InBefore(image)[i + 1] = InBefore(image)[i] + ckh.total_sz
        BY <2>1, <3>2, OutBeforeDef, InBeforeDef
      <3> HIDE DEF ckh
      <3>4. /\ ckh.total_sz \in Nat /\ ckh.total_sz - CHUNK_HDR \in Nat
            /\ s + CHUNK_HDR \in Nat /\ s \in Nat /\ rlen \in Nat
        BY <3>1, <3>2, FlashAssumption DEF Malformed, Chunks, TypeOK
      <3>5. /\ cur_offset <= cur_offset'
            /\ cur_offset' <= cur_offset + ckh.chunk_sz * blk_sz
            /\ cur_offset' \in Nat
        BY <3>1, <3>2, <3>4, ChunkCursor, ChunkType
      <3>6. /\ OutBefore(image)[i] \in Nat /\ OutBefore(image)[i + 1] \in Nat
            /\ ckh.chunk_sz * blk_sz \in Int
        <4>1. i \in 1 .. Len(image.chunks) + 1 /\ i + 1 \in 1 .. Len(image.chunks) + 1
          BY <2>1, <3>3
        <4>2. ckh.chunk_sz \in Nat /\ blk_sz \in Nat
          BY <3>2, FlashAssumption DEF Chunks
        <4> QED
          BY <3>3, <4>1, <4>2
      <3>7. /\ s = InBefore(image)[i] /\ rlen + s = image.size + FILE_HDR
            /\ gparti.lo <= cur_offset /\ cur_offset <= gparti.lo + OutBefore(image)[i]
            /\ cur_offset \in Nat /\ gparti.lo \in Nat
        BY <2>1 DEF TypeOK
      <3> HIDE DEF CursorInv
      <3>8. s' = InBefore(image)[i + 1]
        BY <3>1, <3>3, <3>7
      <3>9. rlen' + s' = image.size + FILE_HDR
        BY <3>1, <3>4, <3>7
      <3>10. gparti.lo <= cur_offset'
        BY <3>5, <3>7
      <3>11. cur_offset' <= gparti.lo + OutBefore(image)[i + 1]
        <4>1. PICK o1, o2, len \in Int :
                 /\ o1 = OutBefore(image)[i] /\ o2 = OutBefore(image)[i + 1]
                 /\ len = ckh.chunk_sz * blk_sz
          BY <3>6
        <4>2. /\ o2 = o1 + len /\ cur_offset' <= cur_offset + len
              /\ cur_offset <= gparti.lo + o1
          BY <3>3, <3>5, <3>7, <4>1
        <4>3. cur_offset' <= gparti.lo + o2
          BY <3>5, <3>7, <4>2
        <4> QED
          BY <4>1, <4>3
      <3>12. image \in Images /\ is_sparse_image(image)
        BY <2>1 DEF CursorInv
      <3> QED
        BY <2>1, <3>1, <3>8, <3>9, <3>10, <3>11, <3>12
        DEF CursorInv, is_sparse_image, InBefore, OutBefore
    <2> QED
      BY <2>2, <2>3
  <1>5. CASE FlashSparseEnd
    BY <1>5 DEF FlashSparseEnd
  <1>6. CASE Return
    BY <1>6 DEF Return
  <1>7. CASE UNCHANGED vars
    BY <1>7 DEF vars, is_sparse_image, InBefore, OutBefore
  <1> QED
    BY <1>1, <1>2, <1>3, <1>4, <1>5, <1>6, <1>7 DEF Next

THEOREM CursorCorrect == Spec => []CursorInv
  <1>1. Init => CursorInv
    BY DEF Init, CursorInv
  <1>2. TypeOK /\ CursorInv /\ [Next]_vars => CursorInv'
    BY CursorStep
  <1> QED
    BY <1>1, <1>2, TypeCorrect, PTL DEF Spec

-----------------------------------------------------------------------------
(***************************************************************************)
(* Good images are accepted.                                               *)
(***************************************************************************)
LEMMA MultipleOfBlock == ASSUME NEW q \in Nat PROVE (q * blk_sz) % blk_sz = 0
  <1>1. blk_sz \in Int /\ blk_sz > 0 /\ q \in Int
    BY FlashAssumption
  <1>2. (q * blk_sz) % blk_sz = 0
    BY <1>1, Z3
  <1> QED
    BY <1>2

\* While the hardware works no check refuses a chunk of a good image: not the
\* two of flash_sparse, nor flash_chunk, nor is_inside_partition.
LEMMA GoodChunk ==
  ASSUME TypeOK, CursorInv, pc = "chunk", i \in 1 .. Len(image.chunks),
         broken = {}, WellFormed(image), Fits(image)
  PROVE  LET ckh == image.chunks[i]
         IN /\ ~Truncated(ckh) /\ ~Malformed(ckh)
            /\ ~flash_chunk(ckh, s + CHUNK_HDR, ckh.total_sz - CHUNK_HDR, "ERROR")
  <1> DEFINE ckh == image.chunks[i]
             n == Len(image.chunks)
             out == OutBefore(image)
             in == InBefore(image)
             len == ckh.chunk_sz * blk_sz
  <1>1. image \in ImageType /\ image \in Images /\ ckh \in Chunks /\ is_sparse_image(image)
    BY DEF TypeOK, ImageType, CursorInv
  <1>2. /\ n \in Nat /\ out \in [1 .. n + 1 -> Nat] /\ in \in [1 .. n + 1 -> Nat]
        /\ out[i + 1] = out[i] + len /\ in[i + 1] = in[i] + ckh.total_sz
        /\ \A j, k \in 1 .. n + 1 : j <= k => out[j] <= out[k] /\ in[j] <= in[k]
    BY <1>1, OutBeforeDef, InBeforeDef
  <1>3. /\ ckh.type # "UNKNOWN" /\ ckh.total_sz = CHUNK_HDR + DataSize(ckh)
        /\ image.size = in[n + 1]
    BY DEF WellFormed
  <1>4. gparti.lo + out[n + 1] <= gparti.hi
    BY <1>1 DEF Fits
  <1>5. /\ s = in[i] /\ rlen + s = image.size + FILE_HDR
        /\ gparti.lo <= cur_offset /\ cur_offset <= gparti.lo + out[i]
    BY DEF CursorInv
  <1>6. ckh.total_sz < WORD_RANGE
    BY <1>1, ImageAssumption DEF Chunks
  <1>7. /\ ckh.chunk_sz \in Nat /\ ckh.total_sz \in Nat /\ ckh.type \in ChunkTypes
        /\ len \in Nat
    <2>1. ckh.chunk_sz \in Nat /\ ckh.total_sz \in Nat /\ ckh.type \in ChunkTypes
      BY <1>1 DEF Chunks
    <2>2. blk_sz \in Nat
      BY FlashAssumption
    <2> QED
      BY <2>1, <2>2
  <1>8. /\ i \in 1 .. n + 1 /\ i + 1 \in 1 .. n + 1 /\ n + 1 \in 1 .. n + 1 /\ i + 1 <= n + 1
        /\ out[i] \in Nat /\ out[i + 1] \in Nat /\ out[n + 1] \in Nat
        /\ in[i] \in Nat /\ in[i + 1] \in Nat /\ in[n + 1] \in Nat
        /\ out[i + 1] <= out[n + 1] /\ in[i + 1] <= in[n + 1]
    <2>1. i \in 1 .. n + 1 /\ i + 1 \in 1 .. n + 1 /\ n + 1 \in 1 .. n + 1 /\ i + 1 <= n + 1
      BY <1>2
    <2> HIDE DEF out, in, n
    <2> QED
      BY <1>2, <2>1
  <1>9. /\ CHUNK_HDR \in Nat /\ FILE_HDR \in Nat /\ rlen \in Nat /\ s \in Nat
        /\ cur_offset \in Nat /\ gparti.lo \in Nat /\ gparti.hi \in Nat
    BY FlashAssumption DEF TypeOK
  <1>10. /\ DataSize(ckh) \in Nat
         /\ ckh.type = "RAW" => DataSize(ckh) = len
    BY <1>7 DEF DataSize
  <1>11. Out(ckh) \in Nat /\ Out(ckh) <= len /\ (len < WORD_RANGE => Out(ckh) = len)
    BY <1>7, U32Bounds DEF Out
  <1>12. len % blk_sz = 0
    BY <1>7, MultipleOfBlock
  <1> HIDE DEF ckh, n, out, in, len
  <1>13. PICK o1, o2, o3, i1, i2, i3 \in Nat :
            /\ o1 = out[i] /\ o2 = out[i + 1] /\ o3 = out[n + 1]
            /\ i1 = in[i] /\ i2 = in[i + 1] /\ i3 = in[n + 1]
    BY <1>8
  <1>14. /\ o2 = o1 + len /\ o2 <= o3 /\ gparti.lo + o3 <= gparti.hi
         /\ i2 = i1 + ckh.total_sz /\ i2 <= i3
         /\ s = i1 /\ rlen + s = i3 + FILE_HDR
         /\ gparti.lo <= cur_offset /\ cur_offset <= gparti.lo + o1
    BY <1>2, <1>3, <1>4, <1>5, <1>8, <1>13
  <1>15. /\ ~Malformed(ckh) /\ ~Truncated(ckh)
         /\ is_inside_partition(cur_offset, Out(ckh))
    <2>1. CHUNK_HDR <= ckh.total_sz
      BY <1>3, <1>9, <1>10
    <2>2. ckh.total_sz <= rlen
      BY <1>7, <1>9, <1>14
    <2>3. cur_offset + Out(ckh) <= gparti.hi
      BY <1>7, <1>9, <1>11, <1>14
    <2>4. ~Malformed(ckh)
      BY <1>7, <1>9, <2>1 DEF Malformed
    <2>5. ~Truncated(ckh)
      BY <1>7, <1>9, <2>1, <2>2 DEF Truncated
    <2>6. is_inside_partition(cur_offset, Out(ckh))
      BY <1>9, <1>14, <2>3 DEF is_inside_partition
    <2> QED
      BY <2>4, <2>5, <2>6
  <1>16. ASSUME ckh.type = "RAW"
         PROVE  /\ ckh.total_sz - CHUNK_HDR = Out(ckh)
                /\ (ckh.total_sz - CHUNK_HDR) % blk_sz = 0
    <2>1. ckh.total_sz - CHUNK_HDR = len
      BY <1>3, <1>7, <1>9, <1>10, <1>16
    <2>2. len < WORD_RANGE
      BY <1>6, <1>7, <1>9, <2>1, FlashAssumption
    <2> QED
      BY <1>11, <1>12, <2>1, <2>2
  <1>17. ~flash_chunk(ckh, s + CHUNK_HDR, ckh.total_sz - CHUNK_HDR, "ERROR")
    <2>1. CASE ckh.type = "RAW"
      <3> DEFINE size == ckh.total_sz - CHUNK_HDR
      <3>1. size = u32(ckh.chunk_sz * blk_sz) /\ size % blk_sz = 0
        BY <1>16, <2>1 DEF Out
      <3>2. is_inside_partition(cur_offset, size)
        BY <1>15, <1>16, <2>1
      <3> HIDE DEF size
      <3>3. ~flash_chunk(ckh, s + CHUNK_HDR, size, "ERROR")
        BY <2>1, <3>1, <3>2 DEF flash_chunk, flash_write
      <3> QED
        BY <3>3 DEF size
    <2>2. CASE ckh.type = "FILL"
      BY <1>15, <2>2 DEF flash_chunk, flash_fill, flash_write, Out
    <2>3. CASE ckh.type = "DONT_CARE"
      BY <1>15, <2>3 DEF flash_chunk, flash_skip, Out
    <2>4. CASE ckh.type = "CRC32"
      BY <2>4 DEF flash_chunk
    <2> QED
      BY <1>3, <1>7, <2>1, <2>2, <2>3, <2>4 DEF ChunkTypes
  <1> QED
    BY <1>15, <1>17 DEF ckh

\* While the hardware works, an image that keeps to the format and fits is
\* flashed, whatever the sizes of its chunks and the requests before it.
THEOREM AcceptsGoodImageSafe == Spec => []AcceptsGoodImage
  <1>1. Init => AcceptsGoodImage
    BY DEF Init, AcceptsGoodImage
  <1>2. TypeOK /\ CursorInv /\ AcceptsGoodImage /\ [Next]_vars => AcceptsGoodImage'
    <2> SUFFICES ASSUME TypeOK, CursorInv, AcceptsGoodImage, [Next]_vars,
                        broken' = {}, pc' = "failed", Fits(image)',
                        is_sparse_image(image)' => WellFormed(image)'
                 PROVE  FALSE
      BY DEF AcceptsGoodImage
    <2>1. CASE FlashNoPartition
      BY <2>1 DEF FlashNoPartition
    <2>2. CASE FlashPlain
      <3>1. /\ pc = "plain" /\ UNCHANGED <<gparti, image, broken>>
            /\ flash_write([w \in 0 .. image.size - 1 |-> w], image.size, "ERROR")
        BY <2>2 DEF FlashPlain
      <3>2. ~is_inside_partition(cur_offset, image.size)
        BY <3>1 DEF flash_write
      <3>3. ~is_sparse_image(image) /\ cur_offset = gparti.lo
        BY <3>1 DEF CursorInv
      <3>4. gparti.lo + image.size <= gparti.hi
        BY <3>1, <3>3 DEF Fits, is_sparse_image
      <3>5. gparti.lo \in Nat
        BY DEF TypeOK
      <3> QED
        BY <3>2, <3>3, <3>4, <3>5 DEF is_inside_partition
    <2>3. CASE FlashChunk
      <3> DEFINE ckh == image.chunks[i]
      <3>1. /\ pc = "chunk" /\ i \in 1 .. Len(image.chunks)
            /\ UNCHANGED <<gparti, image, broken>>
        BY <2>3 DEF FlashChunk, TypeOK
      <3>2. is_sparse_image(image)
        BY <3>1 DEF CursorInv
      <3>3. WellFormed(image) /\ Fits(image)
        BY <3>1, <3>2 DEF WellFormed, Fits, is_sparse_image, InBefore, OutBefore
      <3>4. /\ ~Truncated(ckh) /\ ~Malformed(ckh)
            /\ ~flash_chunk(ckh, s + CHUNK_HDR, ckh.total_sz - CHUNK_HDR, "ERROR")
        BY <3>1, <3>3, GoodChunk
      <3> QED
        BY <2>3, <3>1, <3>4 DEF FlashChunk
    <2>4. CASE Flash \/ FlashSparseEnd \/ Return
      BY <2>4 DEF Flash, FlashSparseEnd, Return
    <2>5. CASE UNCHANGED vars
      <3>1. UNCHANGED <<pc, broken, image, gparti>>
        BY <2>5 DEF vars
      <3> QED
        BY <3>1 DEF AcceptsGoodImage, WellFormed, Fits, is_sparse_image, InBefore, OutBefore
    <2> QED
      BY <2>1, <2>2, <2>3, <2>4, <2>5 DEF Next
  <1> QED
    BY <1>1, <1>2, TypeCorrect, CursorCorrect, PTL DEF Spec

-----------------------------------------------------------------------------
(***************************************************************************)
(* Refinement of PartUpdate, for images that flash_sparse can represent:   *)
(* outputs of a chunk below 4 GiB, no checksum that stands for output, and *)
(* no fill chunk where a UINTN is two words wide.                          *)
(***************************************************************************)
Representable(ckh) ==
    /\ ckh.chunk_sz * blk_sz < WORD_RANGE
    /\ ckh.type = "CRC32" => ckh.chunk_sz = 0
    /\ ckh.type = "FILL" => UINTN_WORDS = 1

ImagesRepresentable ==
    \A im \in Images : \A k \in DOMAIN im.chunks : Representable(im.chunks[k])

\* The medium when the first n words of the output have been written.
Upto(n) ==
    [w \in Media |->
        IF InPart(w) /\ w - gparti.lo < n THEN Meaning(image, w - gparti.lo) ELSE Untouched]

WrittenInv ==
    /\ pc = "idle" => disk = Clean
    /\ pc = "plain" => disk = Upto(0)
    /\ pc = "chunk" => /\ cur_offset = gparti.lo + OutBefore(image)[i]
                       /\ disk = Upto(OutBefore(image)[i])

FlashInv == TypeOK /\ CursorInv /\ WrittenInv

\* What a step of the work may do to the medium.
Moves(d) ==
    \A w \in Media : \/ d[w] = disk[w]
                     \/ InPart(w) /\ d[w] = Meaning(image, w - gparti.lo)

\* A write of the words that the image describes from position b on.
LEMMA WriteMeans ==
  ASSUME TypeOK, NEW f, NEW size \in Nat, NEW b \in Nat, NEW r,
         \A w \in 0 .. size - 1 : f[w] = Meaning(image, b + w),
         flash_write(f, size, r), cur_offset = gparti.lo + b, disk = Upto(b)
  PROVE  /\ Moves(disk')
         /\ r = "SUCCESS" => disk' = Upto(b + size) /\ cur_offset' = gparti.lo + (b + size)
  <1>1. gparti.lo \in Nat /\ gparti.hi \in Nat /\ MediaSize \in Nat
    BY FlashAssumption DEF TypeOK
  <1>2. ASSUME is_inside_partition(cur_offset, size), NEW n \in 0 .. size, NEW w \in Media
        PROVE  Put(f, n)[w] = IF gparti.lo + b <= w /\ w < gparti.lo + b + n
                              THEN Meaning(image, w - gparti.lo) ELSE disk[w]
    <2>1. w \in Int
      BY <1>1 DEF Media
    <2>2. Put(f, n)[w] = IF w >= cur_offset /\ w < cur_offset + n
                         THEN f[w - cur_offset] ELSE disk[w]
      BY DEF Put
    <2>3. CASE gparti.lo + b <= w /\ w < gparti.lo + b + n
      <3>1. w - cur_offset \in 0 .. size - 1 /\ b + (w - cur_offset) = w - gparti.lo
        BY <1>1, <1>2, <2>1, <2>3
      <3>2. f[w - cur_offset] = Meaning(image, w - gparti.lo)
        BY <3>1
      <3> QED
        BY <1>1, <2>1, <2>2, <2>3, <3>2
    <2>4. CASE ~(gparti.lo + b <= w /\ w < gparti.lo + b + n)
      BY <1>1, <2>1, <2>2, <2>4
    <2> QED
      BY <2>3, <2>4
  <1>3. ASSUME is_inside_partition(cur_offset, size), NEW n \in 0 .. size, NEW w \in Media,
               gparti.lo + b <= w, w < gparti.lo + b + n
        PROVE  InPart(w)
    <2>1. w \in Int
      BY <1>1 DEF Media
    <2> QED
      BY <1>1, <1>3, <2>1 DEF is_inside_partition, InPart
  <1>4. ASSUME is_inside_partition(cur_offset, size), NEW n \in 0 .. size
        PROVE  Moves(Put(f, n))
    BY <1>2, <1>3, <1>4 DEF Moves
  <1>5. ASSUME is_inside_partition(cur_offset, size)
        PROVE  Put(f, size) = Upto(b + size)
    <2>1. ASSUME NEW w \in Media PROVE Put(f, size)[w] = Upto(b + size)[w]
      <3>1. w \in Int /\ size \in 0 .. size
        BY <1>1 DEF Media
      <3>2. disk[w] = IF InPart(w) /\ w - gparti.lo < b
                      THEN Meaning(image, w - gparti.lo) ELSE Untouched
        BY DEF Upto
      <3>3. Upto(b + size)[w] = IF InPart(w) /\ w - gparti.lo < b + size
                                THEN Meaning(image, w - gparti.lo) ELSE Untouched
        BY DEF Upto
      <3>4. Put(f, size)[w] = IF gparti.lo + b <= w /\ w < gparti.lo + b + size
                              THEN Meaning(image, w - gparti.lo) ELSE disk[w]
        BY <1>2, <1>5, <3>1
      <3>5. CASE gparti.lo + b <= w /\ w < gparti.lo + b + size
        <4>1. InPart(w)
          BY <1>3, <1>5, <3>1, <3>5
        <4> QED
          BY <1>1, <3>1, <3>3, <3>4, <3>5, <4>1
      <3>6. CASE ~(gparti.lo + b <= w /\ w < gparti.lo + b + size)
        <4>1. InPart(w) => w >= gparti.lo
          BY <1>1, <3>1 DEF InPart
        <4>2. InPart(w) => (w - gparti.lo < b <=> w - gparti.lo < b + size)
          BY <1>1, <3>1, <3>6, <4>1
        <4> QED
          BY <3>2, <3>3, <3>4, <3>6, <4>2
      <3> QED
        BY <3>5, <3>6
    <2> QED
      BY <2>1 DEF Put, Upto
  <1>6. cur_offset + size = gparti.lo + (b + size) /\ size \in 0 .. size
    BY <1>1
  <1>7. disk' = disk => Moves(disk')
    BY DEF Moves
  <1> QED
    BY <1>4, <1>5, <1>6, <1>7 DEF flash_write

\* A chunk moves the medium as the image says, and completes it on success.
LEMMA ChunkMeans ==
  ASSUME ImagesRepresentable, FlashInv, pc = "chunk", i \in 1 .. Len(image.chunks),
         ~Malformed(image.chunks[i]), NEW r \in {"SUCCESS", "ERROR"},
         flash_chunk(image.chunks[i], s + CHUNK_HDR, image.chunks[i].total_sz - CHUNK_HDR, r)
  PROVE  /\ Moves(disk')
         /\ r = "SUCCESS" => /\ disk' = Upto(OutBefore(image)[i + 1])
                             /\ cur_offset' = gparti.lo + OutBefore(image)[i + 1]
  <1> DEFINE ckh == image.chunks[i]
             n == Len(image.chunks)
             out == OutBefore(image)
             p == s + CHUNK_HDR
             len == ckh.chunk_sz * blk_sz
  <1>1. /\ image \in ImageType /\ image \in Images /\ ckh \in Chunks
        /\ is_sparse_image(image) /\ s = InBefore(image)[i] /\ TypeOK
        /\ cur_offset = gparti.lo + out[i] /\ disk = Upto(out[i])
    BY DEF FlashInv, TypeOK, ImageType, CursorInv, WrittenInv
  <1>2. /\ n \in Nat /\ out \in [1 .. n + 1 -> Nat] /\ out[i + 1] = out[i] + len
    BY <1>1, OutBeforeDef
  <1>3. out[i] \in Nat /\ out[i + 1] \in Nat
    <2>1. i \in 1 .. n + 1 /\ i + 1 \in 1 .. n + 1
      BY <1>2
    <2> HIDE DEF out, n
    <2> QED
      BY <1>2, <2>1
  <1>4. /\ ckh.chunk_sz \in Nat /\ ckh.total_sz \in Nat /\ ckh.type \in ChunkTypes
        /\ blk_sz \in Nat /\ CHUNK_HDR \in Nat /\ s \in Nat
        /\ gparti.lo \in Nat
    <2>1. ckh.chunk_sz \in Nat /\ ckh.total_sz \in Nat /\ ckh.type \in ChunkTypes
      BY <1>1 DEF Chunks
    <2>2. blk_sz \in Nat /\ CHUNK_HDR \in Nat /\ s \in Nat /\ gparti.lo \in Nat
      BY <1>1, FlashAssumption DEF TypeOK
    <2> QED
      BY <2>1, <2>2
  <1>5. len \in Nat
    BY <1>4
  <1>6. Representable(ckh)
    <2>1. i \in DOMAIN image.chunks
      BY <1>1 DEF ImageType
    <2> QED
      BY <1>1, <2>1 DEF ImagesRepresentable
  <1>7. u32(ckh.chunk_sz * blk_sz) = len
    BY <1>5, <1>6, U32Bounds DEF Representable
  <1>8. ASSUME NEW w \in 0 .. len - 1
        PROVE  Meaning(image, out[i] + w) = IF ckh.type = "RAW" THEN p + w
                                            ELSE IF ckh.type = "FILL" THEN p
                                            ELSE Untouched
    <2> HIDE DEF len, out
    <2>1. out[i] + w \in Nat /\ out[i] <= out[i] + w /\ out[i] + w < out[i + 1]
      BY <1>2, <1>3, <1>5
    <2>2. Meaning(image, out[i] + w) =
             IF ckh.type = "RAW" THEN InBefore(image)[i] + CHUNK_HDR + (out[i] + w) - out[i]
             ELSE IF ckh.type = "FILL" THEN InBefore(image)[i] + CHUNK_HDR ELSE Untouched
      BY <1>1, <2>1, MeaningOfChunk DEF out
    <2>3. s + CHUNK_HDR + (out[i] + w) - out[i] = s + CHUNK_HDR + w
      BY <1>3, <1>4, <1>5
    <2> QED
      BY <1>1, <2>2, <2>3
  <1>9. UNCHANGED disk => Moves(disk')
    BY DEF Moves
  <1>10. CASE ckh.type = "RAW"
    <2> DEFINE size == ckh.total_sz - CHUNK_HDR
               f == [w \in 0 .. size - 1 |-> p + w]
    <2>1. CASE size % blk_sz = 0 /\ size = len
      <3>1. flash_write(f, size, r)
        BY <1>7, <1>10, <2>1 DEF flash_chunk
      <3>2. \A w \in 0 .. len - 1 : f[w] = Meaning(image, out[i] + w)
        BY <1>8, <1>10, <2>1
      <3> HIDE DEF f, out, len, size
      <3>3. flash_write(f, len, r) /\ out[i] + len = out[i + 1]
        BY <1>2, <2>1, <3>1
      <3> QED
        BY <1>1, <1>3, <1>5, <3>2, <3>3, WriteMeans DEF out
    <2>2. CASE ~(size % blk_sz = 0 /\ size = len)
      <3>1. r = "ERROR" /\ UNCHANGED <<disk, cur_offset>>
        BY <1>7, <1>10, <2>2 DEF flash_chunk
      <3> QED
        BY <1>9, <3>1
    <2> QED
      BY <2>1, <2>2
  <1>11. CASE ckh.type = "FILL"
    <2> DEFINE f == [w \in 0 .. len - 1 |->
                        IF w < len \div UINTN_WORDS THEN p ELSE Uninitialised]
    <2>1. flash_fill(p, len, r)
      BY <1>7, <1>11 DEF flash_chunk
    <2>2. CASE "heap" \in broken /\ r = "ERROR" /\ UNCHANGED <<disk, cur_offset>>
      BY <1>9, <2>2
    <2>3. CASE flash_write(f, len, r)
      <3>1. len \div UINTN_WORDS = len
        <4>1. UINTN_WORDS = 1
          BY <1>6, <1>11 DEF Representable
        <4> HIDE DEF len
        <4> QED
          BY <1>5, <4>1
      <3>2. \A w \in 0 .. len - 1 : f[w] = p
        BY <1>5, <3>1
      <3>3. \A w \in 0 .. len - 1 : f[w] = Meaning(image, out[i] + w)
        BY <1>8, <1>11, <3>2
      <3> HIDE DEF f, out, len
      <3>4. out[i] + len = out[i + 1]
        BY <1>2
      <3> QED
        BY <1>1, <1>3, <1>5, <2>3, <3>3, <3>4, WriteMeans DEF out
    <2> QED
      BY <2>1, <2>2, <2>3 DEF flash_fill
  <1>12. CASE ckh.type = "DONT_CARE"
    <2>1. UNCHANGED disk /\ (r = "SUCCESS" => cur_offset' = cur_offset + len)
      BY <1>7, <1>12 DEF flash_chunk, flash_skip
    <2>2. Upto(out[i + 1]) = Upto(out[i])
      <3>1. ASSUME NEW w \in Media PROVE Upto(out[i + 1])[w] = Upto(out[i])[w]
        <4>1. w \in Int /\ (InPart(w) => w - gparti.lo \in Nat)
          BY <1>4, FlashAssumption DEF Media, InPart
        <4>2. CASE InPart(w) /\ out[i] <= w - gparti.lo /\ w - gparti.lo < out[i + 1]
          <5>1. Meaning(image, w - gparti.lo) = Untouched
            BY <1>1, <1>12, <4>1, <4>2, MeaningOfChunk
          <5> QED
            BY <5>1 DEF Upto
        <4>3. CASE ~(InPart(w) /\ out[i] <= w - gparti.lo /\ w - gparti.lo < out[i + 1])
          <5> HIDE DEF out, len
          <5>1. InPart(w) => (w - gparti.lo < out[i + 1] <=> w - gparti.lo < out[i])
            BY <1>2, <1>3, <1>4, <1>5, <4>1, <4>3
          <5> QED
            BY <5>1 DEF Upto
        <4> QED
          BY <4>2, <4>3
      <3> QED
        BY <3>1 DEF Upto
    <2> HIDE DEF out, len
    <2>3. cur_offset + len = gparti.lo + out[i + 1]
      BY <1>1, <1>2, <1>3, <1>4, <1>5
    <2> QED
      BY <1>1, <1>9, <2>1, <2>2, <2>3 DEF out
  <1>13. CASE ckh.type = "CRC32"
    <2>1. r = "SUCCESS" /\ UNCHANGED <<disk, cur_offset>>
      BY <1>13 DEF flash_chunk
    <2>2. len = 0
      BY <1>4, <1>6, <1>13 DEF Representable
    <2> HIDE DEF out, len
    <2>3. out[i + 1] = out[i]
      BY <1>2, <1>3, <2>2
    <2> QED
      BY <1>1, <1>9, <2>1, <2>3 DEF out
  <1>14. CASE ckh.type = "UNKNOWN"
    <2>1. r = "ERROR" /\ UNCHANGED <<disk, cur_offset>>
      BY <1>14 DEF flash_chunk
    <2> QED
      BY <1>9, <2>1
  <1> QED
    BY <1>4, <1>10, <1>11, <1>12, <1>13, <1>14 DEF ChunkTypes

LEMMA UptoGoal ==
  ASSUME TypeOK, pc # "idle", NEW n \in Nat,
         \A w \in Nat : n <= w => Meaning(image, w) = Untouched
  PROVE  Upto(n) = Goal
  <1>1. gparti.lo \in Nat /\ MediaSize \in Nat
    BY FlashAssumption DEF TypeOK
  <1>2. ASSUME NEW w \in Media PROVE Upto(n)[w] = Goal[w]
    <2>1. InPart(w) => w - gparti.lo \in Nat
      BY <1>1 DEF Media, InPart
    <2>2. CASE InPart(w) /\ ~(w - gparti.lo < n)
      <3>1. Meaning(image, w - gparti.lo) = Untouched
        BY <2>1, <2>2
      <3> QED
        BY <2>2, <3>1 DEF Upto, Goal
    <2>3. CASE ~(InPart(w) /\ ~(w - gparti.lo < n))
      BY <2>3 DEF Upto, Goal
    <2> QED
      BY <2>2, <2>3
  <1> QED
    BY <1>2 DEF Upto, Goal

LEMMA WrittenStep ==
  ASSUME ImagesRepresentable, FlashInv, TypeOK', [Next]_vars
  PROVE  WrittenInv'
  <1>1. CASE FlashNoPartition
    BY <1>1 DEF FlashNoPartition, WrittenInv
  <1>2. CASE Flash
    <2>1. disk' = Clean /\ gparti'.lo \in Nat /\ cur_offset' = gparti'.lo
      BY <1>2 DEF Flash, FlashInv, WrittenInv, TypeOK
    <2>2. ASSUME NEW w \in Media PROVE InPart(w)' => ~(w - gparti'.lo < 0)
      BY <2>1, FlashAssumption DEF InPart, Media
    <2>3. Upto(0)' = Clean
      BY <2>2 DEF Upto, Clean
    <2>4. CASE pc' = "chunk"
      <3>1. i' = 1
        BY <1>2, <2>4 DEF Flash
      <3>2. OutBefore(image')[1] = 0
        <4>1. image' \in ImageType
          BY <1>2, ImageAssumption DEF Flash, ImageType
        <4> QED
          BY <4>1, OutBeforeDef
      <3>3. OutBefore(image)'[i'] = 0
        BY <3>1, <3>2 DEF OutBefore
      <3> QED
        BY <2>1, <2>3, <2>4, <3>3 DEF WrittenInv
    <2>5. CASE pc' = "plain"
      BY <2>1, <2>3, <2>5 DEF WrittenInv
    <2> QED
      BY <1>2, <2>4, <2>5 DEF Flash
  <1>3. CASE FlashPlain
    BY <1>3 DEF FlashPlain, WrittenInv
  <1>4. CASE FlashChunk
    <2>1. /\ pc = "chunk" /\ i \in 1 .. Len(image.chunks)
          /\ UNCHANGED <<gparti, image, broken>>
      BY <1>4 DEF FlashChunk, FlashInv, TypeOK
    <2>2. CASE pc' = "failed"
      BY <2>2 DEF WrittenInv
    <2>3. CASE pc' # "failed"
      <3> DEFINE ckh == image.chunks[i]
      <3>1. /\ ~Malformed(ckh) /\ pc' = "chunk" /\ i' = i + 1
            /\ flash_chunk(ckh, s + CHUNK_HDR, ckh.total_sz - CHUNK_HDR, "SUCCESS")
        BY <1>4, <2>1, <2>3 DEF FlashChunk
      <3>2. /\ disk' = Upto(OutBefore(image)[i + 1])
            /\ cur_offset' = gparti.lo + OutBefore(image)[i + 1]
        BY <2>1, <3>1, ChunkMeans
      <3>3. OutBefore(image)' = OutBefore(image)
        BY <2>1 DEF OutBefore
      <3>4. \A m : Upto(m)' = Upto(m)
        BY <2>1 DEF Upto, InPart, Meaning, is_sparse_image, OutBefore, InBefore
      <3> QED
        BY <2>1, <3>1, <3>2, <3>3, <3>4 DEF WrittenInv
    <2> QED
      BY <2>2, <2>3
  <1>5. CASE FlashSparseEnd
    BY <1>5 DEF FlashSparseEnd, WrittenInv
  <1>6. CASE Return
    BY <1>6 DEF Return, WrittenInv
  <1>7. CASE UNCHANGED vars
    <2>1. UNCHANGED <<pc, gparti, image, i, cur_offset, disk>>
      BY <1>7 DEF vars
    <2>2. OutBefore(image)' = OutBefore(image)
      BY <2>1 DEF OutBefore
    <2>3. \A m : Upto(m)' = Upto(m)
      BY <2>1 DEF Upto, InPart, Meaning, is_sparse_image, OutBefore, InBefore
    <2> QED
      BY <2>1, <2>2, <2>3 DEF WrittenInv, FlashInv
  <1> QED
    BY <1>1, <1>2, <1>3, <1>4, <1>5, <1>6, <1>7 DEF Next

THEOREM FlashInvariance == ASSUME ImagesRepresentable PROVE Spec => []FlashInv
  <1>1. Init => WrittenInv
    BY DEF Init, WrittenInv
  <1>2. TypeOK /\ CursorInv /\ WrittenInv /\ TypeOK' /\ [Next]_vars => WrittenInv'
    BY WrittenStep DEF FlashInv
  <1> QED
    BY <1>1, <1>2, TypeCorrect, CursorCorrect, PTL DEF Spec, FlashInv

\* The mapped variables.
St == IF pc \in {"plain", "chunk"} THEN "busy" ELSE pc
Part == IF pc = "idle" THEN {} ELSE {w \in Media : InPart(w)}

GoalOK == Goal \in [Media -> Int]

LEMMA GoalType == TypeOK => GoalOK
  <1> SUFFICES ASSUME TypeOK PROVE Goal \in [Media -> Int]
    BY DEF GoalOK
  <1>1. image \in ImageType /\ gparti.lo \in Nat /\ MediaSize \in Nat
    BY FlashAssumption DEF TypeOK, ImageType
  <1>2. ASSUME NEW w \in Media, InPart(w) PROVE Meaning(image, w - gparti.lo) \in Int
    <2>1. w - gparti.lo \in Nat
      BY <1>1, <1>2 DEF Media, InPart
    <2> QED
      BY <1>1, <2>1, MeaningType
  <1> QED
    BY <1>2 DEF Goal, Clean, Untouched

LEMMA GoalTypeNext == TypeOK' => GoalOK'
  BY GoalType, PTL

LEMMA InitRefines == Init => Contract!Init
  BY DEF Init, Contract!Init, Contract!Clean, Goal, Clean

\* A step of the work is one of Progress.
LEMMA WorkProgress ==
  ASSUME TypeOK, TypeOK', pc \in {"plain", "chunk"}, pc' \in {"plain", "chunk", "ok", "failed"},
         UNCHANGED <<gparti, image>>, Moves(disk'), pc' = "ok" => disk' = Goal
  PROVE  Contract!Progress
  <1>1. St = "busy" /\ St' \in {"busy", "ok", "failed"} /\ (St' = "ok" <=> pc' = "ok")
    BY DEF St
  <1>2. Part' = Part
    BY DEF Part, InPart
  <1>3. Goal' = Goal
    <2>1. pc # "idle" /\ pc' # "idle"
      OBVIOUS
    <2>2. \A w : InPart(w)' = InPart(w)
      BY DEF InPart
    <2>3. \A w : Meaning(image, w - gparti.lo)' = Meaning(image, w - gparti.lo)
      BY DEF Meaning, is_sparse_image, OutBefore, InBefore
    <2> QED
      BY <2>1, <2>2, <2>3 DEF Goal
  <1>4. disk' \in [Media -> Int]
    BY DEF TypeOK
  <1>5. \A b \in Media : disk'[b] \in {disk[b], Goal[b]}
    BY DEF Moves, Goal
  <1> QED
    BY <1>1, <1>2, <1>3, <1>4, <1>5 DEF Contract!Progress, St, Part

LEMMA StepRefines ==
  ASSUME ImagesRepresentable, FlashInv, TypeOK', [Next]_vars
  PROVE  [Contract!Next]_(Contract!vars)
  <1> USE DEF FlashInv
  <1>a. Goal \in [Media -> Int] /\ Goal' \in [Media -> Int]
    BY GoalType, GoalTypeNext DEF GoalOK
  <1>b. Part' \subseteq Media
    BY DEF Part
  <1>1. CASE FlashNoPartition
    <2>1. St = "idle" /\ St' = "failed" /\ UNCHANGED disk
      BY <1>1 DEF FlashNoPartition, St
    <2>2. Contract!Refuse
      BY <1>a, <1>b, <2>1 DEF Contract!Refuse, St, Part
    <2> QED
      BY <2>2 DEF Contract!Next
  <1>2. CASE Flash
    <2>1. St = "idle" /\ St' = "busy" /\ UNCHANGED disk
      BY <1>2 DEF Flash, St
    <2>2. pc' # "idle"
      BY <1>2 DEF Flash
    <2>3. \A b \in Media \ Part' : Goal'[b] = Untouched
      BY <2>2 DEF Part, Goal
    <2>4. Contract!Begin
      BY <1>a, <1>b, <2>1, <2>3 DEF Contract!Begin, St, Part
    <2> QED
      BY <2>4 DEF Contract!Next
  <1>3. CASE FlashPlain
    <2> DEFINE f == [w \in 0 .. image.size - 1 |-> w]
    <2>1. PICK r \in {"SUCCESS", "ERROR"} :
             /\ flash_write(f, image.size, r)
             /\ pc' = IF r = "SUCCESS" THEN "ok" ELSE "failed"
      BY <1>3 DEF FlashPlain
    <2>2. /\ pc = "plain" /\ UNCHANGED <<gparti, image>>
          /\ ~is_sparse_image(image) /\ cur_offset = gparti.lo /\ disk = Upto(0)
          /\ image.size \in Nat /\ gparti.lo \in Nat
      BY <1>3 DEF FlashPlain, CursorInv, WrittenInv, TypeOK
    <2>3. \A w \in Nat : Meaning(image, w) = IF w < image.size THEN w ELSE Untouched
      BY <2>2 DEF Meaning
    <2>4. \A w \in 0 .. image.size - 1 : f[w] = Meaning(image, 0 + w)
      BY <2>2, <2>3
    <2>5. cur_offset = gparti.lo + 0 /\ 0 + image.size = image.size
      BY <2>2
    <2> HIDE DEF f
    <2>6. Moves(disk') /\ (r = "SUCCESS" => disk' = Upto(image.size))
      <3>1. 0 \in Nat /\ flash_write(f, image.size, r)
        BY <2>1
      <3>2. Moves(disk') /\ (r = "SUCCESS" => disk' = Upto(0 + image.size))
        BY <2>2, <2>4, <2>5, <3>1, WriteMeans
      <3> QED
        BY <2>5, <3>2
    <2>7. Upto(image.size) = Goal
      BY <2>2, <2>3, UptoGoal
    <2>8. Contract!Progress
      BY <2>1, <2>2, <2>6, <2>7, WorkProgress
    <2> QED
      BY <2>8 DEF Contract!Next
  <1>4. CASE FlashChunk
    <2> DEFINE ckh == image.chunks[i]
    <2>1. /\ pc = "chunk" /\ i \in 1 .. Len(image.chunks)
          /\ UNCHANGED <<gparti, image, broken>> /\ pc' \in {"chunk", "failed"}
      BY <1>4 DEF FlashChunk, TypeOK
    <2>2. Moves(disk')
      <3>1. CASE UNCHANGED disk
        BY <3>1 DEF Moves
      <3>2. CASE \E r \in {"SUCCESS", "ERROR"} :
                   /\ ~Malformed(ckh)
                   /\ flash_chunk(ckh, s + CHUNK_HDR, ckh.total_sz - CHUNK_HDR, r)
        BY <2>1, <3>2, ChunkMeans
      <3> QED
        BY <1>4, <3>1, <3>2 DEF FlashChunk
    <2>3. Contract!Progress
      BY <2>1, <2>2, WorkProgress
    <2> QED
      BY <2>3 DEF Contract!Next
  <1>5. CASE FlashSparseEnd
    <2>1. /\ pc = "chunk" /\ pc' = "ok" /\ i > Len(image.chunks)
          /\ UNCHANGED <<gparti, image, disk>>
      BY <1>5 DEF FlashSparseEnd
    <2>2. /\ image \in ImageType /\ is_sparse_image(image)
          /\ i \in 1 .. Len(image.chunks) + 1
          /\ disk = Upto(OutBefore(image)[i])
      BY <2>1 DEF CursorInv, WrittenInv, TypeOK, ImageType
    <2>3. /\ Len(image.chunks) \in Nat
          /\ OutBefore(image) \in [1 .. Len(image.chunks) + 1 -> Nat]
      BY <2>2, OutBeforeDef
    <2>4. i = Len(image.chunks) + 1
      BY <2>1, <2>2, <2>3
    <2>5. OutBefore(image)[i] \in Nat
      BY <2>2, <2>3
    <2>6. \A w \in Nat : OutBefore(image)[i] <= w => Meaning(image, w) = Untouched
      BY <2>2, <2>4, MeaningAfterLast
    <2>7. disk' = Goal
      BY <2>1, <2>2, <2>5, <2>6, UptoGoal
    <2>8. Moves(disk')
      BY <2>1 DEF Moves
    <2>9. Contract!Progress
      BY <2>1, <2>7, <2>8, WorkProgress
    <2> QED
      BY <2>9 DEF Contract!Next
  <1>6. CASE Return
    <2>1. pc \in {"ok", "failed"} /\ pc' = "idle" /\ disk' = Clean
      BY <1>6 DEF Return
    <2>2. St \in {"ok", "failed"} /\ St' = "idle" /\ Part' = {} /\ Goal' = Clean
      BY <2>1 DEF St, Part, Goal
    <2>3. Contract!Return
      BY <2>1, <2>2 DEF Contract!Return, Contract!Clean, St, Part, Clean
    <2> QED
      BY <2>3 DEF Contract!Next
  <1>7. CASE UNCHANGED vars
    <2>1. UNCHANGED <<pc, gparti, image, disk>>
      BY <1>7 DEF vars
    <2>2. St' = St /\ Part' = Part
      BY <2>1 DEF St, Part, InPart
    <2>3. Goal' = Goal
      BY <2>1 DEF Goal, InPart, Meaning, is_sparse_image, OutBefore, InBefore
    <2>4. UNCHANGED Contract!vars
      BY <2>1, <2>2, <2>3 DEF Contract!vars, St, Part
    <2> QED
      BY <2>4
  <1> QED
    BY <1>1, <1>2, <1>3, <1>4, <1>5, <1>6, <1>7 DEF Next

\* flash() implements the promise of PartUpdate: at every moment the medium holds
\* a part of what the image describes, and success means all of it.
THEOREM FlashImplementsPartUpdate ==
  ASSUME ImagesRepresentable
  PROVE  Spec => ImplementsPartUpdate
  <1>1. FlashInv /\ TypeOK' /\ [Next]_vars => [Contract!Next]_(Contract!vars)
    BY StepRefines
  <1> QED
    BY FlashInvariance, TypeCorrect, InitRefines, <1>1, PTL
    DEF Spec, ImplementsPartUpdate, Contract!Spec
=============================================================================
