------------------------------ MODULE GptProofs ------------------------------
(***************************************************************************)
(* Theorems about the partition cache in the fastboot application, for     *)
(* every set of platforms, number of failing calls and of requests.        *)
(***************************************************************************)
EXTENDS FastbootApp, SequenceTheorems, WellFoundedInduction, TLAPS

\* The entries that disks may hold, and the ways a call for one of them ends.
Entries == [bio : 0 .. Len(devices), dio : 0 .. Len(devices),
            gpt_hd : 0 .. Len(devices), partitions : -Len(devices) .. Len(devices)]
Steps == {"bio", "logical", "dio", "header", "signature", "allocate", "partitions", "done"}

\* A platform is a sequence of devices, each with a sequence of partitions.
LEMMA DeviceTypes ==
  ASSUME devices \in DeviceLists
  PROVE  /\ Len(devices) \in Nat
         /\ Devs = 1 .. Len(devices)
         /\ \A h \in Devs : NumEntries(h) \in Nat
         /\ devices # << >> => Devs # {} /\ 1 \in Devs
  <1> DEFINE D == [logical : BOOLEAN, gpt : BOOLEAN, parts : Seq([type : Types, name : Labels])]
  <1>1. devices \in Seq(D)
    BY GptAssumption
  <1>a. \A d \in D : Len(d.parts) \in Nat
    OBVIOUS
  <1> HIDE DEF D
  <1>2. Len(devices) \in Nat /\ DOMAIN devices = 1 .. Len(devices)
    BY <1>1
  <1>3. \A h \in Devs : devices[h] \in D
    BY <1>1, <1>2 DEF Devs
  <1>4. \A h \in Devs : NumEntries(h) \in Nat
    BY <1>a, <1>3 DEF NumEntries
  <1>5. Devs = 1 .. Len(devices)
    BY <1>2 DEF Devs
  <1>6. devices # << >> => 1 \in 1 .. Len(devices)
    BY <1>1, <1>2, EmptySeq
  <1> QED
    BY <1>2, <1>4, <1>5, <1>6

\* However the call for a device ends, it leaves an entry of the right type.
LEMMA FilledType ==
  ASSUME devices \in DeviceLists, NEW e \in Entries, NEW h \in Devs, NEW step \in Steps
  PROVE  Filled(e, h, step) \in Entries
  <1>1. /\ h \in 0 .. Len(devices) /\ 0 \in 0 .. Len(devices)
        /\ h \in -Len(devices) .. Len(devices) /\ -h \in -Len(devices) .. Len(devices)
        /\ 0 \in -Len(devices) .. Len(devices)
    BY DeviceTypes
  <1> QED
    BY <1>1 DEF Filled, Entries, Steps

\* The call of one device writes the slot after the entries that count and
\* nothing else.
LEMMA SlotType ==
  ASSUME CacheOK, pc = "scan", i \in Devs, NEW step \in Steps,
         disks' = [disks EXCEPT ![ndisk + 1] = Filled(@, i, step)]
  PROVE  /\ ndisk + 1 \in Devs
         /\ disks \in [Devs -> Entries] /\ disks' \in [Devs -> Entries]
         /\ disks'[ndisk + 1] = Filled(disks[ndisk + 1], i, step)
         /\ \A k \in 1 .. ndisk : disks'[k] = disks[k]
         /\ disks' # << >>
  <1>1. ndisk + 1 \in Devs
    BY DeviceTypes DEF CacheOK, TypeOK, EntriesCoherent
  <1>2. disks \in [Devs -> Entries]
    BY DEF CacheOK, TypeOK, Entries
  <1>3. Filled(disks[ndisk + 1], i, step) \in Entries
    BY <1>1, <1>2, FilledType DEF CacheOK, TypeOK
  <1>4. disks' \in [Devs -> Entries]
    BY <1>1, <1>2, <1>3
  <1>5. disks' # << >>
    <2>1. DOMAIN disks' = Devs
      BY <1>4
    <2>2. DOMAIN << >> = {}
      OBVIOUS
    <2> QED
      BY <1>1, <2>1, <2>2
  <1>6. \A k \in 1 .. ndisk : disks'[k] = disks[k]
    BY <1>1, <1>2 DEF CacheOK, TypeOK
  <1> QED
    BY <1>1, <1>2, <1>4, <1>5, <1>6

\* A platform starts with an empty cache.
LEMMA CacheInit == AppInit => CacheOK
  BY DeviceTypes, GptAssumption DEF AppInit, Init, CacheOK, TypeOK, EntriesCoherent, Devs

\* A question moves only pc and call.
LEMMA AskKeeps ==
  ASSUME CacheOK, NEW what \in {"list"} \cup Labels, Ask(what)
  PROVE  CacheOK'
  BY DEF Ask, CacheOK, TypeOK, EntriesCoherent, Devs, GptDevice

\* So does an answer, with faults and the devices that failed.
LEMMA AnswerKeeps ==
  ASSUME CacheOK, pc' = "idle", faults' \in 0 .. MaxFaults,
         UNCHANGED <<devices, disks, ndisk, npart, i, call, failed>>
  PROVE  CacheOK'
  BY DEF CacheOK, TypeOK, EntriesCoherent, Devs, GptDevice

\* The bound of faults.
LEMMA FaultBound == ASSUME CacheOK, Fault PROVE faults' \in 0 .. MaxFaults
  BY GptAssumption DEF CacheOK, TypeOK, Fault

\* Each step of gpt.c keeps the cache well formed and its entries coherent.
LEMMA GptStepKeeps == ASSUME CacheOK, GptStep PROVE CacheOK'
  <1> USE DEF CacheOK
  <1>0. /\ Len(devices) \in Nat /\ Devs = 1 .. Len(devices)
        /\ \A h \in Devs : NumEntries(h) \in Nat
        /\ ndisk \in Nat /\ i \in Nat
    BY DeviceTypes DEF TypeOK
  <1>1. CASE CacheFails
    BY <1>1, FaultBound, AnswerKeeps DEF CacheFails, Answer
  <1>2. CASE NoBlockIo
    BY <1>2, AnswerKeeps DEF NoBlockIo, Answer, TypeOK
  <1>3. CASE gpt_cache_partition
    <2>1. Devs # {} /\ 1 \in 1 .. Len(devices) + 1
      BY <1>3, DeviceTypes DEF gpt_cache_partition, TypeOK
    <2>2. disks' \in [Devs -> Entries]
      BY <1>3, DeviceTypes DEF gpt_cache_partition, Entries, Fresh, TypeOK
    <2>3. disks' # << >>
      BY <2>1, <2>2
    <2> QED
      BY <1>3, <2>1, <2>2, <2>3 DEF gpt_cache_partition, TypeOK, EntriesCoherent, Entries, Devs
  <1>4. CASE NextDevice
    <2>1. Ends(i) \in Steps
      BY DEF Ends, Steps
    <2> DEFINE step == Ends(i)
    <2>2. i \in Devs /\ pc = "scan" /\ disks' = [disks EXCEPT ![ndisk + 1] = Filled(@, i, step)]
      BY <1>4 DEF NextDevice
    <2>3. /\ ndisk + 1 \in Devs
          /\ disks' \in [Devs -> Entries]
          /\ disks'[ndisk + 1] = Filled(disks[ndisk + 1], i, step)
          /\ \A k \in 1 .. ndisk : disks'[k] = disks[k]
          /\ disks' # << >>
      BY <2>1, <2>2, SlotType
    <2>4. i' \in 1 .. Len(devices) + 1 /\ NumEntries(i) \in Nat /\ i' = i + 1
      BY <1>4, <2>2, <1>0 DEF NextDevice, TypeOK
    <2>5. TypeOK'
      <3>1. ndisk' \in Nat /\ npart' \in Nat
        BY <1>4, <2>4 DEF NextDevice, AddPartitions, TypeOK
      <3>2. UNCHANGED <<devices, pc, call, answer, failed, faults>>
        BY <1>4 DEF NextDevice
      <3> QED
        BY <2>2, <2>3, <2>4, <3>1, <3>2 DEF TypeOK, Entries, Devs
    <2>6. EntriesCoherent'
      <3>1. CASE Ends(i) = "done"
        <4>1. ndisk' = ndisk + 1
          BY <1>4, <3>1 DEF NextDevice, AddPartitions
        <4>2. disks'[ndisk'] = [bio |-> i, dio |-> i, gpt_hd |-> i, partitions |-> i]
          BY <2>3, <3>1, <4>1 DEF Filled
        <4>3. GptDevice(i)
          BY <3>1 DEF Ends, GptDevice
        <4>4. devices' = devices
          BY <1>4 DEF NextDevice
        <4>5. \A k \in 1 .. ndisk' :
                 /\ disks'[k].bio \in Devs
                 /\ disks'[k] = Whole(disks'[k].bio)
                 /\ GptDevice(disks'[k].bio)
                 /\ disks'[k].bio < i'
          <5> SUFFICES ASSUME NEW k \in 1 .. ndisk'
                       PROVE  /\ disks'[k].bio \in Devs
                              /\ disks'[k] = Whole(disks'[k].bio)
                              /\ GptDevice(disks'[k].bio)
                              /\ disks'[k].bio < i'
            OBVIOUS
          <5>1. CASE k = ndisk'
            <6>1. disks'[k].bio = i /\ i < i'
              BY <2>2, <2>4, <4>2, <5>1, <1>0
            <6>2. disks'[k] = Whole(i)
              BY <4>2, <5>1 DEF Whole
            <6> QED
              BY <2>2, <4>3, <6>1, <6>2
          <5>2. CASE k \in 1 .. ndisk
            <6>1. disks'[k] = disks[k] /\ disks[k].bio \in Int /\ disks[k].bio < i
              BY <2>3, <5>2, <1>0 DEF EntriesCoherent
            <6>2. disks[k].bio < i'
              BY <2>4, <6>1, <1>0
            <6> QED
              BY <5>2, <6>1, <6>2 DEF EntriesCoherent
          <5> QED
            BY <4>1, <5>1, <5>2 DEF TypeOK
        <4>6. \A k, l \in 1 .. ndisk' : k < l => disks'[k].bio < disks'[l].bio
          <5> SUFFICES ASSUME NEW k \in 1 .. ndisk', NEW l \in 1 .. ndisk', k < l
                       PROVE  disks'[k].bio < disks'[l].bio
            OBVIOUS
          <5>1. k \in 1 .. ndisk /\ (l = ndisk' \/ l \in 1 .. ndisk)
            BY <4>1 DEF TypeOK
          <5> QED
            BY <2>3, <4>2, <5>1 DEF EntriesCoherent
        <4>7. ndisk' < i'
          BY <2>2, <2>4, <4>1, <1>0 DEF EntriesCoherent, TypeOK
        <4> QED
          BY <4>4, <4>5, <4>6, <4>7 DEF EntriesCoherent, Devs, GptDevice
      <3>2. CASE Ends(i) # "done"
        <4>1. ndisk' = ndisk /\ devices' = devices
          BY <1>4, <3>2 DEF NextDevice
        <4>2. i < i' /\ i \in Int /\ ndisk \in Int
          BY <2>2, <2>4, <1>0 DEF TypeOK
        <4>3. \A k \in 1 .. ndisk : disks[k].bio \in Int
          BY <1>0 DEF EntriesCoherent
        <4>4. ASSUME NEW k \in 1 .. ndisk
              PROVE  /\ disks'[k] = disks[k] /\ disks[k].bio \in Devs /\ GptDevice(disks[k].bio)
                     /\ disks[k] = Whole(disks[k].bio) /\ disks[k].bio < i'
          BY <2>3, <4>2, <4>3, <1>0, <2>4 DEF EntriesCoherent
        <4>5. \A k, l \in 1 .. ndisk : k < l => disks'[k].bio < disks'[l].bio
          BY <4>4, <1>0 DEF EntriesCoherent
        <4>6. ndisk < i'
          BY <4>2, <1>0, <2>4 DEF EntriesCoherent
        <4> QED
          BY <4>1, <4>4, <4>5, <4>6 DEF EntriesCoherent, Devs, GptDevice
      <3> QED
        BY <3>1, <3>2
    <2> QED
      BY <2>5, <2>6
  <1>5. ASSUME NEW step \in {"bio", "dio", "header", "allocate", "partitions"}, DeviceFails(step)
        PROVE  CacheOK'
    <2>1. step \in Steps
      BY DEF Steps
    <2>2. i \in Devs /\ pc = "scan" /\ disks' = [disks EXCEPT ![ndisk + 1] = Filled(@, i, step)]
      BY <1>5 DEF DeviceFails
    <2>3. /\ disks' \in [Devs -> Entries]
          /\ \A k \in 1 .. ndisk : disks'[k] = disks[k]
          /\ disks' # << >>
      BY <2>1, <2>2, SlotType
    <2>4. i' \in 1 .. Len(devices) + 1 /\ i' = i + 1
      BY <1>5, <2>2, <1>0 DEF DeviceFails, NextOfFailed, TypeOK
    <2>5. ndisk' = ndisk /\ devices' = devices /\ faults' \in 0 .. MaxFaults
      BY <1>5, FaultBound DEF DeviceFails
    <2>6. TypeOK'
      BY <1>5, <2>2, <2>3, <2>4, <2>5 DEF DeviceFails, TypeOK, Entries, Devs
    <2>7. EntriesCoherent'
      <3>1. \A k \in 1 .. ndisk : disks[k].bio < i'
        BY <1>0, <2>4 DEF EntriesCoherent
      <3>2. ndisk < i'
        BY <1>0, <2>4 DEF EntriesCoherent
      <3> QED
        BY <2>3, <2>5, <3>1, <3>2 DEF EntriesCoherent, Devs, GptDevice
    <2> QED
      BY <2>6, <2>7
  <1>6. CASE CacheDone
    BY <1>6 DEF CacheDone, TypeOK, EntriesCoherent, Devs, GptDevice
  <1>7. CASE gpt_get_partition_by_label
    BY <1>7, AnswerKeeps DEF gpt_get_partition_by_label, Answer, TypeOK
  <1>8. CASE gpt_list_partition
    BY <1>8, AnswerKeeps DEF gpt_list_partition, Answer, TypeOK
  <1>9. CASE ListFails
    BY <1>9, FaultBound, AnswerKeeps DEF ListFails, Answer
  <1> QED
    BY <1>1, <1>2, <1>3, <1>4, <1>5, <1>6, <1>7, <1>8, <1>9 DEF GptStep

\* So does each step of the application, which only asks.
LEMMA AppStepKeeps == ASSUME CacheOK, AppStep PROVE CacheOK'
  <1>1. ASSUME UNCHANGED gptVars PROVE CacheOK'
    BY <1>1 DEF gptVars, CacheOK, TypeOK, EntriesCoherent, Devs, GptDevice
  <1>2. ASSUME Fault, UNCHANGED <<devices, disks, ndisk, npart, i, pc, call, answer, failed>>
        PROVE  CacheOK'
    BY <1>2, FaultBound DEF CacheOK, TypeOK, EntriesCoherent, Devs, GptDevice
  <1>3. CASE NoLoadedImage \/ FileFails
    BY <1>2, <1>3 DEF NoLoadedImage, FileFails
  <1>4. CASE BootFile \/ CommandDone \/ publish_partsize \/ SessionEnds
    BY <1>1, <1>4 DEF BootFile, CommandDone, publish_partsize, SessionEnds
  <1>5. ASSUME NEW argc, Usage(argc) \/ WildPointer(argc) \/ \E cmd \in Commands \cup {"unknown"} : BadCommand(argc, cmd)
        PROVE  CacheOK'
    BY <1>1, <1>5 DEF Usage, WildPointer, BadCommand
  <1>6. ASSUME NEW label \in Labels, Request(label) \/ \E cmd \in Lookups : RunLookup(cmd, label)
        PROVE  CacheOK'
    BY <1>6, AskKeeps DEF Request, RunLookup
  <1>7. CASE fastboot_start
    BY <1>7, AskKeeps DEF fastboot_start
  <1> QED
    BY <1>3, <1>4, <1>5, <1>6, <1>7 DEF AppStep

\* The cache that gpt_cache_partition fills is coherent for any platform and
\* any failing calls: each entry that counts has the block device, the header
\* and the partitions of one and the same GPT disk, in the order of the
\* devices, whatever earlier devices left in its slot.
THEOREM CacheCoherent == Spec => []CacheOK
  <1>1. CacheOK /\ [Next]_vars => CacheOK'
    <2> SUFFICES ASSUME CacheOK, [Next]_vars PROVE CacheOK'
      OBVIOUS
    <2>1. CASE UNCHANGED vars
      BY <2>1 DEF vars, gptVars, CacheOK, TypeOK, EntriesCoherent, Devs, GptDevice
    <2>2. CASE Terminated
      BY <2>1, <2>2 DEF Terminated
    <2> QED
      BY <2>1, <2>2, GptStepKeeps, AppStepKeeps DEF Next
  <1> QED
    BY CacheInit, <1>1, PTL DEF Spec

-----------------------------------------------------------------------------
(***************************************************************************)
(* Loops.                                                                  *)
(***************************************************************************)
Less == {p \in Nat \X Nat : p[1] < p[2]}

LEMMA LessWellFounded == IsWellFoundedOn(Less, Nat)
  BY NatLessThanWellFounded DEF OpToRel, Less

\* A set of numbers that holds 0 and every successor holds all of them.
LEMMA SetInduction ==
  ASSUME NEW S \in SUBSET Nat, 0 \in S, \A n \in S : n + 1 \in S
  PROVE  S = Nat
  <1> SUFFICES ASSUME Nat \ S # {} PROVE FALSE
    OBVIOUS
  <1>1. PICK x \in Nat \ S : \A y \in Nat \ S : ~ (<<y, x>> \in Less)
    BY LessWellFounded, WFMin
  <1>2. x # 0 /\ x - 1 \in Nat /\ (x - 1) + 1 = x
    BY <1>1
  <1>3. x - 1 \in S
    <2>1. <<x - 1, x>> \in Less
      BY <1>2 DEF Less
    <2> QED
      BY <1>1, <1>2, <2>1
  <1> QED
    BY <1>1, <1>2, <1>3

\* A loop of n turns over states of S, the k-th of which does step[k].
IsLoop(f, base, step, n) ==
    f = [k \in 0 .. n |-> IF k = 0 THEN base ELSE step[k][f[k - 1]]]

LEMMA LoopExists ==
  ASSUME NEW S, NEW base \in S, NEW n \in Nat, NEW step \in [1 .. n -> [S -> S]]
  PROVE  \E f \in [0 .. n -> S] : IsLoop(f, base, step, n)
  <1> DEFINE T == {m \in Nat : m <= n => \E f \in [0 .. m -> S] : IsLoop(f, base, step, m)}
  <1>1. 0 \in T
    <2> DEFINE f == [k \in 0 .. 0 |-> base]
    <2>1. f \in [0 .. 0 -> S] /\ IsLoop(f, base, step, 0)
      BY DEF IsLoop
    <2> QED
      BY <2>1
  <1>2. ASSUME NEW m \in T PROVE m + 1 \in T
    <2> SUFFICES ASSUME m + 1 <= n PROVE \E f \in [0 .. m + 1 -> S] : IsLoop(f, base, step, m + 1)
      <3>1. m \in Nat /\ m + 1 \in Nat
        OBVIOUS
      <3> QED
        BY <3>1
    <2>1. PICK g \in [0 .. m -> S] : IsLoop(g, base, step, m)
      OBVIOUS
    <2> DEFINE f == [k \in 0 .. m + 1 |-> IF k = m + 1 THEN step[m + 1][g[m]] ELSE g[k]]
    <2>2. m \in Nat /\ m + 1 \in 1 .. n /\ g[m] \in S
      OBVIOUS
    <2>3. step[m + 1] \in [S -> S] /\ step[m + 1][g[m]] \in S
      BY <2>2
    <2>4. f \in [0 .. m + 1 -> S]
      BY <2>3
    <2>5. ASSUME NEW k \in 0 .. m + 1
          PROVE  f[k] = IF k = 0 THEN base ELSE step[k][f[k - 1]]
      <3>1. CASE k = m + 1
        <4>1. k # 0 /\ k - 1 = m /\ m \in 0 .. m + 1 /\ m # m + 1
          BY <2>2, <3>1
        <4>2. f[k - 1] = g[m]
          BY <4>1
        <4> QED
          BY <3>1, <4>1, <4>2
      <3>2. CASE k \in 0 .. m
        <4>1. g[k] = IF k = 0 THEN base ELSE step[k][g[k - 1]]
          BY <2>1, <3>2 DEF IsLoop
        <4>2. k # m + 1 /\ (k # 0 => k - 1 \in 0 .. m + 1 /\ k - 1 # m + 1)
          BY <2>2, <3>2
        <4> QED
          BY <4>1, <4>2
      <3> QED
        BY <2>2, <3>1, <3>2
    <2> HIDE DEF f
    <2>6. IsLoop(f, base, step, m + 1)
      BY <2>4, <2>5 DEF IsLoop
    <2> QED
      BY <2>4, <2>6
  <1> HIDE DEF T
  <1>3. T = Nat
    <2>1. T \subseteq Nat
      BY DEF T
    <2> QED
      BY <1>1, <1>2, <2>1, SetInduction
  <1>4. n \in T
    BY <1>3
  <1> QED
    BY <1>4 DEF T

-----------------------------------------------------------------------------
(***************************************************************************)
(* The list of gpt_list_partition: its two loops, and what they give.      *)
(***************************************************************************)
Answers == Nat \X Nat

\* The entries that slot k contributes to the list, and those of slots up to k.
SlotUpTo(k, p) == {<<disks[k].bio, q>> : q \in {q \in 1 .. p : Listable(<<k, q>>)}}
SlotNamed(k) == SlotUpTo(k, NumEntries(disks[k].gpt_hd))
NamedUpTo(k) == UNION {SlotNamed(j) : j \in 1 .. k}

\* A slot that counts holds the disk, the header and the partitions of one device.
LEMMA SlotIsWhole ==
  ASSUME CacheOK, NEW k \in 1 .. ndisk
  PROVE  /\ disks[k].bio \in Devs /\ disks[k].bio \in Nat
         /\ disks[k].gpt_hd = disks[k].bio /\ disks[k].partitions = disks[k].bio
         /\ NumEntries(disks[k].gpt_hd) \in Nat
         /\ GptDevice(disks[k].bio) /\ disks[k].bio < i
  <1>1. disks[k] = Whole(disks[k].bio) /\ disks[k].bio \in Devs
    BY DEF CacheOK, EntriesCoherent
  <1>2. disks[k].gpt_hd = disks[k].bio /\ disks[k].partitions = disks[k].bio
    BY <1>1 DEF Whole
  <1>3. NumEntries(disks[k].bio) \in Nat /\ disks[k].bio \in Nat
    <2>1. devices \in DeviceLists
      BY DEF CacheOK, TypeOK
    <2>2. Len(devices) \in Nat /\ Devs = 1 .. Len(devices) /\ \A h \in Devs : NumEntries(h) \in Nat
      BY <2>1, DeviceTypes
    <2> QED
      BY <1>1, <2>2
  <1> QED
    BY <1>1, <1>2, <1>3 DEF CacheOK, EntriesCoherent

\* One entry more: the list, the entries that have been listed, the next one.
ListOne(s, k, p) == IF Listable(<<k, p>>) THEN Append(s, Interface(<<k, p>>)) ELSE s

LEMMA DiskLoop ==
  ASSUME CacheOK, NEW k \in 1 .. ndisk, NEW base \in Seq(Answers)
  PROVE  \E f \in [0 .. NumEntries(disks[k].gpt_hd) -> Seq(Answers)] :
            /\ f[0] = base
            /\ \A p \in 1 .. NumEntries(disks[k].gpt_hd) : f[p] = ListOne(f[p - 1], k, p)
            /\ ListDisk(base, k) = f[NumEntries(disks[k].gpt_hd)]
  <1> DEFINE n == NumEntries(disks[k].gpt_hd)
             step == [p \in 1 .. n |-> [s \in Seq(Answers) |-> ListOne(s, k, p)]]
             Loop(f) == f = [p \in 0 .. n |->
                                IF p = 0 THEN base
                                ELSE IF Listable(<<k, p>>) THEN Append(f[p - 1], Interface(<<k, p>>))
                                ELSE f[p - 1]]
  <1>1. n \in Nat /\ disks[k].bio \in Nat
    BY SlotIsWhole
  <1>2. ASSUME NEW p \in 1 .. n, NEW s \in Seq(Answers) PROVE ListOne(s, k, p) \in Seq(Answers)
    <2>1. Interface(<<k, p>>) = <<disks[k].bio, p>>
      BY DEF Interface
    <2>2. Interface(<<k, p>>) \in Answers
      BY <1>1, <2>1 DEF Answers
    <2>3. Append(s, Interface(<<k, p>>)) \in Seq(Answers)
      BY <2>2
    <2> QED
      BY <2>3 DEF ListOne
  <1>3. step \in [1 .. n -> [Seq(Answers) -> Seq(Answers)]]
    BY <1>2
  <1> HIDE DEF step
  <1>4. PICK f \in [0 .. n -> Seq(Answers)] : IsLoop(f, base, step, n)
    BY <1>1, <1>3, LoopExists
  <1>5. Loop(f)
    <2>1. ASSUME NEW p \in 0 .. n
          PROVE  f[p] = IF p = 0 THEN base ELSE ListOne(f[p - 1], k, p)
      <3>1. CASE p = 0
        BY <1>1, <1>4, <3>1 DEF IsLoop
      <3>2. CASE p # 0
        <4>1. p \in 1 .. n /\ f[p - 1] \in Seq(Answers)
          BY <1>1, <3>2
        <4>2. f[p] = step[p][f[p - 1]]
          BY <1>4, <3>2 DEF IsLoop
        <4> QED
          BY <3>2, <4>1, <4>2 DEF step
      <3> QED
        BY <3>1, <3>2
    <2> QED
      BY <2>1 DEF ListOne
  <1> DEFINE F == CHOOSE g : Loop(g)
  <1>6. ListDisk(base, k) = F[n]
    BY DEF ListDisk
  <1> HIDE DEF Loop
  <1>7. Loop(F)
    BY <1>5, Zenon
  <1> HIDE DEF F
  <1>8. DOMAIN F = 0 .. n /\ F[0] = base
    BY <1>1, <1>7 DEF Loop
  <1>9. ASSUME NEW p \in 1 .. n PROVE F[p] = ListOne(F[p - 1], k, p)
    <2>1. p \in 0 .. n /\ p # 0
      BY <1>1
    <2> QED
      BY <1>7, <2>1 DEF Loop, ListOne
  <1>10. \A p \in 0 .. n : F[p] \in Seq(Answers)
    <2> DEFINE T == {p \in Nat : p <= n => F[p] \in Seq(Answers)}
    <2>1. 0 \in T
      BY <1>8
    <2>2. ASSUME NEW p \in T PROVE p + 1 \in T
      <3>1. p \in Nat /\ (p + 1) - 1 = p
        OBVIOUS
      <3>2. ASSUME p + 1 <= n PROVE F[p + 1] \in Seq(Answers)
        <4>1. p + 1 \in 1 .. n /\ F[p] \in Seq(Answers)
          BY <1>1, <3>1, <3>2
        <4>2. F[p + 1] = ListOne(F[p], k, p + 1)
          BY <1>9, <3>1, <4>1
        <4> QED
          BY <1>2, <4>1, <4>2
      <3> QED
        BY <3>1, <3>2
    <2> HIDE DEF T
    <2>3. T \subseteq Nat
      BY DEF T
    <2>4. T = Nat
      BY <2>1, <2>2, <2>3, SetInduction
    <2> QED
      BY <2>4 DEF T
  <1>11. F \in [0 .. n -> Seq(Answers)]
    <2>1. F = [p \in 0 .. n |-> F[p]]
      BY <1>7 DEF Loop
    <2> QED
      BY <1>10, <2>1
  <1> QED
    BY <1>6, <1>8, <1>9, <1>11

LEMMA ListLoop ==
  ASSUME CacheOK
  PROVE  \E f \in [0 .. ndisk -> Seq(Answers)] :
            /\ f[0] = << >>
            /\ \A k \in 1 .. ndisk : f[k] = ListDisk(f[k - 1], k)
            /\ Listed = f[ndisk]
  <1> DEFINE n == ndisk
             step == [k \in 1 .. n |-> [s \in Seq(Answers) |-> ListDisk(s, k)]]
             Loop(f) == f = [k \in 0 .. n |-> IF k = 0 THEN << >> ELSE ListDisk(f[k - 1], k)]
  <1>1. n \in Nat
    BY DEF CacheOK, TypeOK
  <1>2. ASSUME NEW k \in 1 .. n, NEW s \in Seq(Answers) PROVE ListDisk(s, k) \in Seq(Answers)
    <2>1. NumEntries(disks[k].gpt_hd) \in Nat
      BY SlotIsWhole
    <2> QED
      BY <2>1, DiskLoop
  <1>3. step \in [1 .. n -> [Seq(Answers) -> Seq(Answers)]]
    BY <1>2
  <1> HIDE DEF step
  <1>e. << >> \in Seq(Answers)
    OBVIOUS
  <1>4. PICK f \in [0 .. n -> Seq(Answers)] : IsLoop(f, << >>, step, n)
    BY <1>1, <1>3, <1>e, LoopExists
  <1>5. Loop(f)
    <2>1. ASSUME NEW k \in 0 .. n
          PROVE  f[k] = IF k = 0 THEN << >> ELSE ListDisk(f[k - 1], k)
      <3>1. CASE k = 0
        BY <1>1, <1>4, <3>1 DEF IsLoop
      <3>2. CASE k # 0
        <4>1. k \in 1 .. n /\ f[k - 1] \in Seq(Answers)
          BY <1>1, <3>2
        <4>2. f[k] = step[k][f[k - 1]]
          BY <1>4, <3>2 DEF IsLoop
        <4> QED
          BY <3>2, <4>1, <4>2 DEF step
      <3> QED
        BY <3>1, <3>2
    <2> QED
      BY <2>1
  <1> DEFINE F == CHOOSE g : Loop(g)
  <1>6. Listed = F[n]
    BY DEF Listed
  <1> HIDE DEF Loop
  <1>7. Loop(F)
    BY <1>5, Zenon
  <1> HIDE DEF F
  <1>8. DOMAIN F = 0 .. n /\ F[0] = << >>
    BY <1>1, <1>7 DEF Loop
  <1>9. ASSUME NEW k \in 1 .. n PROVE F[k] = ListDisk(F[k - 1], k)
    BY <1>1, <1>7 DEF Loop
  <1>10. \A k \in 0 .. n : F[k] \in Seq(Answers)
    <2> DEFINE T == {k \in Nat : k <= n => F[k] \in Seq(Answers)}
    <2>1. 0 \in T
      BY <1>8, <1>e
    <2>2. ASSUME NEW k \in T PROVE k + 1 \in T
      <3>1. k \in Nat /\ (k + 1) - 1 = k
        OBVIOUS
      <3>2. ASSUME k + 1 <= n PROVE F[k + 1] \in Seq(Answers)
        <4>1. k + 1 \in 1 .. n /\ F[k] \in Seq(Answers)
          BY <1>1, <3>1, <3>2
        <4>2. F[k + 1] = ListDisk(F[k], k + 1)
          BY <1>9, <3>1, <4>1
        <4> QED
          BY <1>2, <4>1, <4>2
      <3> QED
        BY <3>1, <3>2
    <2> HIDE DEF T
    <2>3. T \subseteq Nat
      BY DEF T
    <2>4. T = Nat
      BY <2>1, <2>2, <2>3, SetInduction
    <2> QED
      BY <2>4 DEF T
  <1>11. F \in [0 .. n -> Seq(Answers)]
    <2>1. F = [k \in 0 .. n |-> F[k]]
      BY <1>7 DEF Loop
    <2> QED
      BY <1>10, <2>1
  <1> QED
    BY <1>6, <1>8, <1>9, <1>11

\* An entry that follows all that a list holds extends it.
LEMMA AppendLists ==
  ASSUME NEW S \in SUBSET Answers, NEW s \in Seq(Answers), Table!Lists(s, S), NEW e \in Answers,
         \A f \in S : Table!Precedes(f, e)
  PROVE  Table!Lists(Append(s, e), S \cup {e})
  <1> DEFINE a == Append(s, e)
             n == Len(s)
  <1>1. /\ s \in Seq(S) /\ S = {s[k] : k \in DOMAIN s}
        /\ \A j, k \in DOMAIN s : j < k => Table!Precedes(s[j], s[k])
    BY DEF Table!Lists
  <1>2. n \in Nat /\ DOMAIN s = 1 .. n /\ s \in Seq(S \cup {e})
    BY <1>1
  <1>3. /\ a \in Seq(S \cup {e}) /\ Len(a) = n + 1 /\ DOMAIN a = 1 .. n + 1
        /\ a[n + 1] = e /\ \A k \in 1 .. n : a[k] = s[k]
    BY <1>2
  <1> HIDE DEF a, n
  <1>4. S \cup {e} = {a[k] : k \in DOMAIN a}
    <2>1. ASSUME NEW x \in S \cup {e} PROVE \E k \in DOMAIN a : a[k] = x
      <3>1. CASE x = e
        BY <1>2, <1>3, <3>1
      <3>2. CASE x \in S
        <4>1. PICK k \in 1 .. n : s[k] = x
          BY <1>1, <1>2, <3>2
        <4> QED
          BY <1>2, <1>3, <4>1
      <3> QED
        BY <3>1, <3>2
    <2>2. \A k \in DOMAIN a : a[k] \in S \cup {e}
      BY <1>3
    <2> QED
      BY <2>1, <2>2
  <1>5. ASSUME NEW j \in DOMAIN a, NEW k \in DOMAIN a, j < k PROVE Table!Precedes(a[j], a[k])
    <2>1. j \in 1 .. n /\ a[j] = s[j] /\ s[j] \in S
      BY <1>1, <1>2, <1>3, <1>5
    <2>2. CASE k = n + 1
      BY <1>3, <2>1, <2>2
    <2>3. CASE k \in 1 .. n
      BY <1>1, <1>2, <1>3, <1>5, <2>1, <2>3
    <2> QED
      BY <1>2, <1>3, <2>2, <2>3
  <1> QED
    BY <1>3, <1>4, <1>5 DEF Table!Lists, a

\* The inner loop appends what its slot contributes, one entry at most for
\* each that it visits.
LEMMA DiskListed ==
  ASSUME CacheOK, NEW k \in 1 .. ndisk, NEW S \in SUBSET Answers,
         NEW base \in Seq(Answers), Table!Lists(base, S), \A e \in S : e[1] < disks[k].bio
  PROVE  /\ Table!Lists(ListDisk(base, k), S \cup SlotNamed(k))
         /\ Len(ListDisk(base, k)) <= Len(base) + NumEntries(disks[k].gpt_hd)
  <1> DEFINE n == NumEntries(disks[k].gpt_hd)
             h == disks[k].bio
  <1>1. n \in Nat /\ h \in Nat
    BY SlotIsWhole
  <1>2. PICK f \in [0 .. n -> Seq(Answers)] :
            /\ f[0] = base
            /\ \A p \in 1 .. n : f[p] = ListOne(f[p - 1], k, p)
            /\ ListDisk(base, k) = f[n]
    BY DiskLoop
  <1> DEFINE T == {p \in Nat : p <= n => /\ Table!Lists(f[p], S \cup SlotUpTo(k, p))
                                          /\ Len(f[p]) <= Len(base) + p}
  <1>3. 0 \in T
    <2>1. SlotUpTo(k, 0) = {}
      BY DEF SlotUpTo
    <2>2. S \cup SlotUpTo(k, 0) = S
      BY <2>1
    <2>3. Len(f[0]) <= Len(base) + 0
      BY <1>2
    <2> QED
      BY <1>2, <2>2, <2>3
  <1>4. ASSUME NEW p \in T PROVE p + 1 \in T
    <2>1. p \in Nat
      OBVIOUS
    <2> SUFFICES ASSUME p + 1 <= n
                 PROVE  /\ Table!Lists(f[p + 1], S \cup SlotUpTo(k, p + 1))
                        /\ Len(f[p + 1]) <= Len(base) + (p + 1)
      BY <2>1
    <2>2. p + 1 \in 1 .. n /\ (p + 1) - 1 = p /\ p \in 0 .. n
      BY <1>1, <2>1
    <2>3. Table!Lists(f[p], S \cup SlotUpTo(k, p)) /\ Len(f[p]) <= Len(base) + p
      BY <1>1, <2>1
    <2>4. f[p + 1] = ListOne(f[p], k, p + 1) /\ f[p] \in Seq(Answers)
      BY <1>2, <2>2
    <2>5. Len(f[p]) \in Nat /\ Len(base) \in Nat
      BY <2>4
    <2>6. CASE Listable(<<k, p + 1>>)
      <3>1. f[p + 1] = Append(f[p], <<h, p + 1>>)
        BY <2>4, <2>6 DEF ListOne, Interface
      <3>2. SlotUpTo(k, p + 1) = SlotUpTo(k, p) \cup {<<h, p + 1>>}
        <4>1. 1 .. p + 1 = (1 .. p) \cup {p + 1}
          BY <2>1
        <4> QED
          BY <2>6, <4>1 DEF SlotUpTo
      <3>3. S \cup SlotUpTo(k, p) \in SUBSET Answers
        <4>1. ASSUME NEW e \in SlotUpTo(k, p) PROVE e \in Answers
          <5>1. PICK q \in 1 .. p : e = <<h, q>>
            BY DEF SlotUpTo
          <5> QED
            BY <1>1, <2>1, <5>1 DEF Answers
        <4> QED
          BY <4>1
      <3>4. ASSUME NEW e \in S \cup SlotUpTo(k, p) PROVE Table!Precedes(e, <<h, p + 1>>)
        <4>1. CASE e \in S
          BY <4>1 DEF Table!Precedes
        <4>2. CASE e \in SlotUpTo(k, p)
          <5>1. PICK q \in 1 .. p : e = <<h, q>>
            BY <4>2 DEF SlotUpTo
          <5> QED
            BY <1>1, <2>1, <5>1 DEF Table!Precedes
        <4> QED
          BY <4>1, <4>2
      <3>5. <<h, p + 1>> \in Answers
        BY <1>1, <2>1 DEF Answers
      <3>6. Table!Lists(f[p + 1], (S \cup SlotUpTo(k, p)) \cup {<<h, p + 1>>})
        BY <2>3, <2>4, <3>1, <3>3, <3>4, <3>5, AppendLists
      <3>7. Len(f[p + 1]) = Len(f[p]) + 1
        BY <2>4, <3>1, <3>5
      <3>8. (S \cup SlotUpTo(k, p)) \cup {<<h, p + 1>>} = S \cup SlotUpTo(k, p + 1)
        BY <3>2
      <3>9. Len(f[p + 1]) <= Len(base) + (p + 1)
        BY <2>1, <2>3, <2>5, <3>7
      <3> HIDE DEF T
      <3> QED
        BY <3>6, <3>8, <3>9
    <2>7. CASE ~Listable(<<k, p + 1>>)
      <3>1. f[p + 1] = f[p]
        BY <2>4, <2>7 DEF ListOne
      <3>2. 1 .. p + 1 = (1 .. p) \cup {p + 1}
        BY <2>1
      <3>3. SlotUpTo(k, p + 1) = SlotUpTo(k, p)
        BY <2>7, <3>2 DEF SlotUpTo
      <3>4. Len(f[p + 1]) <= Len(base) + (p + 1)
        BY <2>1, <2>3, <2>5, <3>1
      <3> HIDE DEF T
      <3> QED
        BY <2>3, <3>1, <3>3, <3>4
    <2> QED
      BY <2>6, <2>7
  <1>5. n \in T
    <2> HIDE DEF T
    <2>1. T \subseteq Nat
      BY DEF T
    <2>2. T = Nat
      BY <1>3, <1>4, <2>1, SetInduction
    <2> QED
      BY <1>1, <2>2
  <1>6. Table!Lists(f[n], S \cup SlotUpTo(k, n)) /\ Len(f[n]) <= Len(base) + n
    BY <1>1, <1>5
  <1>7. SlotUpTo(k, n) = SlotNamed(k)
    BY DEF SlotNamed
  <1> QED
    BY <1>2, <1>6, <1>7

\* s sums the entries of the slots, and npart is the sum of all.
IsEntrySum(s) ==
    /\ s[0] = 0
    /\ \A k \in 1 .. ndisk : s[k] = s[k - 1] + NumEntries(disks[k].gpt_hd)

NpartInv == \E s \in [0 .. ndisk -> Nat] : IsEntrySum(s) /\ npart = s[ndisk]

LEMMA SlotAnswers ==
  ASSUME CacheOK, NEW k \in 1 .. ndisk
  PROVE  SlotNamed(k) \subseteq Answers
  <1> SUFFICES ASSUME NEW e \in SlotNamed(k) PROVE e \in Answers
    OBVIOUS
  <1>1. PICK q \in 1 .. NumEntries(disks[k].gpt_hd) : e = <<disks[k].bio, q>>
    BY DEF SlotNamed, SlotUpTo
  <1>2. disks[k].bio \in Nat /\ NumEntries(disks[k].gpt_hd) \in Nat
    BY SlotIsWhole
  <1> QED
    BY <1>1, <1>2 DEF Answers

\* The list holds what all slots contribute, in order, and fits in npart entries.
LEMMA AllListed ==
  ASSUME CacheOK, NpartInv
  PROVE  Table!Lists(Listed, NamedUpTo(ndisk)) /\ Len(Listed) <= npart
  <1>1. PICK f \in [0 .. ndisk -> Seq(Answers)] :
            /\ f[0] = << >>
            /\ \A k \in 1 .. ndisk : f[k] = ListDisk(f[k - 1], k)
            /\ Listed = f[ndisk]
    BY ListLoop
  <1>2. PICK s \in [0 .. ndisk -> Nat] : IsEntrySum(s) /\ npart = s[ndisk]
    BY DEF NpartInv
  <1>3. ndisk \in Nat
    BY DEF CacheOK, TypeOK
  <1> DEFINE T == {k \in Nat : k <= ndisk => /\ Table!Lists(f[k], NamedUpTo(k))
                                              /\ Len(f[k]) <= s[k]}
  <1>4. 0 \in T
    <2>1. NamedUpTo(0) = {}
      BY DEF NamedUpTo
    <2>2. Table!Lists(<< >>, {})
      BY DEF Table!Lists
    <2>3. Len(f[0]) <= s[0]
      BY <1>1, <1>2, <1>3 DEF IsEntrySum
    <2> QED
      BY <1>1, <2>1, <2>2, <2>3
  <1>5. ASSUME NEW k \in T PROVE k + 1 \in T
    <2>1. k \in Nat
      OBVIOUS
    <2> SUFFICES ASSUME k + 1 <= ndisk
                 PROVE  Table!Lists(f[k + 1], NamedUpTo(k + 1)) /\ Len(f[k + 1]) <= s[k + 1]
      BY <2>1
    <2>2. k + 1 \in 1 .. ndisk /\ (k + 1) - 1 = k /\ k \in 0 .. ndisk
      BY <1>3, <2>1
    <2>3. Table!Lists(f[k], NamedUpTo(k)) /\ Len(f[k]) <= s[k] /\ f[k] \in Seq(Answers)
      BY <1>3, <2>1, <2>2
    <2>4. f[k + 1] = ListDisk(f[k], k + 1)
      BY <1>1, <2>2
    <2>5. s[k + 1] = s[k] + NumEntries(disks[k + 1].gpt_hd) /\ s[k] \in Nat
      BY <1>2, <2>2 DEF IsEntrySum
    <2>6. NumEntries(disks[k + 1].gpt_hd) \in Nat
      BY <2>2, SlotIsWhole
    <2>7. \A j \in 1 .. k : j \in 1 .. ndisk /\ disks[j].bio < disks[k + 1].bio
      BY <1>3, <2>1, <2>2 DEF CacheOK, EntriesCoherent
    <2>8. NamedUpTo(k) \in SUBSET Answers
      BY <2>7, SlotAnswers DEF NamedUpTo
    <2>9. \A e \in NamedUpTo(k) : e[1] < disks[k + 1].bio
      <3> SUFFICES ASSUME NEW j \in 1 .. k, NEW e \in SlotNamed(j) PROVE e[1] < disks[k + 1].bio
        BY DEF NamedUpTo
      <3>1. PICK q \in 1 .. NumEntries(disks[j].gpt_hd) : e = <<disks[j].bio, q>>
        BY DEF SlotNamed, SlotUpTo
      <3> QED
        BY <2>7, <3>1
    <2>10. /\ Table!Lists(ListDisk(f[k], k + 1), NamedUpTo(k) \cup SlotNamed(k + 1))
           /\ Len(ListDisk(f[k], k + 1)) <= Len(f[k]) + NumEntries(disks[k + 1].gpt_hd)
      BY <2>2, <2>3, <2>8, <2>9, DiskListed
    <2>11. NamedUpTo(k) \cup SlotNamed(k + 1) = NamedUpTo(k + 1)
      <3>1. 1 .. k + 1 = (1 .. k) \cup {k + 1}
        BY <2>1
      <3> QED
        BY <3>1 DEF NamedUpTo
    <2>12. f[k + 1] \in Seq(Answers)
      BY <2>2
    <2>13. Len(f[k]) \in Nat /\ Len(f[k + 1]) \in Nat
      BY <2>3, <2>12
    <2>14. Len(f[k + 1]) <= s[k + 1]
      BY <2>3, <2>4, <2>5, <2>6, <2>10, <2>13
    <2> QED
      BY <2>4, <2>10, <2>11, <2>14
  <1>6. ndisk \in T
    <2> HIDE DEF T
    <2>1. T \subseteq Nat
      BY DEF T
    <2>2. T = Nat
      BY <1>4, <1>5, <2>1, SetInduction
    <2> QED
      BY <1>3, <2>2
  <1> QED
    BY <1>1, <1>2, <1>3, <1>6

-----------------------------------------------------------------------------
(***************************************************************************)
(* The table: what the cache holds is the table that gpt.h promises.       *)
(***************************************************************************)
\* What the loop over the devices has found so far.
TableInv ==
    /\ disks = << >> => failed = {}
    /\ disks # << >> => /\ \A h \in failed : h < i
                        /\ Cached = {h \in Devs : GptDevice(h) /\ h \notin failed /\ h < i}
    /\ Complete => i \notin Devs

\* A lookup that has been answered: the first partition of that name.
Right(label) ==
    \/ Table!With(label) = {} /\ answer.status = "not_found"
    \/ \E e \in Table!With(label) :
          /\ Table!IsFirst(e, Table!With(label))
          /\ answer.status = "ok" /\ answer.parts = <<e>>

\* What the application knows of its table: the list that it publishes, the
\* answer to a request once that list was there.
AppInv ==
    /\ app = "publish" => call = "list" /\ (pc = "idle" => answer.for = "list")
    /\ answer.for = "list" /\ answer.status = "ok" =>
          Complete /\ Table!Lists(answer.parts, Table!Named)
    /\ listed = "yes" => Complete /\ Table!Lists(published, Table!Named)
    /\ app = "session" /\ listed = "yes" /\ answer.for \in Labels => Right(answer.for)

AllInv == CacheOK /\ NpartInv /\ TableInv /\ AppInv

\* A step that leaves the cache alone leaves the table complete or not.
LEMMA TableKept ==
  ASSUME NpartInv, TableInv, UNCHANGED <<devices, disks, ndisk, npart, i, failed>>,
         Complete' => Complete \/ i \notin Devs
  PROVE  NpartInv' /\ TableInv'
  <1>1. NpartInv'
    <2>1. PICK s \in [0 .. ndisk -> Nat] : IsEntrySum(s) /\ npart = s[ndisk]
      BY DEF NpartInv
    <2>2. IsEntrySum(s)'
      BY <2>1 DEF IsEntrySum, NumEntries
    <2> QED
      BY <2>1, <2>2 DEF NpartInv
  <1>2. Cached' = Cached
    BY DEF Cached
  <1>3. TableInv'
    BY <1>2 DEF TableInv, Devs, GptDevice
  <1> QED
    BY <1>1, <1>3

LEMMA DeviceEnds ==
  ASSUME devices \in DeviceLists, NEW h \in Devs
  PROVE  Ends(h) = "done" <=> GptDevice(h)
  <1> DEFINE D == [logical : BOOLEAN, gpt : BOOLEAN, parts : Seq([type : Types, name : Labels])]
  <1>1. devices \in Seq(D) /\ \A d \in D : d.logical \in BOOLEAN /\ d.gpt \in BOOLEAN
    BY GptAssumption
  <1> HIDE DEF D
  <1>2. devices[h].logical \in BOOLEAN /\ devices[h].gpt \in BOOLEAN
    BY <1>1 DEF Devs
  <1> QED
    BY <1>2 DEF Ends, GptDevice

\* Each step of gpt.c keeps the sum of the entries and the set of the disks.
LEMMA TableStep == ASSUME CacheOK, NpartInv, TableInv, GptStep PROVE NpartInv' /\ TableInv'
  <1>0. /\ devices \in DeviceLists /\ Len(devices) \in Nat /\ Devs = 1 .. Len(devices)
        /\ ndisk \in Nat /\ npart \in Nat /\ i \in Nat /\ i >= 1
        /\ \A h \in Devs : NumEntries(h) \in Nat
    BY DeviceTypes DEF CacheOK, TypeOK
  <1>1. CASE CacheFails \/ NoBlockIo
    BY <1>1, TableKept DEF CacheFails, NoBlockIo, Answer, Complete, CacheOK, TypeOK
  <1>2. CASE CacheDone
    BY <1>2, TableKept DEF CacheDone
  <1>3. CASE gpt_get_partition_by_label \/ gpt_list_partition \/ ListFails
    <2>1. UNCHANGED <<devices, disks, ndisk, npart, i, failed>> /\ pc = "search"
      BY <1>3 DEF gpt_get_partition_by_label, gpt_list_partition, ListFails
    <2> QED
      BY <2>1, TableKept DEF Complete
  <1>4. CASE gpt_cache_partition
    <2>1. /\ disks = << >> /\ ndisk = 0 /\ npart = 0 /\ failed = {}
          /\ UNCHANGED <<devices, ndisk, npart, failed>> /\ i' = 1 /\ pc' = "scan"
          /\ disks' # << >>
      BY <1>4, GptStepKeeps DEF gpt_cache_partition, CacheOK, TypeOK, TableInv, GptStep
    <2>2. NpartInv'
      <3>1. PICK s \in [0 .. ndisk -> Nat] : IsEntrySum(s) /\ npart = s[ndisk]
        BY DEF NpartInv
      <3>2. IsEntrySum(s)'
        BY <2>1, <3>1 DEF IsEntrySum
      <3> QED
        BY <2>1, <3>1, <3>2 DEF NpartInv
    <2>3. Cached' = {}
      BY <2>1 DEF Cached
    <2>4. ~Complete'
      BY <2>1 DEF Complete
    <2> QED
      BY <1>0, <2>1, <2>2, <2>3, <2>4 DEF TableInv, Devs
  <1>5. CASE NextDevice
    <2>1. i \in Devs /\ pc = "scan" /\ disks' = [disks EXCEPT ![ndisk + 1] = Filled(@, i, Ends(i))]
      BY <1>5 DEF NextDevice
    <2>2. Ends(i) \in Steps
      BY DEF Ends, Steps
    <2>3. /\ disks'[ndisk + 1] = Filled(disks[ndisk + 1], i, Ends(i))
          /\ \A k \in 1 .. ndisk : disks'[k] = disks[k]
          /\ disks # << >> /\ disks' # << >>
      BY <2>1, <2>2, SlotType DEF CacheOK, TypeOK
    <2>4. UNCHANGED <<devices, failed, pc>> /\ i' = i + 1 /\ ~Complete'
      BY <1>5 DEF NextDevice, Complete
    <2>5. Ends(i) = "done" <=> GptDevice(i)
      BY <1>0, <2>1, DeviceEnds
    <2>6. PICK s \in [0 .. ndisk -> Nat] : IsEntrySum(s) /\ npart = s[ndisk]
      BY DEF NpartInv
    <2>7. CASE Ends(i) = "done"
      <3>1. ndisk' = ndisk + 1 /\ npart' = npart + NumEntries(i)
        BY <1>5, <2>7 DEF NextDevice, AddPartitions
      <3>2. disks'[ndisk + 1].bio = i /\ disks'[ndisk + 1].gpt_hd = i
        BY <2>3, <2>7 DEF Filled
      <3>3. NpartInv'
        <4>1. PICK t \in [0 .. ndisk + 1 -> Nat] :
                 t = [k \in 0 .. ndisk + 1 |-> IF k = ndisk + 1 THEN npart + NumEntries(i) ELSE s[k]]
          <5>1. npart + NumEntries(i) \in Nat
            BY <1>0, <2>1
          <5>2. \A k \in 0 .. ndisk + 1 : k # ndisk + 1 => s[k] \in Nat
            BY <1>0
          <5> QED
            BY <5>1, <5>2
        <4>2. t[0] = 0 /\ t[ndisk'] = npart' /\ t[ndisk] = npart
          BY <1>0, <2>6, <3>1, <4>1 DEF IsEntrySum
        <4>3. ASSUME NEW k \in 1 .. ndisk'
              PROVE  t[k] = t[k - 1] + NumEntries(disks'[k].gpt_hd)
          <5>1. CASE k = ndisk + 1
            <6>1. t[k] = npart' /\ k - 1 = ndisk
              BY <1>0, <3>1, <4>1, <5>1
            <6> QED
              BY <3>1, <3>2, <4>2, <5>1, <6>1
          <5>2. CASE k \in 1 .. ndisk
            <6>1. s[k] = s[k - 1] + NumEntries(disks[k].gpt_hd)
              BY <2>6, <5>2 DEF IsEntrySum
            <6>2. t[k] = s[k] /\ t[k - 1] = s[k - 1]
              BY <1>0, <4>1, <5>2
            <6> QED
              BY <2>3, <5>2, <6>1, <6>2
          <5> QED
            BY <1>0, <3>1, <5>1, <5>2
        <4>4. IsEntrySum(t)'
          BY <2>4, <4>2, <4>3 DEF IsEntrySum, NumEntries
        <4> QED
          BY <3>1, <4>1, <4>2, <4>4 DEF NpartInv
      <3>4. Cached' = Cached \cup {i}
        <4>1. 1 .. ndisk' = (1 .. ndisk) \cup {ndisk + 1}
          BY <1>0, <3>1
        <4> QED
          BY <2>3, <3>2, <4>1 DEF Cached
      <3>5. \A h \in failed' : h < i'
        BY <1>0, <2>3, <2>4 DEF TableInv, CacheOK, TypeOK
      <3>6. Cached' = {h \in Devs : GptDevice(h) /\ h \notin failed /\ h < i + 1}
        <4>1. i \notin failed
          BY <1>0, <2>3 DEF TableInv
        <4>2. \A h \in Devs : h < i + 1 <=> h < i \/ h = i
          BY <1>0
        <4> QED
          BY <2>1, <2>3, <2>5, <2>7, <3>4, <4>1, <4>2 DEF TableInv
      <3> QED
        BY <2>3, <2>4, <3>3, <3>5, <3>6 DEF TableInv, Devs, GptDevice
    <2>8. CASE Ends(i) # "done"
      <3>1. ndisk' = ndisk /\ npart' = npart
        BY <1>5, <2>8 DEF NextDevice
      <3>2. NpartInv'
        <4>1. IsEntrySum(s)'
          BY <2>3, <2>4, <2>6, <3>1 DEF IsEntrySum, NumEntries
        <4> QED
          BY <2>6, <3>1, <4>1 DEF NpartInv
      <3>3. Cached' = Cached
        BY <2>3, <3>1 DEF Cached
      <3>4. \A h \in failed' : h < i'
        BY <1>0, <2>3, <2>4 DEF TableInv, CacheOK, TypeOK
      <3>5. Cached' = {h \in Devs : GptDevice(h) /\ h \notin failed /\ h < i + 1}
        <4>1. \A h \in Devs : h < i + 1 <=> h < i \/ h = i
          BY <1>0
        <4> QED
          BY <2>1, <2>3, <2>5, <2>8, <3>3, <4>1 DEF TableInv
      <3> QED
        BY <2>3, <2>4, <3>2, <3>4, <3>5 DEF TableInv, Devs, GptDevice
    <2> QED
      BY <2>7, <2>8
  <1>6. ASSUME NEW step \in {"bio", "dio", "header", "allocate", "partitions"}, DeviceFails(step)
        PROVE  NpartInv' /\ TableInv'
    <2>1. /\ i \in Devs /\ pc = "scan"
          /\ disks' = [disks EXCEPT ![ndisk + 1] = Filled(@, i, step)]
      BY <1>6 DEF DeviceFails
    <2>2. step \in Steps
      BY DEF Steps
    <2>3. (\A k \in 1 .. ndisk : disks'[k] = disks[k]) /\ disks # << >> /\ disks' # << >>
      BY <2>1, <2>2, SlotType DEF CacheOK, TypeOK
    <2>4. /\ UNCHANGED <<devices, ndisk, npart, pc>> /\ i' = i + 1 /\ failed' = failed \cup {i}
          /\ ~Complete'
      BY <1>6 DEF DeviceFails, NextOfFailed, Complete
    <2>5. PICK s \in [0 .. ndisk -> Nat] : IsEntrySum(s) /\ npart = s[ndisk]
      BY DEF NpartInv
    <2>6. NpartInv'
      <3>1. IsEntrySum(s)'
        BY <2>3, <2>4, <2>5 DEF IsEntrySum, NumEntries
      <3> QED
        BY <2>4, <2>5, <3>1 DEF NpartInv
    <2>7. Cached' = Cached
      BY <2>3, <2>4 DEF Cached
    <2>8. \A h \in failed' : h < i'
      BY <1>0, <2>3, <2>4 DEF TableInv, CacheOK, TypeOK
    <2>9. Cached' = {h \in Devs : GptDevice(h) /\ h \notin failed' /\ h < i'}
      <3>1. \A h \in Devs : h < i + 1 <=> h < i \/ h = i
        BY <1>0
      <3> QED
        BY <1>0, <2>1, <2>3, <2>4, <2>7, <3>1 DEF TableInv
    <2> QED
      BY <2>3, <2>4, <2>6, <2>8, <2>9 DEF TableInv, Devs, GptDevice
  <1> QED
    BY <1>1, <1>2, <1>3, <1>4, <1>5, <1>6 DEF GptStep

-----------------------------------------------------------------------------
(***************************************************************************)
(* The answers: those of the cache are those of the table.                 *)
(***************************************************************************)
LEMMA PartsOf ==
  ASSUME devices \in DeviceLists, NEW h \in Devs
  PROVE  DOMAIN devices[h].parts = 1 .. NumEntries(h) /\ NumEntries(h) \in Nat
  <1> DEFINE D == [logical : BOOLEAN, gpt : BOOLEAN, parts : Seq([type : Types, name : Labels])]
  <1>1. devices \in Seq(D)
    BY GptAssumption
  <1>2. ASSUME NEW d \in D PROVE DOMAIN d.parts = 1 .. Len(d.parts) /\ Len(d.parts) \in Nat
    <2>1. d.parts \in Seq([type : Types, name : Labels])
      OBVIOUS
    <2> QED
      BY <2>1, LenProperties
  <1> HIDE DEF D
  <1>3. devices[h] \in D
    BY <1>1 DEF Devs
  <1> QED
    BY <1>2, <1>3 DEF NumEntries

\* An entry of the table is that of a slot of the cache, read from its device.
LEMMA TableParts ==
  ASSUME CacheOK, Complete, NEW e
  PROVE  e \in Table!Parts <=>
            \E k \in 1 .. ndisk : \E p \in 1 .. NumEntries(disks[k].gpt_hd) :
               e = <<disks[k].bio, p>> /\ Part(<<k, p>>).type # Null
  <1>1. devices \in DeviceLists
    BY DEF CacheOK, TypeOK
  <1>2. ASSUME NEW k \in 1 .. ndisk
        PROVE  /\ DOMAIN devices[disks[k].bio].parts = 1 .. NumEntries(disks[k].gpt_hd)
               /\ \A p : Part(<<k, p>>) = devices[disks[k].bio].parts[p]
    BY <1>1, SlotIsWhole, PartsOf DEF Part
  <1>3. e \in Table!Parts <=>
            /\ \E h \in Cached : e \in {h} \X DOMAIN devices[h].parts
            /\ devices[e[1]].parts[e[2]].type # Null
    BY DEF Table!Parts
  <1>4. ASSUME NEW k \in 1 .. ndisk
        PROVE  e \in {disks[k].bio} \X DOMAIN devices[disks[k].bio].parts <=>
                  \E p \in 1 .. NumEntries(disks[k].gpt_hd) : e = <<disks[k].bio, p>>
    <2> DEFINE b == disks[k].bio
               D == DOMAIN devices[disks[k].bio].parts
    <2>1. D = 1 .. NumEntries(disks[k].gpt_hd)
      BY <1>2
    <2> HIDE DEF b, D
    <2>2. e \in {b} \X D <=> \E p \in D : e = <<b, p>>
      OBVIOUS
    <2> QED
      BY <2>1, <2>2 DEF b, D
  <1>5. (\E h \in Cached : e \in {h} \X DOMAIN devices[h].parts) <=>
            \E k \in 1 .. ndisk : \E p \in 1 .. NumEntries(disks[k].gpt_hd) : e = <<disks[k].bio, p>>
    BY <1>4 DEF Cached
  <1>6. ASSUME NEW k \in 1 .. ndisk, NEW p, e = <<disks[k].bio, p>>
        PROVE  Part(<<k, p>>).type = devices[e[1]].parts[e[2]].type
    BY <1>2, <1>6
  <1> QED
    BY <1>3, <1>5, <1>6

\* The name of an entry of the table.
LEMMA NameOfPart ==
  ASSUME CacheOK, NEW k \in 1 .. ndisk, NEW p
  PROVE  Table!LabelOf(<<disks[k].bio, p>>) = Part(<<k, p>>).name
  BY SlotIsWhole DEF Table!LabelOf, Part

\* What the list holds is what has a name.
LEMMA NamedParts ==
  ASSUME CacheOK, Complete
  PROVE  NamedUpTo(ndisk) = Table!Named
  <1>1. ASSUME NEW e \in NamedUpTo(ndisk) PROVE e \in Table!Named
    <2>1. PICK k \in 1 .. ndisk : e \in SlotNamed(k)
      BY DEF NamedUpTo
    <2>2. PICK p \in 1 .. NumEntries(disks[k].gpt_hd) : Listable(<<k, p>>) /\ e = <<disks[k].bio, p>>
      BY <2>1 DEF SlotNamed, SlotUpTo
    <2>3. e \in Table!Parts
      BY <2>2, TableParts DEF Listable
    <2>4. Table!LabelOf(e) # Unnamed
      BY <2>2, NameOfPart DEF Listable
    <2> QED
      BY <2>3, <2>4 DEF Table!Named
  <1>2. ASSUME NEW e \in Table!Named PROVE e \in NamedUpTo(ndisk)
    <2>1. e \in Table!Parts /\ Table!LabelOf(e) # Unnamed
      BY DEF Table!Named
    <2>p. PICK k \in 1 .. ndisk : \E p \in 1 .. NumEntries(disks[k].gpt_hd) :
             e = <<disks[k].bio, p>> /\ Part(<<k, p>>).type # Null
      BY <2>1, TableParts
    <2>2. PICK p \in 1 .. NumEntries(disks[k].gpt_hd) :
             e = <<disks[k].bio, p>> /\ Part(<<k, p>>).type # Null
      BY <2>p
    <2>3. Listable(<<k, p>>)
      BY <2>1, <2>2, NameOfPart DEF Listable
    <2>4. e \in SlotNamed(k)
      BY <2>2, <2>3 DEF SlotNamed, SlotUpTo
    <2> QED
      BY <2>4 DEF NamedUpTo
  <1> QED
    BY <1>1, <1>2

\* The answer to a list is the list of all that has a name.
LEMMA ListAnswers ==
  ASSUME CacheOK, NpartInv, Complete
  PROVE  Table!Lists(Listed, Table!Named)
  BY AllListed, NamedParts

\* What matches in the cache, and the order in which it is found.
LEMMA MatchesWith ==
  ASSUME CacheOK, Complete
  PROVE  /\ \A f \in Visited : Matches(f) => Interface(f) \in Table!With(call)
         /\ \A e \in Table!With(call) : \E f \in Visited : Matches(f) /\ e = Interface(f)
         /\ \A e, f \in Visited : Table!Precedes(Interface(f), Interface(e)) => Earlier(f, e)
  <1>1. ASSUME NEW f
        PROVE  f \in Visited <=> \E k \in 1 .. ndisk : \E p \in 1 .. NumEntries(disks[k].gpt_hd) : f = <<k, p>>
    BY DEF Visited
  <1>2. ASSUME NEW f \in Visited, Matches(f) PROVE Interface(f) \in Table!With(call)
    <2>k. PICK k \in 1 .. ndisk : \E p \in 1 .. NumEntries(disks[k].gpt_hd) : f = <<k, p>>
      BY <1>1
    <2>1. PICK p \in 1 .. NumEntries(disks[k].gpt_hd) : f = <<k, p>>
      BY <2>k
    <2>2. Interface(f) = <<disks[k].bio, p>> /\ Part(<<k, p>>).type # Null /\ Part(<<k, p>>).name = call
      BY <1>2, <2>1 DEF Interface, Matches
    <2>3. Interface(f) \in Table!Parts
      BY <2>2, TableParts
    <2>4. Table!LabelOf(Interface(f)) = call
      BY <2>2, NameOfPart
    <2> QED
      BY <2>3, <2>4 DEF Table!With
  <1>3. ASSUME NEW e \in Table!With(call) PROVE \E f \in Visited : Matches(f) /\ e = Interface(f)
    <2>1. e \in Table!Parts /\ Table!LabelOf(e) = call
      BY DEF Table!With
    <2>p. PICK k \in 1 .. ndisk : \E p \in 1 .. NumEntries(disks[k].gpt_hd) :
             e = <<disks[k].bio, p>> /\ Part(<<k, p>>).type # Null
      BY <2>1, TableParts
    <2>2. PICK p \in 1 .. NumEntries(disks[k].gpt_hd) :
             e = <<disks[k].bio, p>> /\ Part(<<k, p>>).type # Null
      BY <2>p
    <2>3. <<k, p>> \in Visited
      BY <1>1, <2>2
    <2>4. Part(<<k, p>>).name = call
      BY <2>1, <2>2, NameOfPart
    <2>5. Matches(<<k, p>>) /\ e = Interface(<<k, p>>)
      BY <2>2, <2>4 DEF Matches, Interface
    <2> QED
      BY <2>3, <2>5
  <1>4. ASSUME NEW e \in Visited, NEW f \in Visited, Table!Precedes(Interface(f), Interface(e))
        PROVE  Earlier(f, e)
    <2>k. PICK k \in 1 .. ndisk : \E p \in 1 .. NumEntries(disks[k].gpt_hd) : f = <<k, p>>
      BY <1>1
    <2>1. PICK p \in 1 .. NumEntries(disks[k].gpt_hd) : f = <<k, p>>
      BY <2>k
    <2>l. PICK l \in 1 .. ndisk : \E q \in 1 .. NumEntries(disks[l].gpt_hd) : e = <<l, q>>
      BY <1>1
    <2>2. PICK q \in 1 .. NumEntries(disks[l].gpt_hd) : e = <<l, q>>
      BY <2>l
    <2>3. disks[k].bio < disks[l].bio \/ (disks[k].bio = disks[l].bio /\ p < q)
      BY <1>4, <2>1, <2>2 DEF Table!Precedes, Interface
    <2>4. ndisk \in Nat /\ disks[k].bio \in Nat /\ disks[l].bio \in Nat
      BY SlotIsWhole DEF CacheOK, TypeOK
    <2>5. /\ k < l => disks[k].bio < disks[l].bio
          /\ l < k => disks[l].bio < disks[k].bio
      BY DEF CacheOK, EntriesCoherent
    <2>6. k < l \/ (k = l /\ p < q)
      BY <2>3, <2>4, <2>5
    <2> QED
      BY <2>1, <2>2, <2>6 DEF Earlier
  <1> QED
    BY <1>2, <1>3, <1>4

\* The answer to a lookup is the first partition of that name.
LEMMA LookupAnswers ==
  ASSUME CacheOK, Complete, gpt_get_partition_by_label
  PROVE  \/ /\ Table!With(call) = {}
            /\ answer' = [for |-> call, status |-> "not_found", parts |-> << >>]
         \/ \E e \in Table!With(call) :
               /\ Table!IsFirst(e, Table!With(call))
               /\ answer' = [for |-> call, status |-> "ok", parts |-> <<e>>]
  <1> DEFINE found == {e \in Visited : Matches(e)}
  <1>1. \/ found = {} /\ Answer("not_found", << >>)
        \/ \E e \in found : (\A f \in found : ~Earlier(f, e)) /\ Answer("ok", <<Interface(e)>>)
    BY DEF gpt_get_partition_by_label
  <1>2. CASE found = {} /\ Answer("not_found", << >>)
    <2>1. Table!With(call) = {}
      BY <1>2, MatchesWith
    <2> QED
      BY <1>2, <2>1 DEF Answer
  <1>3. ASSUME NEW e \in found, \A f \in found : ~Earlier(f, e), Answer("ok", <<Interface(e)>>)
        PROVE  \E x \in Table!With(call) :
                  /\ Table!IsFirst(x, Table!With(call))
                  /\ answer' = [for |-> call, status |-> "ok", parts |-> <<x>>]
    <2>1. Interface(e) \in Table!With(call)
      BY MatchesWith
    <2>2. ASSUME NEW y \in Table!With(call) PROVE ~Table!Precedes(y, Interface(e))
      <3>1. PICK f \in Visited : Matches(f) /\ y = Interface(f)
        BY MatchesWith
      <3> QED
        BY <1>3, <3>1, MatchesWith
    <2>3. Table!IsFirst(Interface(e), Table!With(call))
      BY <2>1, <2>2 DEF Table!IsFirst
    <2> QED
      BY <1>3, <2>1, <2>3 DEF Answer
  <1> QED
    BY <1>1, <1>2, <1>3

-----------------------------------------------------------------------------
(***************************************************************************)
(* The refinement.                                                         *)
(***************************************************************************)
\* No device is number 0, so no set of devices is NoTable.
LEMMA TableThere == ASSUME CacheOK PROVE Cached # NoTable
  <1>1. \A h \in Cached : h \in Devs
    BY SlotIsWhole DEF Cached
  <1>2. 0 \notin Devs
    BY DeviceTypes DEF CacheOK, TypeOK
  <1> QED
    BY <1>1, <1>2 DEF NoTable

LEMMA Stutters ==
  ASSUME UNCHANGED <<devices, answer>>,
         \/ ~Complete /\ ~Complete'
         \/ Complete /\ Complete' /\ UNCHANGED <<disks, ndisk, failed>>
  PROVE  UNCHANGED Table!vars
  BY DEF Table!vars, Cached

\* Once the table is complete it stays, and only answers are given.
LEMMA CompleteStays ==
  ASSUME CacheOK, Complete, GptStep
  PROVE  /\ Complete' /\ UNCHANGED <<devices, disks, ndisk, failed>>
         /\ CacheDone \/ gpt_get_partition_by_label \/ gpt_list_partition \/ ListFails
  <1>1. pc \notin {"scan", "cache"}
    BY DEF Complete, CacheOK, TypeOK
  <1>2. ~CacheFails /\ ~NoBlockIo /\ ~gpt_cache_partition /\ ~NextDevice
    BY <1>1 DEF CacheFails, NoBlockIo, gpt_cache_partition, NextDevice
  <1>3. \A step : ~DeviceFails(step)
    BY <1>1 DEF DeviceFails
  <1>4. CacheDone \/ gpt_get_partition_by_label \/ gpt_list_partition \/ ListFails
    BY <1>2, <1>3 DEF GptStep
  <1>5. CASE CacheDone
    BY <1>1, <1>5 DEF CacheDone
  <1>6. CASE gpt_get_partition_by_label \/ gpt_list_partition \/ ListFails
    BY <1>6 DEF gpt_get_partition_by_label, gpt_list_partition, ListFails, Answer, Complete
  <1> QED
    BY <1>4, <1>5, <1>6

\* Each step of gpt.c is a step of the table or changes nothing of it.
LEMMA GptImplements ==
  ASSUME CacheOK, NpartInv, TableInv, GptStep
  PROVE  [Table!Next]_Table!vars
  <1>0. Cached # NoTable
    BY TableThere
  <1>1. CASE CacheFails \/ NoBlockIo
    <2>1. /\ ~Complete /\ ~Complete' /\ UNCHANGED devices /\ call \in {"list"} \cup Labels
          /\ answer' = [for |-> call, status |-> "error", parts |-> << >>]
      BY <1>1 DEF CacheFails, NoBlockIo, Answer, Complete, CacheOK, TypeOK
    <2>2. Table!Refuse
      BY <2>1 DEF Table!Refuse
    <2> QED
      BY <2>2 DEF Table!Next
  <1>2. CASE gpt_cache_partition
    <2>1. ~Complete /\ ~Complete' /\ UNCHANGED <<devices, answer>>
      BY <1>2 DEF gpt_cache_partition, Complete, CacheOK, TypeOK
    <2> QED
      BY <2>1, Stutters
  <1>3. CASE NextDevice
    <2>1. ~Complete /\ ~Complete' /\ UNCHANGED <<devices, answer>>
      BY <1>3 DEF NextDevice, Complete
    <2> QED
      BY <2>1, Stutters
  <1>4. ASSUME NEW step \in {"bio", "dio", "header", "allocate", "partitions"}, DeviceFails(step)
        PROVE  [Table!Next]_Table!vars
    <2>1. ~Complete /\ ~Complete' /\ UNCHANGED <<devices, answer>>
      BY <1>4 DEF DeviceFails, Complete
    <2> QED
      BY <2>1, Stutters
  <1>5. CASE CacheDone
    <2>1. /\ ~Complete /\ Complete' /\ UNCHANGED <<devices, disks, ndisk, failed, answer>>
          /\ disks # << >> /\ i \notin Devs
      BY <1>5 DEF CacheDone, Complete, CacheOK, TypeOK
    <2>2. /\ failed \subseteq DOMAIN devices
          /\ \A h \in Devs : h < i
      BY <2>1, DeviceTypes DEF CacheOK, TypeOK, Devs
    <2>3. Cached = Table!GptDisks \ failed
      BY <2>1, <2>2 DEF TableInv, Table!GptDisks, GptDevice, Devs
    <2>4. Cached' = Cached
      BY <2>1 DEF Cached
    <2>5. Table!Take
      BY <2>1, <2>2, <2>3, <2>4 DEF Table!Take
    <2> QED
      BY <2>5 DEF Table!Next
  <1>6. CASE gpt_get_partition_by_label
    <2>1. Complete /\ call \in Labels
      BY <1>6 DEF gpt_get_partition_by_label, Complete, CacheOK, TypeOK
    <2>2. Complete' /\ UNCHANGED <<devices, disks, ndisk, failed>>
      BY <1>6, <2>1, CompleteStays DEF GptStep
    <2>3. Cached' = Cached
      BY <2>2 DEF Cached
    <2>4. Table!Lookup(call)
      BY <1>0, <1>6, <2>1, <2>2, <2>3, LookupAnswers DEF Table!Lookup
    <2> QED
      BY <2>1, <2>4 DEF Table!Next
  <1>7. CASE gpt_list_partition \/ ListFails
    <2>1. Complete /\ call = "list"
      BY <1>7 DEF gpt_list_partition, ListFails, Complete, CacheOK, TypeOK
    <2>2. Complete' /\ UNCHANGED <<devices, disks, ndisk, failed>>
      BY <1>7, <2>1, CompleteStays DEF GptStep
    <2>3. Cached' = Cached
      BY <2>2 DEF Cached
    <2>4. \/ answer' = [for |-> "list", status |-> "error", parts |-> << >>]
          \/ answer' = [for |-> "list", status |-> "ok", parts |-> Listed]
      BY <1>7, <2>1 DEF gpt_list_partition, ListFails, Answer
    <2>5. Table!Lists(Listed, Table!Named)
      BY <2>1, ListAnswers
    <2>6. Table!List
      BY <1>0, <2>1, <2>2, <2>3, <2>4, <2>5 DEF Table!List
    <2> QED
      BY <2>6 DEF Table!Next
  <1> QED
    BY <1>1, <1>2, <1>3, <1>4, <1>5, <1>6, <1>7 DEF GptStep

\* The application asks, and an answer is not its own.
LEMMA AppStutters ==
  ASSUME CacheOK, AppStep
  PROVE  UNCHANGED Table!vars /\ UNCHANGED <<devices, disks, ndisk, npart, i, failed, answer>>
         /\ (Complete' <=> Complete)
  <1>1. /\ UNCHANGED <<devices, disks, ndisk, npart, i, failed, answer>>
        /\ pc' = pc \/ (pc = "idle" /\ pc' # "scan")
    <2>1. CASE NoLoadedImage \/ FileFails
      BY <2>1 DEF NoLoadedImage, FileFails
    <2>2. CASE BootFile \/ CommandDone \/ publish_partsize \/ SessionEnds
      BY <2>2 DEF BootFile, CommandDone, publish_partsize, SessionEnds, gptVars
    <2>3. ASSUME NEW argc, Usage(argc) \/ WildPointer(argc) \/ \E cmd \in Commands \cup {"unknown"} : BadCommand(argc, cmd)
          PROVE  UNCHANGED gptVars
      BY <2>3 DEF Usage, WildPointer, BadCommand
    <2>4. ASSUME NEW what, Ask(what)
          PROVE  UNCHANGED <<devices, disks, ndisk, npart, i, failed, answer>> /\ pc = "idle" /\ pc' # "scan"
      BY <2>4 DEF Ask
    <2>5. ASSUME NEW label \in Labels, Request(label) \/ \E cmd \in Lookups : RunLookup(cmd, label)
          PROVE  UNCHANGED <<devices, disks, ndisk, npart, i, failed, answer>> /\ pc = "idle" /\ pc' # "scan"
      BY <2>4, <2>5 DEF Request, RunLookup
    <2>6. CASE fastboot_start
      BY <2>4, <2>6 DEF fastboot_start
    <2> QED
      BY <2>1, <2>2, <2>3, <2>5, <2>6 DEF AppStep, gptVars
  <1>2. Complete' <=> Complete
    BY <1>1 DEF Complete
  <1> QED
    BY <1>1, <1>2, Stutters

-----------------------------------------------------------------------------
(***************************************************************************)
(* What was published and what is found.                                   *)
(***************************************************************************)
LEMMA AllStarts == AppInit => AllInv
  <1> SUFFICES ASSUME AppInit PROVE AllInv
    OBVIOUS
  <1>1. CacheOK
    BY CacheInit
  <1>2. NpartInv
    <2>1. PICK s \in [0 .. 0 -> Nat] : s = [k \in 0 .. 0 |-> 0]
      OBVIOUS
    <2>2. ndisk = 0 /\ npart = 0
      BY DEF AppInit, Init
    <2>3. s[0] = 0
      BY <2>1
    <2> QED
      BY <2>2, <2>3 DEF NpartInv, IsEntrySum
  <1>3. TableInv /\ AppInv
    BY GptAssumption DEF AppInit, Init, TableInv, AppInv, Complete
  <1> QED
    BY <1>1, <1>2, <1>3 DEF AllInv

\* The table and what is read from it depend on the cache alone.
LEMMA TableSame ==
  ASSUME UNCHANGED <<devices, disks, ndisk>>, Complete, Complete'
  PROVE  /\ Table!Named' = Table!Named
         /\ \A label : Table!With(label)' = Table!With(label)
  <1>1. Cached' = Cached
    BY DEF Cached
  <1>2. Table!Parts' = Table!Parts
    BY <1>1 DEF Table!Parts
  <1> QED
    BY <1>2 DEF Table!Named, Table!With, Table!LabelOf

\* An answer that is given is for the call; nothing else of gpt.c answers.
LEMMA AnswersCall ==
  ASSUME GptStep
  PROVE  /\ call' = call
         /\ pc' = "idle" => answer'.for = call
         /\ answer' = answer \/ answer'.for = call
  <1>1. CASE CacheFails \/ NoBlockIo \/ gpt_list_partition \/ ListFails
    BY <1>1 DEF CacheFails, NoBlockIo, gpt_list_partition, ListFails, Answer
  <1>2. CASE gpt_get_partition_by_label
    BY <1>2 DEF gpt_get_partition_by_label, Answer
  <1>3. CASE gpt_cache_partition \/ NextDevice \/ CacheDone
    BY <1>3 DEF gpt_cache_partition, NextDevice, CacheDone
  <1>4. ASSUME NEW step, DeviceFails(step)
        PROVE  call' = call /\ answer' = answer /\ pc' # "idle"
    BY <1>4 DEF DeviceFails
  <1> QED
    BY <1>1, <1>2, <1>3, <1>4 DEF GptStep

LEMMA GptKeepsApp ==
  ASSUME AllInv, GptStep, UNCHANGED <<app, ret, listed, published, calls>>
  PROVE  AppInv'
  <1>1. call' = call /\ (pc' = "idle" => answer'.for = call) /\ (answer' = answer \/ answer'.for = call)
    BY AnswersCall
  <1>2. (app = "publish" => call = "list" /\ (pc = "idle" => answer.for = "list"))'
    BY <1>1 DEF AllInv, AppInv
  <1>3. CASE ~Complete
    <2>1. listed # "yes"
      BY <1>3 DEF AllInv, AppInv
    <2>2. answer' = answer \/ answer'.status = "error"
      <3>1. ~gpt_get_partition_by_label /\ ~gpt_list_partition /\ ~ListFails
        BY <1>3 DEF gpt_get_partition_by_label, gpt_list_partition, ListFails, Complete, AllInv, CacheOK, TypeOK
      <3>2. CASE CacheFails \/ NoBlockIo
        BY <3>2 DEF CacheFails, NoBlockIo, Answer
      <3>3. CASE gpt_cache_partition \/ NextDevice \/ CacheDone
        BY <3>3 DEF gpt_cache_partition, NextDevice, CacheDone
      <3>4. ASSUME NEW step, DeviceFails(step) PROVE answer' = answer
        BY <3>4 DEF DeviceFails
      <3> QED
        BY <3>1, <3>2, <3>3, <3>4 DEF GptStep
    <2>3. ~(answer'.for = "list" /\ answer'.status = "ok")
      BY <1>3, <2>2 DEF AllInv, AppInv
    <2> QED
      BY <1>2, <2>1, <2>3 DEF AppInv
  <1>4. CASE Complete
    <2>1. /\ Complete' /\ UNCHANGED <<devices, disks, ndisk, failed>>
          /\ CacheDone \/ gpt_get_partition_by_label \/ gpt_list_partition \/ ListFails
      BY <1>4, CompleteStays DEF AllInv
    <2>2. Table!Named' = Table!Named /\ \A label : Table!With(label)' = Table!With(label)
      BY <1>4, <2>1, TableSame
    <2>3. (answer.for = "list" /\ answer.status = "ok" => Complete /\ Table!Lists(answer.parts, Table!Named))'
      <3>1. CASE CacheDone
        BY <1>4, <3>1 DEF CacheDone, Complete
      <3>2. CASE gpt_get_partition_by_label
        <4>1. answer'.for \in Labels
          BY <1>1, <3>2 DEF gpt_get_partition_by_label, Answer
        <4> QED
          BY <4>1, GptAssumption
      <3>3. CASE gpt_list_partition
        <4>1. answer'.parts = Listed
          BY <3>3 DEF gpt_list_partition, Answer
        <4>2. Table!Lists(Listed, Table!Named)
          BY <1>4, ListAnswers DEF AllInv
        <4> QED
          BY <2>1, <2>2, <4>1, <4>2 DEF Table!Lists, Table!Precedes
      <3>4. CASE ListFails
        BY <3>4 DEF ListFails, Answer
      <3> QED
        BY <2>1, <3>1, <3>2, <3>3, <3>4
    <2>4. (listed = "yes" => Complete /\ Table!Lists(published, Table!Named))'
      BY <2>1, <2>2 DEF AllInv, AppInv, Table!Lists, Table!Precedes
    <2>5. (app = "session" /\ listed = "yes" /\ answer.for \in Labels => Right(answer.for))'
      <3>1. CASE CacheDone
        BY <1>4, <3>1 DEF CacheDone, Complete
      <3>2. CASE gpt_get_partition_by_label
        <4>c. PICK c : c = call
          OBVIOUS
        <4>1. \/ /\ Table!With(c) = {}
                 /\ answer' = [for |-> c, status |-> "not_found", parts |-> << >>]
              \/ \E e \in Table!With(c) :
                    /\ Table!IsFirst(e, Table!With(c))
                    /\ answer' = [for |-> c, status |-> "ok", parts |-> <<e>>]
          BY <1>4, <3>2, <4>c, LookupAnswers DEF AllInv
        <4>2. Table!With(c)' = Table!With(c)
          BY <2>2
        <4>3. answer'.for = c /\ Right(c)'
          BY <4>1, <4>2 DEF Right, Table!IsFirst, Table!Precedes
        <4> QED
          BY <4>3 DEF Right, Table!With
      <3>3. CASE gpt_list_partition \/ ListFails
        <4>1. answer'.for = "list"
          BY <3>3 DEF gpt_list_partition, ListFails, Answer
        <4> QED
          BY <4>1, GptAssumption
      <3> QED
        BY <2>1, <3>1, <3>2, <3>3
    <2> QED
      BY <1>2, <2>3, <2>4, <2>5 DEF AppInv
  <1> QED
    BY <1>3, <1>4

LEMMA AppKeepsApp ==
  ASSUME AllInv, AppStep
  PROVE  AppInv'
  <1>1. UNCHANGED <<devices, disks, ndisk, npart, i, failed, answer>> /\ (Complete' <=> Complete)
    BY AppStutters DEF AllInv
  <1>2. Complete => Table!Named' = Table!Named /\ \A label : Table!With(label)' = Table!With(label)
    BY <1>1, TableSame
  <1>3. Complete /\ Right(answer.for) => Right(answer.for)'
    BY <1>1, <1>2 DEF Right, Table!IsFirst, Table!Precedes
  <1>4. ASSUME Complete, NEW s, Table!Lists(s, Table!Named) PROVE Table!Lists(s, Table!Named)'
    BY <1>2, <1>4 DEF Table!Lists, Table!Precedes
  <1>5. (answer.for = "list" /\ answer.status = "ok" => Complete /\ Table!Lists(answer.parts, Table!Named))'
    <2> SUFFICES ASSUME answer.for = "list", answer.status = "ok"
                 PROVE  Complete' /\ Table!Lists(answer.parts, Table!Named)'
      BY <1>1
    <2> QED
      BY <1>1, <1>2 DEF AllInv, AppInv, Table!Lists, Table!Precedes
  <1>6. CASE publish_partsize
    <2>1. app = "publish" /\ pc = "idle" /\ answer.for = "list" /\ app' # "publish"
      BY <1>6 DEF publish_partsize, AllInv, AppInv
    <2>2. listed' = "yes" => answer.status = "ok" /\ published' = answer.parts
      BY <1>6 DEF publish_partsize
    <2>3. listed' = "yes" => Complete' /\ Table!Lists(answer.parts, Table!Named)'
      BY <1>1, <1>5, <2>1, <2>2
    <2>4. (listed = "yes" => Complete /\ Table!Lists(published, Table!Named))'
      BY <1>1, <2>2, <2>3 DEF Table!Lists, Table!Precedes
    <2>5. answer'.for \notin Labels
      BY <1>1, <2>1, GptAssumption
    <2> QED
      BY <1>5, <2>1, <2>4, <2>5 DEF AppInv
  <1>7. CASE fastboot_start
    <2>1. app' = "publish" /\ call' = "list" /\ pc' # "idle" /\ UNCHANGED <<listed, published>>
      BY <1>7 DEF fastboot_start, Ask
    <2>2. (listed = "yes" => Complete /\ Table!Lists(published, Table!Named))'
      BY <1>1, <1>2, <2>1 DEF AllInv, AppInv, Table!Lists, Table!Precedes
    <2> QED
      BY <1>5, <2>1, <2>2 DEF AppInv
  <1>8. ASSUME ~publish_partsize, ~fastboot_start
        PROVE  /\ UNCHANGED <<listed, published>> /\ app' # "publish"
               /\ app' = "session" => app = "session"
    <2>1. CASE NoLoadedImage \/ FileFails \/ BootFile \/ CommandDone \/ SessionEnds
      BY <2>1 DEF NoLoadedImage, FileFails, BootFile, CommandDone, SessionEnds, Exit
    <2>2. ASSUME NEW argc, Usage(argc) \/ WildPointer(argc) \/ \E cmd \in Commands \cup {"unknown"} : BadCommand(argc, cmd)
          PROVE  UNCHANGED <<listed, published>> /\ app' \in {"exit", "crashed"}
      BY <2>2 DEF Usage, WildPointer, BadCommand, Exit
    <2>3. ASSUME NEW label \in Labels, Request(label)
          PROVE  UNCHANGED <<listed, published, app>> /\ app = "session"
      BY <2>3 DEF Request
    <2>4. ASSUME NEW label \in Labels, NEW cmd \in Lookups, RunLookup(cmd, label)
          PROVE  UNCHANGED <<listed, published>> /\ app' \in Lookups
      BY <2>4 DEF RunLookup
    <2> QED
      BY <1>8, <2>1, <2>2, <2>3, <2>4 DEF AppStep, Lookups, Commands
  <1>9. CASE ~publish_partsize /\ ~fastboot_start
    <2>1. (listed = "yes" => Complete /\ Table!Lists(published, Table!Named))'
      BY <1>1, <1>2, <1>8, <1>9 DEF AllInv, AppInv, Table!Lists, Table!Precedes
    <2>2. (app = "session" /\ listed = "yes" /\ answer.for \in Labels => Right(answer.for))'
      <3>1. app' = "session" /\ listed' = "yes" /\ answer'.for \in Labels => Right(answer.for)'
        BY <1>1, <1>3, <1>8, <1>9 DEF AllInv, AppInv
      <3> QED
        BY <3>1 DEF Right
    <2> QED
      BY <1>5, <1>8, <1>9, <2>1, <2>2 DEF AppInv
  <1> QED
    BY <1>6, <1>7, <1>9

LEMMA AllStep == AllInv /\ [Next]_vars => AllInv'
  <1> SUFFICES ASSUME AllInv, [Next]_vars PROVE AllInv'
    OBVIOUS
  <1>1. CASE UNCHANGED vars \/ Terminated
    <2>1. UNCHANGED vars
      BY <1>1 DEF Terminated
    <2>2. CacheOK'
      BY <2>1 DEF vars, gptVars, AllInv, CacheOK, TypeOK, EntriesCoherent, Devs, GptDevice
    <2>3. UNCHANGED <<devices, disks, ndisk, npart, i, pc, failed, call, answer, app, listed, published>>
      BY <2>1 DEF vars, gptVars
    <2>4. Complete' <=> Complete
      BY <2>3 DEF Complete
    <2>5. NpartInv' /\ TableInv'
      BY <2>3, <2>4, TableKept DEF AllInv
    <2>6. Complete => Table!Named' = Table!Named /\ \A label : Table!With(label)' = Table!With(label)
      BY <2>3, <2>4, TableSame
    <2>7. AppInv'
      BY <2>3, <2>4, <2>6 DEF AllInv, AppInv, Right, Table!Lists, Table!Precedes, Table!IsFirst
    <2> QED
      BY <2>2, <2>5, <2>7 DEF AllInv
  <1>2. CASE GptStep /\ UNCHANGED <<app, ret, listed, published, calls>>
    BY <1>2, GptStepKeeps, TableStep, GptKeepsApp DEF AllInv
  <1>3. CASE AppStep
    <2>1. UNCHANGED <<devices, disks, ndisk, npart, i, failed>> /\ (Complete' <=> Complete)
      BY <1>3, AppStutters DEF AllInv
    <2>2. NpartInv' /\ TableInv'
      BY <2>1, TableKept DEF AllInv
    <2> QED
      BY <1>3, <2>2, AppStepKeeps, AppKeepsApp DEF AllInv
  <1> QED
    BY <1>1, <1>2, <1>3 DEF Next

\* The list, the lookups and what is known of them, for any platform and any
\* failing calls.
THEOREM CacheInvariance == Spec => []AllInv
  BY AllStarts, AllStep, PTL DEF Spec

\* A name that is used once: what was published under it is what is found.
LEMMA TargetFollows == AllInv => PublishedIsTarget
  <1> SUFFICES ASSUME AllInv PROVE PublishedIsTarget
    OBVIOUS
  <1>1. ListFits
    BY AllListed DEF AllInv, ListFits
  <1>2. ASSUME NEW label \in Labels \ {Unnamed},
               app = "session", listed = "yes", answer.for = label
        PROVE  IF GetVar(label) = {} THEN answer.status = "not_found"
               ELSE Unique(label) =>
                  \E k \in GetVar(label) :
                     /\ \A l \in GetVar(label) : l <= k
                     /\ answer.status = "ok" /\ answer.parts = <<published[k]>>
    <2>1. Complete /\ Table!Lists(published, Table!Named) /\ Right(label) /\ CacheOK
      BY <1>2 DEF AllInv, AppInv
    <2>2. /\ published \in Seq(Table!Named)
          /\ Table!Named = {published[k] : k \in DOMAIN published}
          /\ \A j, k \in DOMAIN published : j < k => Table!Precedes(published[j], published[k])
      BY <2>1 DEF Table!Lists
    <2>3. ASSUME NEW e \in Table!With(label)
          PROVE  /\ NameOf(e) = label /\ TypeOf(e) # Null /\ e \in OnDevices
                 /\ \E k \in GetVar(label) : published[k] = e
      <3>1. e \in Table!Parts /\ Table!LabelOf(e) = label
        BY DEF Table!With
      <3>2. e \in Table!Named
        BY <1>2, <3>1 DEF Table!Named
      <3>3. NameOf(e) = label /\ TypeOf(e) # Null
        BY <2>1, <3>1 DEF NameOf, TypeOf, Table!LabelOf, Table!Parts
      <3>4. e \in OnDevices
        <4>1. \A h \in Cached : h \in Devs
          BY <2>1, SlotIsWhole DEF Cached
        <4>2. \E h \in Cached : e \in {h} \X DOMAIN devices[h].parts
          BY <2>1, <3>1 DEF Table!Parts
        <4> QED
          BY <4>1, <4>2 DEF OnDevices
      <3>5. PICK k \in DOMAIN published : published[k] = e
        BY <2>2, <3>2
      <3> QED
        BY <3>3, <3>4, <3>5 DEF GetVar
    <2>4. ASSUME NEW k \in GetVar(label) PROVE published[k] \in Table!With(label)
      <3>1. k \in DOMAIN published /\ NameOf(published[k]) = label
        BY DEF GetVar
      <3>2. published[k] \in Table!Named
        BY <2>2, <3>1
      <3> QED
        BY <3>1, <3>2 DEF Table!Named, Table!With, Table!LabelOf, NameOf
    <2>5. CASE GetVar(label) = {}
      <3>1. Table!With(label) = {}
        BY <2>3, <2>5
      <3> QED
        BY <2>1, <2>5, <3>1 DEF Right
    <2>6. CASE GetVar(label) # {}
      <3> SUFFICES ASSUME Unique(label)
                   PROVE  \E k \in GetVar(label) :
                             /\ \A l \in GetVar(label) : l <= k
                             /\ answer.status = "ok" /\ answer.parts = <<published[k]>>
        BY <2>6
      <3>1. \A e, f \in Table!With(label) : e = f
        BY <2>3 DEF Unique
      <3>2. PICK k \in GetVar(label) : TRUE
        BY <2>6
      <3>3. answer.status = "ok" /\ answer.parts = <<published[k]>>
        <4>1. Table!With(label) # {}
          BY <2>4, <3>2
        <4> QED
          BY <2>1, <2>4, <3>1, <3>2, <4>1 DEF Right
      <3>4. ASSUME NEW l \in GetVar(label) PROVE l <= k
        <4>1. published[l] = published[k]
          BY <2>4, <3>1, <3>2
        <4>2. k \in DOMAIN published /\ l \in DOMAIN published
          BY <3>2 DEF GetVar
        <4>3. k \in Nat /\ l \in Nat
          BY <2>2, <4>2
        <4>4. published[k] \in Answers
          <5>1. published[k] \in Table!Parts
            BY <2>2, <4>2 DEF Table!Named
          <5>2. PICK j \in 1 .. ndisk : \E p \in 1 .. NumEntries(disks[j].gpt_hd) :
                   published[k] = <<disks[j].bio, p>> /\ Part(<<j, p>>).type # Null
            BY <2>1, <5>1, TableParts
          <5>3. disks[j].bio \in Nat /\ NumEntries(disks[j].gpt_hd) \in Nat
            BY <2>1, SlotIsWhole
          <5> QED
            BY <5>2, <5>3 DEF Answers
        <4>5. ~Table!Precedes(published[k], published[l])
          BY <4>1, <4>4 DEF Answers, Table!Precedes
        <4> QED
          BY <2>2, <4>2, <4>3, <4>5
      <3> QED
        BY <3>2, <3>3, <3>4
    <2> QED
      BY <2>5, <2>6
  <1> QED
    BY <1>1, <1>2 DEF PublishedIsTarget

\* The list of gpt_list_partition never overruns what it allocates, and the
\* partition that flash: and erase: of a name write is the one whose size and
\* type fastboot published under that name, if the name is used once.
THEOREM PublishedIsTargetSafe == Spec => []PublishedIsTarget
  BY CacheInvariance, TargetFollows, PTL

\* Every behaviour of the cache, with devices that fail half-way through an
\* entry, is one of a table taken once from the disks that answered: lookups
\* give its first partition of that name, lists all that have a name, in order.
THEOREM GptImplementsTable == Spec => ImplementsTable
  <1>1. AppInit => Table!Init
    BY DEF AppInit, Init, Table!Init, Complete
  <1>2. AllInv /\ [Next]_vars => [Table!Next]_Table!vars
    <2> SUFFICES ASSUME AllInv, [Next]_vars PROVE [Table!Next]_Table!vars
      OBVIOUS
    <2>1. CASE UNCHANGED vars \/ Terminated
      <3>1. UNCHANGED <<devices, disks, ndisk, pc, failed, answer>>
        BY <2>1 DEF Terminated, vars, gptVars
      <3> QED
        BY <3>1 DEF Table!vars, Cached, Complete
    <2>2. CASE GptStep
      BY <2>2, GptImplements DEF AllInv
    <2>3. CASE AppStep
      BY <2>3, AppStutters DEF AllInv
    <2> QED
      BY <2>1, <2>2, <2>3 DEF Next
  <1> QED
    BY <1>1, <1>2, CacheInvariance, PTL DEF Spec, ImplementsTable, Table!Spec
=============================================================================
