--------------------------------- MODULE Gpt ---------------------------------
(***************************************************************************)
(* The partition cache of common/gpt/gpt.c: disks is filled at the first   *)
(* question and never again, each entry by the calls of                    *)
(* gpt_list_partition_on_disk, any of which may fail half-way and leave    *)
(* the entry for the next device.                                          *)
(***************************************************************************)
EXTENDS Integers, Sequences

CONSTANTS
    DeviceLists,    \* the block devices of a platform, one sequence for each
    Labels,         \* names of partitions that are asked for
    Types,          \* of partitions
    Null,           \* type of an entry that is not in use
    Unnamed,        \* the empty name
    MaxFaults       \* bound on the calls that fail

ASSUME GptAssumption ==
    /\ MaxFaults \in Nat
    /\ Unnamed \in Labels /\ {"none", "list"} \cap Labels = {}
    /\ DeviceLists \subseteq
           Seq([logical : BOOLEAN, gpt : BOOLEAN, parts : Seq([type : Types, name : Labels])])

VARIABLES
    devices,
    disks,      \* << >> is the null pointer
    ndisk, npart,
    i,          \* the device gpt_cache_partition is at
    pc,         \* "idle", "scan" or "search"
    call,       \* "list" or the label that is asked for
    answer,     \* the last answer
    failed,     \* devices on which a call has failed
    faults

gptVars == <<devices, disks, ndisk, npart, i, pc, call, answer, failed, faults>>

\* An entry of disks: the device each of its fields comes from, 0 before any,
\* -h when the partitions of h have been freed.
Fresh == [bio |-> 0, dio |-> 0, gpt_hd |-> 0, partitions |-> 0]

Devs == DOMAIN devices
GptDevice(h) == devices[h].gpt /\ ~devices[h].logical
NumEntries(h) == Len(devices[h].parts)

Init ==
    /\ devices \in DeviceLists
    /\ disks = << >> /\ ndisk = 0 /\ npart = 0 /\ i = 1
    /\ pc = "idle" /\ call = "list"
    /\ answer = [for |-> "none", status |-> "none", parts |-> << >>]
    /\ failed = {} /\ faults = 0

Answer(status, parts) ==
    /\ answer' = [for |-> call, status |-> status, parts |-> parts]
    /\ pc' = "idle"

Fault == faults < MaxFaults /\ faults' = faults + 1

-----------------------------------------------------------------------------
\* gpt_get_partition_by_label and gpt_list_partition: cache first, if need be.
Ask(what) ==
    /\ pc = "idle"
    /\ call' = what
    /\ pc' = IF disks = << >> THEN "cache" ELSE "search"
    /\ UNCHANGED <<devices, disks, ndisk, npart, i, answer, failed, faults>>

\* The handles cannot be located or stored, or disks has no memory.
CacheFails ==
    /\ pc = "cache"
    /\ Fault
    /\ Answer("error", << >>)
    /\ UNCHANGED <<devices, disks, ndisk, npart, i, call, failed>>

\* LocateHandle finds no block device at all.
NoBlockIo ==
    /\ pc = "cache"
    /\ devices = << >>
    /\ Answer("error", << >>)
    /\ UNCHANGED <<devices, disks, ndisk, npart, i, call, failed, faults>>

gpt_cache_partition ==
    /\ pc = "cache"
    /\ devices # << >>
    /\ disks' = [k \in Devs |-> Fresh]
    /\ i' = 1
    /\ pc' = "scan"
    /\ UNCHANGED <<devices, ndisk, npart, call, answer, failed, faults>>

-----------------------------------------------------------------------------
\* Mutant: what the entry already has is not asked for again.
Filled_Once(e, h, step) ==
    [bio    |-> IF step = "bio" THEN e.bio ELSE h,
     dio    |-> IF step \in {"bio", "logical", "dio"} \/ e.dio # 0 THEN e.dio ELSE h,
     gpt_hd |-> IF step \in {"bio", "logical", "dio"} THEN e.gpt_hd
                ELSE IF step = "header" THEN 0 ELSE h,
     partitions |-> IF step = "allocate" THEN 0
                    ELSE IF step = "partitions" THEN -h
                    ELSE IF step = "done" THEN h ELSE e.partitions]

\* gpt_list_partition_on_disk(handles[i], &disks[ndisk]): what the entry e
\* holds of device h once the call has ended after one of its steps.
Filled(e, h, step) ==
    [bio    |-> IF step = "bio" THEN e.bio ELSE h,
     dio    |-> IF step \in {"bio", "logical", "dio"} THEN e.dio ELSE h,
     gpt_hd |-> IF step \in {"bio", "logical", "dio"} THEN e.gpt_hd
                ELSE IF step = "header" THEN 0 ELSE h,
     partitions |-> IF step = "allocate" THEN 0
                    ELSE IF step = "partitions" THEN -h
                    ELSE IF step = "done" THEN h ELSE e.partitions]

\* The steps at which a healthy device ends the call.
Ends(h) == IF devices[h].logical THEN "logical"
           ELSE IF devices[h].gpt THEN "done" ELSE "signature"

\* The calls that a device reaches and that may fail.
MayFailAt(h) ==
    {"bio"} \cup (IF devices[h].logical THEN {}
                  ELSE {"dio", "header"} \cup
                       (IF devices[h].gpt THEN {"allocate", "partitions"} ELSE {}))

AddPartitions(h) ==
    /\ npart' = npart + NumEntries(h)
    /\ ndisk' = ndisk + 1

NextDevice ==
    /\ pc = "scan" /\ i \in Devs
    /\ disks' = [disks EXCEPT ![ndisk + 1] = Filled(@, i, Ends(i))]
    /\ IF Ends(i) = "done" THEN AddPartitions(i) ELSE UNCHANGED <<ndisk, npart>>
    /\ i' = i + 1
    /\ UNCHANGED <<devices, pc, call, answer, failed, faults>>

\* Mutant: a device that fails ends the loop.
NextOfFailed_Stop == Len(devices) + 1

NextOfFailed == i + 1

DeviceFails(step) ==
    /\ pc = "scan" /\ i \in Devs
    /\ step \in MayFailAt(i)
    /\ Fault
    /\ disks' = [disks EXCEPT ![ndisk + 1] = Filled(@, i, step)]
    /\ failed' = failed \cup {i}
    /\ i' = NextOfFailed
    /\ UNCHANGED <<devices, ndisk, npart, pc, call, answer>>

CacheDone ==
    /\ pc = "scan" /\ i \notin Devs
    /\ pc' = "search"
    /\ UNCHANGED <<devices, disks, ndisk, npart, i, call, answer, failed, faults>>

-----------------------------------------------------------------------------
\* What the double loop over disks visits: entry p of slot k, as many as the
\* header of that slot says, read from its partitions and answered with its
\* disk.
Visited == UNION {{k} \X (1 .. NumEntries(disks[k].gpt_hd)) : k \in 1 .. ndisk}
Part(e) == devices[disks[e[1]].partitions].parts[e[2]]
Interface(e) == <<disks[e[1]].bio, e[2]>>

\* The order of the loop, and of the entries on the disks.
Earlier(e, f) == e[1] < f[1] \/ (e[1] = f[1] /\ e[2] < f[2])

\* Mutant: the lookup compares the name of entries that are not in use too.
Matches_AnyType(e) == Part(e).name = call

Matches(e) == Part(e).type # Null /\ Part(e).name = call

\* The first match returns at once.
gpt_get_partition_by_label ==
    /\ pc = "search" /\ call \in Labels
    /\ LET found == {e \in Visited : Matches(e)}
       IN \/ found = {} /\ Answer("not_found", << >>)
          \/ \E e \in found :
                /\ \A f \in found : ~Earlier(f, e)
                /\ Answer("ok", <<Interface(e)>>)
    /\ UNCHANGED <<devices, disks, ndisk, npart, i, call, failed, faults>>

Listable(e) == Part(e).type # Null /\ Part(e).name # Unnamed

\* gpartlist after the entries of slot k.
ListDisk(gpartlist, k) ==
    LET list[p \in 0 .. NumEntries(disks[k].gpt_hd)] ==
            IF p = 0 THEN gpartlist
            ELSE IF Listable(<<k, p>>) THEN Append(list[p - 1], Interface(<<k, p>>))
            ELSE list[p - 1]
    IN list[NumEntries(disks[k].gpt_hd)]

\* gpartlist after all slots.
Listed ==
    LET list[k \in 0 .. ndisk] == IF k = 0 THEN << >> ELSE ListDisk(list[k - 1], k)
    IN list[ndisk]

gpt_list_partition ==
    /\ pc = "search" /\ call = "list"
    /\ Answer("ok", Listed)
    /\ UNCHANGED <<devices, disks, ndisk, npart, i, call, failed, faults>>

\* The list has no memory.
ListFails ==
    /\ pc = "search" /\ call = "list"
    /\ Fault
    /\ Answer("error", << >>)
    /\ UNCHANGED <<devices, disks, ndisk, npart, i, call, failed>>

GptStep ==
    \/ CacheFails \/ NoBlockIo \/ gpt_cache_partition
    \/ NextDevice \/ \E step \in {"bio", "dio", "header", "allocate", "partitions"} : DeviceFails(step)
    \/ CacheDone
    \/ gpt_get_partition_by_label \/ gpt_list_partition \/ ListFails

-----------------------------------------------------------------------------
Whole(h) == [bio |-> h, dio |-> h, gpt_hd |-> h, partitions |-> h]

\* Every entry that counts is of one device, with its partitions, whatever was
\* left in it by the devices that failed before; and the entries are in the
\* order of the devices, without a gap beyond the number of devices.
EntriesCoherent ==
    /\ \A k \in 1 .. ndisk :
          /\ disks[k].bio \in Devs
          /\ disks[k] = Whole(disks[k].bio)
          /\ GptDevice(disks[k].bio)
          /\ disks[k].bio < i
    /\ \A k, l \in 1 .. ndisk : k < l => disks[k].bio < disks[l].bio
    /\ ndisk < i

TypeOK ==
    /\ devices \in DeviceLists
    /\ disks \in {<< >>} \cup [Devs -> [bio : 0 .. Len(devices), dio : 0 .. Len(devices),
                                         gpt_hd : 0 .. Len(devices),
                                         partitions : -Len(devices) .. Len(devices)]]
    /\ ndisk \in Nat /\ npart \in Nat
    /\ i \in 1 .. Len(devices) + 1
    /\ pc \in {"idle", "cache", "scan", "search"}
    /\ call \in {"list"} \cup Labels
    /\ failed \subseteq Devs
    /\ faults \in 0 .. MaxFaults
    /\ pc = "cache" => disks = << >>
    /\ pc \in {"scan", "search"} => disks # << >>
    /\ disks = << >> => ndisk = 0 /\ npart = 0

\* gpt_list_partition allocates npart entries and never fills more.
ListFits == pc # "scan" => Len(Listed) <= npart

\* The cache of gpt.c is well formed and its entries are coherent.
CacheOK == TypeOK /\ EntriesCoherent

-----------------------------------------------------------------------------
\* The table is that of the devices in disks, once it is complete.
Complete == disks # << >> /\ pc # "scan"
Cached == {disks[k].bio : k \in 1 .. ndisk}
NoTable == {0}

Table == INSTANCE PartTable WITH
    table <- IF Complete THEN Cached ELSE NoTable,
    failed <- IF Complete THEN failed ELSE {}

\* Every answer is the one of a table that was read once and holds every disk
\* whose reads did not fail: a lookup gives the first partition in use of that
\* name, a list every partition in use that has a name.  What a device that
\* failed left in an entry of disks never reaches an answer.
ImplementsTable == Table!Spec
=============================================================================
