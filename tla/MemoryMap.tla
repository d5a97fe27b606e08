------------------------------ MODULE MemoryMap ------------------------------
(***************************************************************************)
(* The two walks over the firmware's memory map: emalloc of                *)
(* common/uefi_utils.c looks for aligned pages above the first megabyte,   *)
(* setup_e820_map of common/bootimg/bootimg.c writes the table the kernel  *)
(* learns its memory from.  Any map can be built, region by region.        *)
(***************************************************************************)
EXTENDS Integers, Sequences, SequencesExt

CONSTANTS
    Page, Megabyte,     \* EFI_PAGE_SIZE and 1 << 20, scaled down
    UintnMod, PhysMod,  \* 2^width of UINTN and of EFI_PHYSICAL_ADDRESS
    RegionTypes,              \* types of the regions that occur
    MaxRegions, MaxPages, MaxGap,
    Sizes, Aligns       \* requests to emalloc

ASSUME MemoryMapAssumption ==
    /\ Page \in Nat \ {0} /\ Megabyte % Page = 0
    /\ MaxRegions \in Nat /\ MaxPages \in Nat /\ MaxGap \in Nat
    /\ Megabyte \in Nat /\ UintnMod \in Nat \ {0} /\ PhysMod \in Nat \ {0}
    /\ MaxRegions * (MaxPages + MaxGap) * Page < PhysMod /\ PhysMod >= UintnMod
    /\ Sizes \subseteq 1 .. UintnMod - 1
    \* kernel_alignment and the pages are powers of two
    /\ Aligns \subseteq Nat \ {0}
    /\ \A a \in Aligns : \E k \in 0 .. 32 : a = 2^k

VARIABLE map    \* [Type, PhysicalStart, NumberOfPages] of each region

PagesOf(size) == (size + Page - 1) \div Page
End(d) == d.PhysicalStart + d.NumberOfPages * Page
Covers(d, a) == d.PhysicalStart <= a /\ a < End(d)
Addresses == 0 .. (MaxRegions * (MaxPages + MaxGap) * Page)

MapInit == map = << >>

\* The next region of the memory, listed last or first: the firmware need not
\* list them in order.
Top == IF map = << >> THEN 0
       ELSE CHOOSE t \in Addresses : /\ \E k \in DOMAIN map : t = End(map[k])
                                     /\ \A k \in DOMAIN map : End(map[k]) <= t

AddRegion(type, n, gap) ==
    /\ Len(map) < MaxRegions
    /\ LET d == [Type |-> type, PhysicalStart |-> Top + gap * Page, NumberOfPages |-> n]
       IN map' = Append(map, d) \/ map' = <<d>> \o map

MapNext == \E type \in RegionTypes, n \in 1 .. MaxPages, gap \in 0 .. MaxGap : AddRegion(type, n, gap)

-----------------------------------------------------------------------------
(***************************************************************************)
(* emalloc(size, align).  The walk carries the size, which a region across *)
(* the first megabyte reduces for all that follow, and the address found.  *)
(***************************************************************************)
None == -1

Free(a) == \E k \in DOMAIN map : map[k].Type = "Conventional" /\ Covers(map[k], a)

\* AllocatePages at an address: all the pages must be free.
allocate_pages(a, n) == \A x \in a .. a + n * Page - 1 : Free(x)

RoundUp(a, align) == ((a + align - 1) \div align) * align

\* Mutant: < written for <=.
FitsBefore_Strict(aligned, size, end) == (aligned + size) % PhysMod < end

FitsBefore(aligned, size, end) == (aligned + size) % PhysMod <= end

TryRegion(st, d, align, n) ==
    LET across == d.PhysicalStart < Megabyte
        start == IF across THEN Megabyte ELSE d.PhysicalStart
        size == IF across THEN (st.size - (Megabyte - d.PhysicalStart)) % UintnMod ELSE st.size
        aligned == RoundUp(start, align)
    IN IF \/ st.addr # None
          \/ d.Type # "Conventional"
          \/ d.NumberOfPages < n
          \/ End(d) <= Megabyte
       THEN st
       ELSE [size |-> size,
             addr |-> IF FitsBefore(aligned, size, End(d)) /\ allocate_pages(aligned, n)
                      THEN aligned ELSE None]

emalloc(size, align) ==
    LET walk[k \in 0 .. Len(map)] ==
            IF k = 0 THEN [size |-> size, addr |-> None]
            ELSE TryRegion(walk[k - 1], map[k], align, PagesOf(size))
    IN walk[Len(map)].addr

\* What emalloc returns is aligned, above the first megabyte and was free to
\* the last page; and it gives up only if no region of the map holds such
\* pages, whatever regions were tried before and did to the size.  Here for
\* UINTN as wide as an address.
EmallocFits ==
    \A size \in Sizes, align \in Aligns :
        LET a == emalloc(size, align)  n == PagesOf(size)
        IN IF a # None
           THEN a % align = 0 /\ a >= Megabyte /\ allocate_pages(a, n)
           ELSE ~ \E k \in DOMAIN map : \E x \in Addresses :
                      /\ map[k].Type = "Conventional"
                      /\ x >= Megabyte /\ x % align = 0 /\ x % Page = 0
                      /\ map[k].PhysicalStart <= x /\ x + n * Page <= End(map[k])

-----------------------------------------------------------------------------
(***************************************************************************)
(* setup_e820_map: regions to entries, a region that continues the last    *)
(* entry in place and type merged into it.                                 *)
(***************************************************************************)
E820Type(type) ==
    CASE type \in {"Reserved", "RuntimeServicesCode", "RuntimeServicesData",
                   "MemoryMappedIO", "MemoryMappedIOPortSpace", "PalCode"} -> "RESERVED"
      [] type = "UnusableMemory" -> "UNUSABLE"
      [] type = "ACPIReclaimMemory" -> "ACPI"
      [] type \in {"LoaderCode", "LoaderData", "BootServicesCode", "BootServicesData",
                   "Conventional"} -> "RAM"
      [] type = "ACPIMemoryNVS" -> "NVS"
      [] OTHER -> "none"

\* Mutant: regions of one type are merged whatever lies between them.
Continues_AnyGap(e, d) == e # << >> /\ Last(e).type = E820Type(d.Type)

Continues(e, d) ==
    /\ e # << >>
    /\ Last(e).type = E820Type(d.Type)
    /\ Last(e).addr + Last(e).size = d.PhysicalStart

AddEntry(e, d) ==
    IF E820Type(d.Type) = "none" THEN e
    ELSE IF Continues(e, d)
    THEN [e EXCEPT ![Len(e)].size = @ + d.NumberOfPages * Page]
    ELSE Append(e, [addr |-> d.PhysicalStart, size |-> d.NumberOfPages * Page,
                    type |-> E820Type(d.Type)])

setup_e820_map ==
    LET walk[k \in 0 .. Len(map)] ==
            IF k = 0 THEN << >> ELSE AddEntry(walk[k - 1], map[k])
    IN walk[Len(map)]

\* The kernel's table says of every address what the firmware's map says, once
\* and with the same kind of memory, and nothing of an address the map leaves
\* out or gives a type the loader does not know; and no entry could have been
\* merged with the one before it.
E820SameMemory ==
    LET e820 == setup_e820_map
        In(k, a) == e820[k].addr <= a /\ a < e820[k].addr + e820[k].size
    IN /\ \A a \in Addresses :
             {e820[k].type : k \in {k \in DOMAIN e820 : In(k, a)}} =
             {E820Type(d.Type) : d \in {d \in ToSet(map) : Covers(d, a)}} \ {"none"}
       /\ \A k, l \in DOMAIN e820 : \A a \in Addresses : In(k, a) /\ In(l, a) => k = l
       /\ \A k \in DOMAIN e820 \ {1} :
             e820[k - 1].type = e820[k].type => e820[k - 1].addr + e820[k - 1].size # e820[k].addr

=============================================================================
