-------------------------------- MODULE Ledger --------------------------------
(***************************************************************************)
(* What the boot services' allocators know of a program's memory: pool     *)
(* buffers (AllocatePool, FreePool) and pages (AllocatePages, FreePages),  *)
(* by the name of the pointer that holds them.  External: the firmware is  *)
(* not under src/; this is what the code relies on.                        *)
(***************************************************************************)
Empty ==
    [live |-> {}, lost |-> {}, misused |-> {}, partial |-> {},
     failed |-> FALSE, key |-> FALSE]

LedgerOver(Objects) ==
    [live : SUBSET Objects,
     lost : SUBSET Objects,     \* still allocated, but no pointer is left
     misused : SUBSET Objects,  \* freed or used when not allocated
     partial : SUBSET Objects,  \* freed by another size than allocated
     failed : BOOLEAN,      \* some allocation has failed
     key : BOOLEAN]         \* the memory-map key read last is current

\* An allocation changes the memory map; what the name held before is lost.
New(m, o) ==
    [m EXCEPT !.live = @ \cup {o}, !.key = FALSE,
              !.lost = IF o \in m.live THEN @ \cup {o} ELSE @]

\* Memory is given back once; a second time is a misuse.
Drop(m, o) ==
    [m EXCEPT !.live = @ \ {o}, !.key = FALSE,
              !.misused = IF o \in m.live THEN @ ELSE @ \cup {o}]

NoMemory(m) == [m EXCEPT !.failed = TRUE]

\* GetMemoryMap.
ReadMap(m) == [m EXCEPT !.key = TRUE]

\* The pointers in os go out of scope.
Forget(m, os) == [m EXCEPT !.lost = @ \cup (m.live \cap os), !.live = @ \ os]
=============================================================================
