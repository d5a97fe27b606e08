------------------------------- MODULE BootImg -------------------------------
(***************************************************************************)
(* Starting an Android boot image: android_image_start_partition, _file    *)
(* and _buffer of common/bootimg/bootimg.c, down to the jump into the      *)
(* kernel.  One action is one call that can fail, with the unwinding that  *)
(* its failure causes.  Nothing interleaves with it: boot services run one *)
(* program.  The memory it holds is kept in a ledger.                      *)
(***************************************************************************)
EXTENDS Naturals, Sequences, Ledger

CONSTANTS
    InitPages,      \* pages of hdr.init_size
    KernelPages,    \* pages of ksize, the kernel's size in the image
    CmdlinePages,   \* pages of the command line
    CmdlineBytes,   \* its length and the final zero
    Faults          \* what may fail: see FaultKinds

FaultKinds == {"heap", "pages", "map", "disk", "image", "exit", "platform"}

ASSUME BootImgAssumption ==
    /\ InitPages \in Nat /\ KernelPages \in Nat
    /\ CmdlinePages \in Nat /\ CmdlineBytes \in Nat
    /\ Faults \subseteq FaultKinds

VARIABLES
    pc,
    how,        \* the entry point: "partition", "file" or "buffer"
    mem,        \* ledger
    append,     \* the parameter cmdline: who holds it, and its parts
    kcmd,       \* the command line of boot_params, as parts
    wd          \* the watchdog runs

imageVars == <<how, append, kcmd, wd>>

NULL == [obj |-> "none", parts |-> <<>>]
Image == <<"image">>

\* Objects by the pointer that holds them.
ImageObjects ==
    {"bootimage", "fileinfo", "cmd_line_ptr", "ramdisk_image", "kernel_start",
     "boot_params", "gdt", "map_buf", "updated_cmdline"}

ImagePoints ==
    {"open", "file_open", "header", "read", "file_read", "buffer", "cmdline", "ramdisk",
     "verify", "kernel", "params", "gdt", "hooks", "map", "exit", "jumped",
     "image_failed"}

May(f) == f \in Faults

-----------------------------------------------------------------------------
(***************************************************************************)
(* Giving memory back.                                                     *)
(***************************************************************************)
\* FreePages of n pages where size were allocated.
DropPages(m, o, size, n) ==
    LET d == Drop(m, o)
    IN IF n = size THEN d ELSE [d EXCEPT !.partial = @ \cup {o}]

\* out_bootimage of android_image_start_buffer; its two callers that have
\* allocated the buffer free it too, the file loader also its file information.
OutBootimage(m) ==
    LET freed == Drop(m, "bootimage")
        again == IF how = "buffer" THEN freed ELSE Drop(freed, "bootimage")
    IN IF how = "file" THEN Drop(again, "fileinfo") ELSE again

\* out_cmdline: the number of pages is the length of the string.
OutCmdline(m) ==
    OutBootimage(DropPages(m, "cmd_line_ptr", CmdlinePages, CmdlineBytes))

\* Mutant: the ramdisk is left where it is.
OutRamdisk_Kept(m) == OutCmdline(m)

\* After handover_kernel has returned.
OutRamdisk(m) == OutCmdline(Drop(m, "ramdisk_image"))

\* out of handover_kernel: efree(kernel_start, ksize).
OutKernel(m) == OutRamdisk(DropPages(m, "kernel_start", InitPages, KernelPages))

Fail(m) == pc' = "image_failed" /\ mem' = m
Go(p, m) == pc' = p /\ mem' = m

-----------------------------------------------------------------------------
(***************************************************************************)
(* The entry points.                                                       *)
(***************************************************************************)
\* A call from efi_main, intel_load_target or cmd_boot with the ledger m, in
\* which the pointers of an earlier attempt are out of scope.
StartImage(h, m, cmdline) ==
    /\ pc' = CASE h = "partition" -> "open"
               [] h = "file"      -> "file_open"
               [] OTHER           -> "buffer"
    /\ how' = h
    /\ mem' = m
    /\ append' = cmdline
    /\ kcmd' = <<>>
    /\ UNCHANGED wd

\* open_partition: both lookups may find nothing, or the protocols be
\* missing; the handles found are freed.
OpenPartition ==
    /\ pc = "open"
    /\ \/ Go("header", mem)
       \/ May("disk") /\ Fail(mem)
    /\ UNCHANGED imageVars

ReadHeader ==
    /\ pc = "header"
    /\ \/ Go("read", New(mem, "bootimage"))
       \/ May("disk") /\ Fail(mem)
       \/ May("image") /\ Fail(mem)
       \/ May("heap") /\ Fail(NoMemory(mem))
    /\ UNCHANGED imageVars

ReadPartition ==
    /\ pc = "read"
    /\ \/ Go("buffer", mem)
       \/ May("disk") /\ Fail(Drop(mem, "bootimage"))
    /\ UNCHANGED imageVars

\* The device path, the volume, the file and its size.  A GetInfo that wants
\* more memory gets it after the first buffer was freed.
OpenFile ==
    /\ pc = "file_open"
    /\ \/ Go("file_read", New(mem, "fileinfo"))
       \/ May("disk") /\ Fail(mem)
       \/ May("heap") /\ Fail(NoMemory(mem))
       \/ May("heap") /\ Fail(NoMemory(Drop(New(mem, "fileinfo"), "fileinfo")))
       \/ May("disk") /\ Fail(Drop(New(mem, "fileinfo"), "fileinfo"))
    /\ UNCHANGED imageVars

\* The buffer, its content, and the test of its size.  Without a buffer out
\* passes NULL to FreePool, which refuses it.
ReadFile ==
    /\ pc = "file_read"
    /\ \/ Go("buffer", New(mem, "bootimage"))
       \/ May("heap") /\ Fail(Drop(NoMemory(mem), "fileinfo"))
       \/ /\ May("disk") \/ May("image")
          /\ Fail(Drop(Drop(New(mem, "bootimage"), "bootimage"), "fileinfo"))
    /\ UNCHANGED imageVars

-----------------------------------------------------------------------------
(***************************************************************************)
(* android_image_start_buffer.                                             *)
(***************************************************************************)
\* The marks of the boot sector and of the setup header.
CheckBuffer ==
    /\ pc = "buffer"
    /\ \/ Go("verify", mem)
       \/ May("image") /\ Fail(OutBootimage(mem))
    /\ UNCHANGED imageVars

\* check_signature: unsigned images are allowed, or the image is signed and
\* the firmware accepts it; a policy that cannot be read allows nothing.
VerifyBootImage ==
    /\ pc = "verify"
    /\ \E unsigned_allowed, signed, accepted \in BOOLEAN :
          IF unsigned_allowed \/ (signed /\ accepted)
          THEN Go("cmdline", mem)
          ELSE May("image") /\ Fail(OutBootimage(mem))
    /\ UNCHANGED imageVars

\* Mutant: the caller's string is not copied to the kernel's line.
Joined_Dropped == Image

Joined == Image \o append.parts

\* append is freed once it has been copied, whatever comes after.
WithoutAppend(m) == IF append = NULL THEN m ELSE Drop(m, append.obj)

\* setup_command_line; full_cmdline lives inside it only.
SetupCommandLine ==
    /\ pc = "cmdline"
    /\ \/ /\ Go("ramdisk", New(WithoutAppend(mem), "cmd_line_ptr"))
          /\ kcmd' = Joined
       \/ /\ May("heap")
          /\ Fail(OutBootimage(NoMemory(mem)))
          /\ UNCHANGED kcmd
       \/ /\ May("pages")
          /\ Fail(OutBootimage(NoMemory(WithoutAppend(mem))))
          /\ UNCHANGED kcmd
    /\ UNCHANGED <<how, append, wd>>

\* setup_ramdisk: no memory, or memory that the kernel cannot reach; then
\* the search for disable_kernel_watchdog=1.
SetupRamdisk ==
    /\ pc = "ramdisk"
    /\ \/ Go("kernel", New(mem, "ramdisk_image"))
       \/ May("pages") /\ Fail(OutCmdline(NoMemory(mem)))
       \/ /\ May("pages")
          /\ Fail(OutCmdline(Drop(New(mem, "ramdisk_image"), "ramdisk_image")))
    /\ UNCHANGED imageVars

-----------------------------------------------------------------------------
(***************************************************************************)
(* handover_kernel.                                                        *)
(***************************************************************************)
\* The preferred address, or another one that only a relocatable kernel takes.
AllocateKernel ==
    /\ pc = "kernel"
    /\ \/ Go("params", New(mem, "kernel_start"))
       \/ May("pages") /\ Fail(OutRamdisk(NoMemory(mem)))
       \/ May("pages") /\ Fail(OutKernel(New(mem, "kernel_start")))
    /\ UNCHANGED imageVars

SetupParams ==
    /\ pc = "params"
    /\ \/ Go("gdt", New(mem, "boot_params"))
       \/ May("pages") /\ Fail(OutKernel(NoMemory(mem)))
    /\ UNCHANGED imageVars

SetupGdt ==
    /\ pc = "gdt"
    /\ \/ Go("hooks", New(mem, "gdt"))
       \/ May("pages") /\ Fail(OutKernel(NoMemory(mem)))
    /\ UNCHANGED imageVars

\* hooks->watchdog unless the command line disables it, then
\* hooks->before_exit, which leaves the ledger m and a new memory map.
RunHooks(m) ==
    /\ pc = "hooks"
    /\ wd' \in {wd, TRUE}
    /\ Go("map", [m EXCEPT !.key = FALSE])
    /\ UNCHANGED <<how, append, kcmd>>

\* Mutant: the size and the key come from a first call, the buffer follows.
memory_map_KeyFirst(m) == New(ReadMap(m), "map_buf")

\* memory_map: the buffer is allocated before the key is read; one too small
\* is freed and the next is larger.
memory_map(m) == ReadMap(New(m, "map_buf"))

\* setup_efi_memory_map: the map is turned into the E820 table.
SetupMemoryMap ==
    /\ pc = "map"
    /\ \/ Go("exit", memory_map(mem))
       \/ May("heap") /\ Fail(OutKernel(NoMemory(mem)))
       \/ May("map") /\ Fail(OutKernel(New(mem, "map_buf")))
    /\ UNCHANGED imageVars

\* ExitBootServices refuses a key that is not current; hooks->before_jump
\* and kernel_jump follow.
ExitBootServices ==
    /\ pc = "exit"
    /\ \/ mem.key /\ Go("jumped", mem)
       \/ (~mem.key \/ May("exit")) /\ Fail(OutKernel(mem))
    /\ UNCHANGED imageVars

ImageStep ==
    \/ OpenPartition \/ ReadHeader \/ ReadPartition \/ OpenFile \/ ReadFile
    \/ CheckBuffer \/ VerifyBootImage \/ SetupCommandLine \/ SetupRamdisk
    \/ AllocateKernel \/ SetupParams \/ SetupGdt \/ SetupMemoryMap
    \/ ExitBootServices
=============================================================================
