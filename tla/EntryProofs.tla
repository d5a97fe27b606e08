----------------------------- MODULE EntryProofs -----------------------------
(***************************************************************************)
(* Theorems about Entry, for any sizes, numbers of volumes and attempts,   *)
(* and any faults.                                                         *)
(***************************************************************************)
EXTENDS Entry, FiniteSetTheorems, TLAPS

Objects == EntryObjects \cup ImageObjects \cup {"volume"}
Ledgers == LedgerOver(Objects)

\* What an attempt allocates and has to give back if it fails.
Made == {"bootimage", "fileinfo", "cmd_line_ptr", "ramdisk_image", "kernel_start"}

\* Of these, m has exactly the objects of S, lost none, and misused none but
\* the image itself.
Holds(m, S) ==
    /\ m \in Ledgers
    /\ \A o \in Made : o \in m.live <=> o \in S
    /\ \A o \in Made : o \notin m.lost
    /\ \A o \in Made : o \in m.misused => o = "bootimage"

\* The points from one on, in the order of the calls.
FromKernelStart == {"params", "gdt", "hooks", "map", "exit", "jumped"}
FromRamdisk == {"kernel"} \cup FromKernelStart
FromCmdline == {"ramdisk"} \cup FromRamdisk
FromBuffer == {"buffer", "verify", "cmdline"} \cup FromCmdline

Held ==
    {o \in Made :
        \/ o = "bootimage" /\ (pc = "read" \/ (pc \in FromBuffer /\ how # "buffer"))
        \/ o = "fileinfo" /\ (pc = "file_read" \/ (pc \in FromBuffer /\ how = "file"))
        \/ o = "cmd_line_ptr" /\ pc \in FromCmdline
        \/ o = "ramdisk_image" /\ pc \in FromRamdisk
        \/ o = "kernel_start" /\ pc \in FromKernelStart}

HeldInv == Holds(mem, Held)

\* What the handover itself allocates, and the key.
ReadyInv ==
    /\ pc \in {"gdt", "hooks", "map", "exit", "jumped"} => "boot_params" \in mem.live
    /\ pc \in {"hooks", "map", "exit", "jumped"} => "gdt" \in mem.live
    /\ pc \in {"exit", "jumped"} => "map_buf" \in mem.live
    /\ pc = "exit" => mem.key

\* A string has an owner or is NULL.
OwnerInv ==
    /\ append = NULL \/ append.obj \in {"cmdline", "updated_cmdline"}
    /\ line = NULL \/ line.obj \in {"cmdline", "battlow_cmdline", "full_line"}

\* The first calls of an attempt are those of its entry point.
HowInv ==
    /\ pc \in {"open", "header", "read"} => how = "partition"
    /\ pc \in {"file_open", "file_read"} => how = "file"

Inv == TypeOK /\ HeldInv /\ ReadyInv /\ OwnerInv /\ HowInv

-----------------------------------------------------------------------------
(***************************************************************************)
(* The operations of the ledger.                                           *)
(***************************************************************************)
LEMMA NewHolds ==
  ASSUME NEW m, NEW S, Holds(m, S), NEW o \in Objects
  PROVE  /\ New(m, o) \in Ledgers
         /\ New(m, o).live = m.live \cup {o} /\ ~New(m, o).key
         /\ o \notin Made => Holds(New(m, o), S)
         /\ o \in Made \ S => Holds(New(m, o), S \cup {o})
  BY DEF Holds, New, Ledgers, LedgerOver

LEMMA DropHolds ==
  ASSUME NEW m, NEW S, Holds(m, S), NEW o \in Objects
  PROVE  /\ Drop(m, o) \in Ledgers
         /\ Drop(m, o).live = m.live \ {o}
         /\ o \notin Made => Holds(Drop(m, o), S)
         /\ o \in S \/ o = "bootimage" => Holds(Drop(m, o), S \ {o})
  BY DEF Holds, Drop, Ledgers, LedgerOver

LEMMA NoMemoryHolds ==
  ASSUME NEW m, NEW S, Holds(m, S)
  PROVE  Holds(NoMemory(m), S) /\ NoMemory(m).live = m.live
  BY DEF Holds, NoMemory, Ledgers, LedgerOver

LEMMA ReadMapHolds ==
  ASSUME NEW m, NEW S, Holds(m, S)
  PROVE  Holds(ReadMap(m), S) /\ ReadMap(m).live = m.live /\ ReadMap(m).key
  BY DEF Holds, ReadMap, Ledgers, LedgerOver

LEMMA ForgetHolds ==
  ASSUME NEW m, NEW S, Holds(m, S), NEW os, os \cap S = {}
  PROVE  Holds(Forget(m, os), S)
  BY DEF Holds, Forget, Ledgers, LedgerOver

LEMMA DropPagesHolds ==
  ASSUME NEW m, NEW S, Holds(m, S), NEW o \in S \cap Made, NEW size, NEW k
  PROVE  Holds(DropPages(m, o, size, k), S \ {o})
  <1>1. o \in Objects
    BY DEF Made, Objects, EntryObjects, ImageObjects
  <1>2. Holds(Drop(m, o), S \ {o})
    BY <1>1, DropHolds
  <1>3. Holds([Drop(m, o) EXCEPT !.partial = @ \cup {o}], S \ {o})
    BY <1>1, <1>2 DEF Holds, Ledgers, LedgerOver
  <1> QED
    BY <1>2, <1>3 DEF DropPages

-----------------------------------------------------------------------------
(***************************************************************************)
(* The unwinding of a failed attempt gives back everything it holds.       *)
(***************************************************************************)
\* What the caller of android_image_start_buffer holds.
Image0 == {o \in {"bootimage", "fileinfo"} : how = "file" \/ (how = "partition" /\ o = "bootimage")}

LEMMA OutBootimageHolds ==
  ASSUME how \in {"partition", "file", "buffer"}, NEW m, Holds(m, Image0)
  PROVE  Holds(OutBootimage(m), {})
  <1>1. "bootimage" \in Objects /\ "fileinfo" \in Objects
    BY DEF Objects, ImageObjects
  <1>2. Holds(Drop(m, "bootimage"), Image0 \ {"bootimage"})
    BY <1>1, DropHolds
  <1>3. Holds(Drop(Drop(m, "bootimage"), "bootimage"), Image0 \ {"bootimage"})
    <2>1. Holds(Drop(Drop(m, "bootimage"), "bootimage"), (Image0 \ {"bootimage"}) \ {"bootimage"})
      BY <1>1, <1>2, DropHolds
    <2> QED
      BY <2>1 DEF Holds
  <1>4. CASE how = "buffer"
    <2>1. Image0 \ {"bootimage"} = {}
      BY <1>4 DEF Image0
    <2> QED
      BY <1>2, <1>4, <2>1 DEF OutBootimage
  <1>5. CASE how = "partition"
    <2>1. Image0 \ {"bootimage"} = {}
      BY <1>5 DEF Image0
    <2> QED
      BY <1>3, <1>5, <2>1 DEF OutBootimage
  <1>6. CASE how = "file"
    <2>1. Image0 \ {"bootimage"} = {"fileinfo"}
      BY <1>6 DEF Image0
    <2>2. Holds(Drop(Drop(Drop(m, "bootimage"), "bootimage"), "fileinfo"), {"fileinfo"} \ {"fileinfo"})
      BY <1>1, <1>3, <2>1, DropHolds
    <2> QED
      BY <1>6, <2>2 DEF OutBootimage, Holds
  <1> QED
    BY <1>4, <1>5, <1>6

LEMMA OutHolds ==
  ASSUME how \in {"partition", "file", "buffer"}, NEW m
  PROVE  /\ Holds(m, Image0 \cup {"cmd_line_ptr"}) => Holds(OutCmdline(m), {})
         /\ Holds(m, Image0 \cup {"cmd_line_ptr", "ramdisk_image"}) => Holds(OutRamdisk(m), {})
         /\ Holds(m, Image0 \cup {"cmd_line_ptr", "ramdisk_image", "kernel_start"}) =>
               Holds(OutKernel(m), {})
  <1>1. \A l : Holds(l, Image0 \cup {"cmd_line_ptr"}) => Holds(OutCmdline(l), {})
    <2> SUFFICES ASSUME NEW l, Holds(l, Image0 \cup {"cmd_line_ptr"})
                 PROVE  Holds(OutCmdline(l), {})
      OBVIOUS
    <2>1. (Image0 \cup {"cmd_line_ptr"}) \ {"cmd_line_ptr"} = Image0
      BY DEF Image0
    <2>2. Holds(DropPages(l, "cmd_line_ptr", CmdlinePages, CmdlineBytes), Image0)
      BY <2>1, DropPagesHolds DEF Made
    <2> QED
      BY <2>2, OutBootimageHolds DEF OutCmdline
  <1>2. \A l : Holds(l, Image0 \cup {"cmd_line_ptr", "ramdisk_image"}) => Holds(OutRamdisk(l), {})
    <2> SUFFICES ASSUME NEW l, Holds(l, Image0 \cup {"cmd_line_ptr", "ramdisk_image"})
                 PROVE  Holds(OutRamdisk(l), {})
      OBVIOUS
    <2>1. (Image0 \cup {"cmd_line_ptr", "ramdisk_image"}) \ {"ramdisk_image"}
              = Image0 \cup {"cmd_line_ptr"}
      BY DEF Image0
    <2>2. Holds(Drop(l, "ramdisk_image"), Image0 \cup {"cmd_line_ptr"})
      BY <2>1, DropHolds DEF Objects, ImageObjects
    <2> QED
      BY <2>2, <1>1 DEF OutRamdisk
  <1>3. ASSUME Holds(m, Image0 \cup {"cmd_line_ptr", "ramdisk_image", "kernel_start"})
        PROVE  Holds(OutKernel(m), {})
    <2>1. (Image0 \cup {"cmd_line_ptr", "ramdisk_image", "kernel_start"}) \ {"kernel_start"}
              = Image0 \cup {"cmd_line_ptr", "ramdisk_image"}
      BY DEF Image0
    <2>2. Holds(DropPages(m, "kernel_start", InitPages, KernelPages),
                Image0 \cup {"cmd_line_ptr", "ramdisk_image"})
      BY <1>3, <2>1, DropPagesHolds DEF Made
    <2> QED
      BY <2>2, <1>2 DEF OutKernel
  <1> QED
    BY <1>1, <1>2, <1>3

\* Before and after a step: the objects by the point.
LEMMA HeldAt ==
  ASSUME HeldInv, how \in {"partition", "file", "buffer"}
  PROVE  /\ pc \in {"buffer", "verify", "cmdline"} => Holds(mem, Image0)
         /\ pc = "ramdisk" => Holds(mem, Image0 \cup {"cmd_line_ptr"})
         /\ pc = "kernel" => Holds(mem, Image0 \cup {"cmd_line_ptr", "ramdisk_image"})
         /\ pc \in FromKernelStart =>
               Holds(mem, Image0 \cup {"cmd_line_ptr", "ramdisk_image", "kernel_start"})
         /\ pc \notin {"read", "file_read"} \cup FromBuffer => Holds(mem, {})
         /\ pc = "read" => Holds(mem, {"bootimage"})
         /\ pc = "file_read" => Holds(mem, {"fileinfo"})
  BY DEF HeldInv, Held, Holds, Image0, FromBuffer, FromCmdline, FromRamdisk, FromKernelStart

LEMMA HeldAfter ==
  ASSUME how' \in {"partition", "file", "buffer"}
  PROVE  /\ pc' \in {"buffer", "verify", "cmdline"} /\ Holds(mem', Image0') => HeldInv'
         /\ pc' = "ramdisk" /\ Holds(mem', Image0' \cup {"cmd_line_ptr"}) => HeldInv'
         /\ pc' = "kernel" /\ Holds(mem', Image0' \cup {"cmd_line_ptr", "ramdisk_image"}) => HeldInv'
         /\ /\ pc' \in FromKernelStart
            /\ Holds(mem', Image0' \cup {"cmd_line_ptr", "ramdisk_image", "kernel_start"})
            => HeldInv'
         /\ pc' \notin {"read", "file_read"} \cup FromBuffer /\ Holds(mem', {}) => HeldInv'
         /\ pc' = "read" /\ Holds(mem', {"bootimage"}) => HeldInv'
         /\ pc' = "file_read" /\ Holds(mem', {"fileinfo"}) => HeldInv'
  BY DEF HeldInv, Held, Holds, Image0, FromBuffer, FromCmdline, FromRamdisk, FromKernelStart

-----------------------------------------------------------------------------
(***************************************************************************)
(* The steps of an attempt.                                                *)
(***************************************************************************)
\* append has been copied and is given back.
LEMMA WithoutAppendHolds ==
  ASSUME OwnerInv, NEW m, NEW S, Holds(m, S)
  PROVE  Holds(WithoutAppend(m), S)
  BY DropHolds DEF WithoutAppend, OwnerInv, Objects, EntryObjects, ImageObjects, Made

LEMMA ImageHolds ==
  ASSUME Inv, ImageStep
  PROVE  HeldInv'
  <1> USE DEF Fail, Go, imageVars
  <1>t. /\ how \in {"partition", "file", "buffer"} /\ how' = how /\ Image0' = Image0
        /\ HeldInv /\ OwnerInv /\ HowInv
    BY DEF Inv, TypeOK, ImageStep, Image0, OpenPartition, ReadHeader, ReadPartition, OpenFile,
           ReadFile, CheckBuffer, VerifyBootImage, SetupCommandLine, SetupRamdisk,
           AllocateKernel, SetupParams, SetupGdt, SetupMemoryMap, ExitBootServices
  <1>o. ImageObjects \subseteq Objects /\ Made \subseteq Objects
    BY DEF Objects, Made, ImageObjects
  <1>f. pc' = "image_failed" /\ Holds(mem', {}) => HeldInv'
    BY <1>t, HeldAfter DEF FromBuffer, FromCmdline, FromRamdisk, FromKernelStart
  <1>1. CASE OpenPartition \/ ReadHeader \/ ReadPartition
    <2>p. how = "partition"
      BY <1>1, <1>t DEF HowInv, OpenPartition, ReadHeader, ReadPartition
    <2>1. CASE OpenPartition \/ ReadHeader
      <3>1. Holds(mem, {}) /\ pc' \in {"header", "read", "image_failed"}
        BY <2>1, <1>t, HeldAt DEF OpenPartition, ReadHeader, FromBuffer, FromCmdline, FromRamdisk, FromKernelStart
      <3>2. Holds(NoMemory(mem), {})
        BY <3>1, NoMemoryHolds
      <3>3. Holds(New(mem, "bootimage"), {"bootimage"})
        <4>1. {} \cup {"bootimage"} = {"bootimage"}
          OBVIOUS
        <4> QED
          BY <3>1, <4>1, <1>o, NewHolds DEF Made
      <3> QED
        BY <2>1, <1>t, <1>f, <3>1, <3>2, <3>3, HeldAfter
           DEF OpenPartition, ReadHeader, FromBuffer, FromCmdline, FromRamdisk, FromKernelStart
    <2>2. CASE ReadPartition
      <3>1. Holds(mem, {"bootimage"}) /\ Image0 = {"bootimage"}
        BY <2>2, <2>p, <1>t, HeldAt DEF ReadPartition, Image0
      <3>2. Holds(Drop(mem, "bootimage"), {})
        <4>1. {"bootimage"} \ {"bootimage"} = {}
          OBVIOUS
        <4> QED
          BY <3>1, <4>1, <1>o, DropHolds DEF Made
      <3> QED
        BY <2>2, <1>t, <1>f, <3>1, <3>2, HeldAfter DEF ReadPartition
    <2> QED
      BY <1>1, <2>1, <2>2
  <1>7. CASE OpenFile \/ ReadFile
    <2>p. how = "file"
      BY <1>7, <1>t DEF HowInv, OpenFile, ReadFile
    <2>1. CASE OpenFile
      <3>1. Holds(mem, {})
        BY <2>1, <1>t, HeldAt DEF OpenFile, FromBuffer, FromCmdline, FromRamdisk, FromKernelStart
      <3>2. Holds(New(mem, "fileinfo"), {"fileinfo"})
        <4>1. {} \cup {"fileinfo"} = {"fileinfo"}
          OBVIOUS
        <4> QED
          BY <3>1, <4>1, <1>o, NewHolds DEF Made
      <3>3. Holds(Drop(New(mem, "fileinfo"), "fileinfo"), {})
        <4>1. {"fileinfo"} \ {"fileinfo"} = {}
          OBVIOUS
        <4> QED
          BY <3>2, <4>1, <1>o, DropHolds DEF Made
      <3> QED
        BY <2>1, <1>t, <1>f, <3>1, <3>2, <3>3, NoMemoryHolds, HeldAfter DEF OpenFile
    <2>2. CASE ReadFile
      <3>1. Holds(mem, {"fileinfo"}) /\ Image0 = {"bootimage", "fileinfo"}
        BY <2>2, <2>p, <1>t, HeldAt DEF ReadFile, Image0
      <3>2. Holds(New(mem, "bootimage"), {"bootimage", "fileinfo"})
        <4>1. {"fileinfo"} \cup {"bootimage"} = {"bootimage", "fileinfo"}
          OBVIOUS
        <4> QED
          BY <3>1, <4>1, <1>o, NewHolds DEF Made
      <3>3. Holds(Drop(New(mem, "bootimage"), "bootimage"), {"fileinfo"})
        <4>1. {"bootimage", "fileinfo"} \ {"bootimage"} = {"fileinfo"}
          OBVIOUS
        <4> QED
          BY <3>2, <4>1, <1>o, DropHolds DEF Made
      <3>4. \A m : Holds(m, {"fileinfo"}) => Holds(Drop(m, "fileinfo"), {})
        <4>1. {"fileinfo"} \ {"fileinfo"} = {}
          OBVIOUS
        <4> QED
          BY <4>1, <1>o, DropHolds DEF Made
      <3>5. Holds(NoMemory(mem), {"fileinfo"})
        BY <3>1, NoMemoryHolds
      <3> QED
        BY <2>2, <1>t, <1>f, <3>1, <3>2, <3>3, <3>4, <3>5, HeldAfter DEF ReadFile
    <2> QED
      BY <1>7, <2>1, <2>2
  <1>2. CASE CheckBuffer \/ VerifyBootImage
    <2>1. Holds(mem, Image0)
      BY <1>2, <1>t, HeldAt DEF CheckBuffer, VerifyBootImage
    <2>2. Holds(OutBootimage(mem), {})
      BY <2>1, <1>t, OutBootimageHolds
    <2> QED
      BY <1>2, <1>t, <1>f, <2>1, <2>2, HeldAfter DEF CheckBuffer, VerifyBootImage
  <1>3. CASE SetupCommandLine
    <2>1. Holds(mem, Image0) /\ Holds(WithoutAppend(mem), Image0)
      BY <1>3, <1>t, HeldAt, WithoutAppendHolds DEF SetupCommandLine
    <2>2. Holds(New(WithoutAppend(mem), "cmd_line_ptr"), Image0 \cup {"cmd_line_ptr"})
      BY <2>1, <1>o, NewHolds DEF Image0, Made
    <2>3. /\ Holds(OutBootimage(NoMemory(mem)), {})
          /\ Holds(OutBootimage(NoMemory(WithoutAppend(mem))), {})
      BY <2>1, <1>t, NoMemoryHolds, OutBootimageHolds
    <2> QED
      BY <1>3, <1>t, <1>f, <2>2, <2>3, HeldAfter DEF SetupCommandLine
  <1>4. CASE SetupRamdisk
    <2> DEFINE S == Image0 \cup {"cmd_line_ptr"}
    <2>1. Holds(mem, S)
      BY <1>4, <1>t, HeldAt DEF SetupRamdisk
    <2>2. Holds(New(mem, "ramdisk_image"), S \cup {"ramdisk_image"})
      BY <2>1, <1>o, NewHolds DEF Image0, Made
    <2>3. Holds(Drop(New(mem, "ramdisk_image"), "ramdisk_image"), S)
      <3>1. (S \cup {"ramdisk_image"}) \ {"ramdisk_image"} = S
        BY DEF Image0
      <3> QED
        BY <2>2, <3>1, <1>o, DropHolds DEF Made
    <2>4. /\ Holds(OutCmdline(NoMemory(mem)), {})
          /\ Holds(OutCmdline(Drop(New(mem, "ramdisk_image"), "ramdisk_image")), {})
      BY <2>1, <2>3, <1>t, NoMemoryHolds, OutHolds
    <2>5. S \cup {"ramdisk_image"} = Image0 \cup {"cmd_line_ptr", "ramdisk_image"}
      OBVIOUS
    <2> QED
      BY <1>4, <1>t, <1>f, <2>2, <2>4, <2>5, HeldAfter DEF SetupRamdisk
  <1>5. CASE AllocateKernel
    <2> DEFINE S == Image0 \cup {"cmd_line_ptr", "ramdisk_image"}
    <2>1. Holds(mem, S)
      BY <1>5, <1>t, HeldAt DEF AllocateKernel
    <2>2. Holds(New(mem, "kernel_start"), S \cup {"kernel_start"})
      BY <2>1, <1>o, NewHolds DEF Image0, Made
    <2>3. S \cup {"kernel_start"} = Image0 \cup {"cmd_line_ptr", "ramdisk_image", "kernel_start"}
      OBVIOUS
    <2>4. Holds(OutRamdisk(NoMemory(mem)), {}) /\ Holds(OutKernel(New(mem, "kernel_start")), {})
      BY <2>1, <2>2, <2>3, <1>t, NoMemoryHolds, OutHolds
    <2> QED
      BY <1>5, <1>t, <1>f, <2>2, <2>3, <2>4, HeldAfter DEF AllocateKernel, FromKernelStart
  <1>6. CASE SetupParams \/ SetupGdt \/ SetupMemoryMap \/ ExitBootServices
    <2> DEFINE S == Image0 \cup {"cmd_line_ptr", "ramdisk_image", "kernel_start"}
    <2>1. Holds(mem, S)
      BY <1>6, <1>t, HeldAt DEF SetupParams, SetupGdt, SetupMemoryMap, ExitBootServices, FromKernelStart
    <2>2. /\ Holds(New(mem, "boot_params"), S) /\ Holds(New(mem, "gdt"), S)
          /\ Holds(New(mem, "map_buf"), S)
      BY <2>1, <1>o, NewHolds DEF Made, ImageObjects
    <2>3. Holds(memory_map(mem), S)
      BY <2>2, ReadMapHolds DEF memory_map
    <2>4. /\ Holds(OutKernel(NoMemory(mem)), {}) /\ Holds(OutKernel(mem), {})
          /\ Holds(OutKernel(New(mem, "map_buf")), {})
      BY <2>1, <2>2, <1>t, NoMemoryHolds, OutHolds
    <2> QED
      BY <1>6, <1>t, <1>f, <2>1, <2>2, <2>3, <2>4, HeldAfter
         DEF SetupParams, SetupGdt, SetupMemoryMap, ExitBootServices, FromKernelStart
  <1> QED
    BY <1>1, <1>2, <1>3, <1>4, <1>5, <1>6, <1>7 DEF ImageStep

\* The other parts of the invariant, in the steps of an attempt.
LEMMA ImageKeeps ==
  ASSUME Inv, ImageStep, UNCHANGED <<fs, entryVars>>
  PROVE  Inv'
  <1> USE DEF Fail, Go, imageVars
  <1>t. TypeOK /\ HeldInv /\ ReadyInv /\ OwnerInv /\ HowInv
    BY DEF Inv
  <1>s. how' = how /\ append' = append /\ wd' = wd
    BY DEF ImageStep, OpenPartition, ReadHeader, ReadPartition, OpenFile,
           ReadFile, CheckBuffer, VerifyBootImage, SetupCommandLine, SetupRamdisk,
           AllocateKernel, SetupParams, SetupGdt, SetupMemoryMap, ExitBootServices
  <1>p. pc' \in ImagePoints
    BY DEF ImageStep, OpenPartition, ReadHeader, ReadPartition, OpenFile,
           ReadFile, CheckBuffer, VerifyBootImage, SetupCommandLine, SetupRamdisk,
           AllocateKernel, SetupParams, SetupGdt, SetupMemoryMap, ExitBootServices, ImagePoints
  <1>h. HeldInv'
    BY ImageHolds
  <1>k. kcmd' \in Seq(Parts)
    <2>1. append.parts \in Seq(Parts) /\ Image \in Seq(Parts)
      BY <1>t DEF TypeOK, Lines, Image, Parts
    <2>2. Joined \in Seq(Parts)
      BY <2>1 DEF Joined
    <2> QED
      BY <1>t, <2>2 DEF TypeOK, ImageStep, OpenPartition, ReadHeader, ReadPartition, OpenFile,
           ReadFile, CheckBuffer, VerifyBootImage, SetupCommandLine, SetupRamdisk,
           AllocateKernel, SetupParams, SetupGdt, SetupMemoryMap, ExitBootServices
  <1>1. TypeOK'
    <2>1. mem' \in Ledgers
      BY <1>h DEF HeldInv, Holds
    <2> QED
      BY <1>t, <1>s, <1>p, <1>k, <2>1 DEF TypeOK, Points, Ledgers, Objects, entryVars
  <1>2. ReadyInv'
    <2>1. /\ New(mem, "boot_params").live = mem.live \cup {"boot_params"}
          /\ New(mem, "gdt").live = mem.live \cup {"gdt"}
          /\ Holds(New(mem, "map_buf"), Held)
          /\ New(mem, "map_buf").live = mem.live \cup {"map_buf"}
      BY <1>t, NewHolds DEF HeldInv, Objects, ImageObjects, Made
    <2>2. memory_map(mem).live = mem.live \cup {"map_buf"} /\ memory_map(mem).key
      BY <2>1, ReadMapHolds DEF memory_map
    <2> QED
      BY <1>t, <2>1, <2>2 DEF ReadyInv, ImageStep, OpenPartition, ReadHeader, ReadPartition, OpenFile,
           ReadFile, CheckBuffer, VerifyBootImage, SetupCommandLine, SetupRamdisk,
           AllocateKernel, SetupParams, SetupGdt, SetupMemoryMap, ExitBootServices
  <1>3. OwnerInv' /\ HowInv'
    BY <1>t, <1>s DEF OwnerInv, HowInv, entryVars, ImageStep, OpenPartition, ReadHeader,
           ReadPartition, OpenFile,
           ReadFile, CheckBuffer, VerifyBootImage, SetupCommandLine, SetupRamdisk,
           AllocateKernel, SetupParams, SetupGdt, SetupMemoryMap, ExitBootServices
  <1> QED
    BY <1>h, <1>1, <1>2, <1>3 DEF Inv

-----------------------------------------------------------------------------
(***************************************************************************)
(* The steps of efi_main, on a ledger without any part of an image.        *)
(***************************************************************************)
LEMMA IdleOps ==
  ASSUME NEW m, Holds(m, {})
  PROVE  /\ \A o \in Objects \ Made : Holds(New(m, o), {}) /\ Holds(Drop(m, o), {})
         /\ Holds(NoMemory(m), {})
         /\ \A os : Holds(Forget(m, os), {})
         /\ Holds(handle_to_dev(m), {})
         /\ Holds(CloseVolumes(m), {})
  <1>1. \A o \in Objects \ Made : Holds(New(m, o), {}) /\ Holds(Drop(m, o), {})
    BY NewHolds, DropHolds
  <1>2. Holds(NoMemory(m), {}) /\ \A os : Holds(Forget(m, os), {})
    BY NoMemoryHolds, ForgetHolds
  <1>3. Holds(handle_to_dev(m), {})
    BY DEF handle_to_dev, Holds, Ledgers, LedgerOver, Objects, EntryObjects, Made
  <1>4. Holds(CloseVolumes(m), {})
    BY DEF CloseVolumes, Holds, Ledgers, LedgerOver, Objects, EntryObjects, Made
  <1> QED
    BY <1>1, <1>2, <1>3, <1>4

\* In a step of efi_main that ends outside the handover, Inv' is the ledger,
\* the types and the owners.
LEMMA OutsideKeeps ==
  ASSUME Inv, Holds(mem', {}), TypeOK', OwnerInv', HowInv',
         pc' \notin {"read", "file_read"} \cup (FromBuffer \ {"buffer"}),
         pc' = "buffer" => how' = "buffer"
  PROVE  Inv'
  <1>1. HeldInv'
    BY DEF HeldInv, Held, Holds, FromBuffer, FromCmdline, FromRamdisk, FromKernelStart
  <1>2. ReadyInv'
    BY DEF ReadyInv, FromBuffer, FromCmdline, FromRamdisk, FromKernelStart
  <1> QED
    BY <1>1, <1>2 DEF Inv

LEMMA EntryStarts == Init => Inv
  <1> SUFFICES ASSUME Init PROVE Inv
    OBVIOUS
  <1> USE DEF Init
  <1>1. mem \in Ledgers /\ Holds(mem, {})
    BY DEF Empty, Ledgers, LedgerOver, Holds
  <1>e. <<>> \in Seq(Parts)
    OBVIOUS
  <1>n. NULL \in Lines
    BY <1>e DEF Lines, NULL
  <1>2. TypeOK
    <2>1. fs \in [nr : 0 .. NVolumes, open : SUBSET Volumes] /\ attempt \in 0 .. MaxAttempts
      BY EntryAssumption
    <2> QED
      BY <1>1, <1>e, <1>n, <2>1 DEF TypeOK, Points, Ledgers, Objects, Options
  <1>3. HeldInv
    BY <1>1 DEF HeldInv, Held, Holds, FromBuffer, FromCmdline, FromRamdisk, FromKernelStart
  <1> QED
    BY <1>2, <1>3 DEF Inv, ReadyInv, OwnerInv, HowInv, NULL

LEMMA SetupKeeps ==
  ASSUME Inv,
         fs_init \/ LoadedImage \/ GetPath \/ FileOpen \/ ReadConfigFile \/ InitPlatform
  PROVE  Inv'
  <1> USE DEF Go, imageVars, entryVars
  <1>1. /\ TypeOK /\ HeldInv /\ OwnerInv
        /\ UNCHANGED <<imageVars, type, line, saved, attempt>>
    BY DEF Inv, fs_init, LoadedImage, GetPath, FileOpen, ReadConfigFile, InitPlatform
  <1>2. pc' \in {"protocol", "config", "fs_deinit", "file", "options", "platform", "args"}
    BY DEF fs_init, LoadedImage, GetPath, FileOpen, ReadConfigFile, InitPlatform
  <1>3. Holds(mem, {})
    BY <1>1, HeldAt DEF TypeOK, fs_init, LoadedImage, GetPath, FileOpen, ReadConfigFile,
          InitPlatform, FromBuffer, FromCmdline, FromRamdisk, FromKernelStart
  <1>o. {"fs_devices", "path", "file", "a_buf", "options"} \subseteq Objects \ Made
    BY DEF Objects, EntryObjects, Made
  <1>4. Holds(mem', {})
    <2>1. CASE fs_init
      BY <2>1, <1>3, <1>o, IdleOps DEF fs_init
    <2>2. CASE LoadedImage \/ InitPlatform
      BY <2>2, <1>3 DEF LoadedImage, InitPlatform
    <2>3. CASE GetPath
      BY <2>3, <1>3, <1>o, IdleOps DEF GetPath
    <2>4. CASE FileOpen
      BY <2>4, <1>3, <1>o, IdleOps DEF FileOpen
    <2>5. CASE ReadConfigFile
      <3>1. \A m : Holds(m, {}) => \A l \in FileClosed(m) : Holds(l, {})
        BY <1>o, IdleOps DEF FileClosed
      <3>2. /\ Holds(New(mem, "options"), {}) /\ Holds(NoMemory(mem), {})
            /\ Holds(Forget(New(mem, "a_buf"), {"a_buf"}), {})
        BY <1>3, <1>o, IdleOps
      <3> QED
        BY <2>5, <1>3, <3>1, <3>2 DEF ReadConfigFile
    <2> QED
      BY <2>1, <2>2, <2>3, <2>4, <2>5
  <1>5. TypeOK'
    <2>1. mem' \in Ledgers
      BY <1>4 DEF Holds
    <2>2. fs' \in [nr : 0 .. NVolumes, open : SUBSET Volumes]
      BY <1>1, EntryAssumption DEF TypeOK, fs_init, OpenAfterFailure, LoadedImage, GetPath, FileOpen,
            ReadConfigFile, InitPlatform, Volumes
    <2>3. ops' \in {"stub", "x86"} /\ ptr' \subseteq {"name", "cmdline", "options"}
      BY <1>1 DEF TypeOK, fs_init, LoadedImage, GetPath, FileOpen, ReadConfigFile, InitPlatform
    <2> QED
      BY <1>1, <1>2, <2>1, <2>2, <2>3 DEF TypeOK, Points, Ledgers, Objects
  <1>6. OwnerInv' /\ HowInv'
    BY <1>1, <1>2 DEF OwnerInv, HowInv
  <1> QED
    BY <1>2, <1>4, <1>5, <1>6, OutsideKeeps DEF FromBuffer, FromCmdline, FromRamdisk, FromKernelStart

LEMMA ArgsKeeps ==
  ASSUME Inv, ParseArgs \/ ListBlkDevices \/ PrintMemoryMap
  PROVE  Inv'
  <1> USE DEF Go, imageVars, entryVars, usage_exit
  <1>1. /\ TypeOK /\ HeldInv /\ OwnerInv
        /\ UNCHANGED <<imageVars, ops, line, saved, attempt>>
    BY DEF Inv, ParseArgs, ListBlkDevices, PrintMemoryMap
  <1>2. pc' \in {"dispatch", "returned", "fs_deinit", "list", "print_map"}
    BY DEF ParseArgs, ListBlkDevices, PrintMemoryMap
  <1>3. Holds(mem, {})
    BY <1>1, HeldAt DEF TypeOK, ParseArgs, ListBlkDevices, PrintMemoryMap,
          FromBuffer, FromCmdline, FromRamdisk, FromKernelStart
  <1>o. {"fs_devices", "options", "name", "cmdline", "blk_devices", "map_buf"} \subseteq Objects \ Made
    BY DEF Objects, EntryObjects, ImageObjects, Made
  <1>w. \A m : Holds(m, {}) => Holds(WithoutOptions(m), {}) /\ Holds(fs_exit(m), {})
    BY <1>o, IdleOps DEF WithoutOptions, fs_exit
  <1>4. Holds(mem', {})
    <2>1. CASE ParseArgs
      <3>1. /\ Holds(New(mem, "name"), {}) /\ Holds(New(mem, "cmdline"), {})
            /\ Holds(New(New(mem, "name"), "cmdline"), {})
            /\ Holds(Drop(New(mem, "name"), "name"), {})
        BY <1>3, <1>o, IdleOps
      <3>2. \A m : Holds(m, {}) => Holds(NoMemory(m), {})
        BY IdleOps
      <3> QED
        BY <2>1, <1>3, <3>1, <3>2, <1>w DEF ParseArgs
    <2>2. CASE ListBlkDevices
      <3>1. \A m \in blk_init(mem) : Holds(m, {})
        BY <1>3, <1>o, IdleOps DEF blk_init
      <3>2. \A m \in blk_init(mem) : Holds(Drop(m, "blk_devices"), {})
        BY <3>1, <1>o, IdleOps
      <3> QED
        BY <2>2, <3>2, <1>w DEF ListBlkDevices
    <2>3. CASE PrintMemoryMap
      <3>1. Holds(New(mem, "map_buf"), {})
        BY <1>3, <1>o, IdleOps
      <3>2. Holds(memory_map(mem), {})
        BY <3>1, ReadMapHolds DEF memory_map
      <3>3. Holds(Drop(memory_map(mem), "map_buf"), {}) /\ Holds(NoMemory(mem), {})
        BY <1>3, <3>2, <1>o, IdleOps
      <3> QED
        BY <2>3, <3>1, <3>3, <1>w DEF PrintMemoryMap
    <2> QED
      BY <2>1, <2>2, <2>3
  <1>5. TypeOK'
    <2>1. mem' \in Ledgers
      BY <1>4 DEF Holds
    <2>2. fs' \in [nr : 0 .. NVolumes, open : SUBSET Volumes]
      BY <1>1 DEF TypeOK, ParseArgs, ListBlkDevices, PrintMemoryMap, Closed
    <2>3. type' \in Options /\ ptr' \subseteq {"name", "cmdline", "options"}
      BY <1>1 DEF TypeOK, ParseArgs, ListBlkDevices, PrintMemoryMap
    <2> QED
      BY <1>1, <1>2, <2>1, <2>2, <2>3 DEF TypeOK, Points, Ends, Ledgers, Objects
  <1>6. OwnerInv' /\ HowInv'
    BY <1>1, <1>2 DEF OwnerInv, HowInv
  <1> QED
    BY <1>2, <1>4, <1>5, <1>6, OutsideKeeps DEF FromBuffer, FromCmdline, FromRamdisk, FromKernelStart

LEMMA LineKeeps ==
  ASSUME Inv, CheckVbattfreqlmt \/ GetExtraCmdline \/ SaveCmdline \/ Launch
  PROVE  Inv'
  <1> USE DEF imageVars, entryVars
  <1>1. /\ TypeOK /\ HeldInv /\ OwnerInv
        /\ UNCHANGED <<imageVars, fs, ops, type, ptr, attempt>>
    BY DEF Inv, CheckVbattfreqlmt, GetExtraCmdline, SaveCmdline, Launch
  <1>2. pc' \in {"free_args", "extra", "save", "launch", "off", "load"}
    BY DEF CheckVbattfreqlmt, GetExtraCmdline, SaveCmdline, Launch
  <1>3. Holds(mem, {})
    BY <1>1, HeldAt DEF TypeOK, CheckVbattfreqlmt, GetExtraCmdline, SaveCmdline, Launch,
          FromBuffer, FromCmdline, FromRamdisk, FromKernelStart
  <1>o. {"cmdline", "battlow_cmdline", "full_line"} \subseteq Objects \ Made
    BY DEF Objects, EntryObjects, ImageObjects, Made
  <1>r. \A m : Holds(m, {}) => Holds(Release(m, line), {})
    BY <1>1, <1>o, IdleOps DEF Release, OwnerInv
  <1>w. ASSUME NEW obj \in {"battlow_cmdline", "full_line"}, NEW parts, Rewrite(obj, parts)
        PROVE  Holds(mem', {}) /\ line' \in {NULL, [obj |-> obj, parts |-> parts]}
    <2>1. Holds(New(mem, obj), {}) /\ Holds(NoMemory(mem), {})
      BY <1>3, <1>o, IdleOps
    <2> QED
      BY <1>w, <2>1, <1>r DEF Rewrite
  <1>p. /\ line.parts \in Seq(Parts) /\ line \in Lines /\ NULL \in Lines
        /\ <<"battlow">> \o line.parts \in Seq(Parts)
        /\ <<"extra">> \o line.parts \in Seq(Parts)
    <2>1. line.parts \in Seq(Parts) /\ line \in Lines
      BY <1>1 DEF TypeOK, Lines
    <2>2. <<"battlow">> \in Seq(Parts) /\ <<"extra">> \in Seq(Parts) /\ <<>> \in Seq(Parts)
      BY DEF Parts
    <2> QED
      BY <2>1, <2>2 DEF NULL, Lines
  <1>q. \A obj \in {"battlow_cmdline", "full_line"}, parts \in Seq(Parts) :
            [obj |-> obj, parts |-> parts] \in Lines
    BY DEF Lines, EntryObjects
  <1>4. /\ Holds(mem', {})
        /\ line' = NULL \/ line'.obj \in {"cmdline", "battlow_cmdline", "full_line"}
        /\ line' \in Lines
    <2>u. CASE UNCHANGED <<mem, line>>
      BY <2>u, <1>1, <1>3, <1>p DEF OwnerInv
    <2>r. ASSUME NEW obj \in {"battlow_cmdline", "full_line"}, NEW parts \in Seq(Parts),
                 Rewrite(obj, parts)
          PROVE  /\ Holds(mem', {})
                 /\ line' = NULL \/ line'.obj \in {"cmdline", "battlow_cmdline", "full_line"}
                 /\ line' \in Lines
      BY <2>r, <1>w, <1>p, <1>q
    <2>1. CASE CheckVbattfreqlmt
      <3>1. UNCHANGED <<mem, line>> \/ Rewrite("battlow_cmdline", <<"battlow">> \o line.parts)
        BY <2>1 DEF CheckVbattfreqlmt
      <3> QED
        BY <3>1, <2>u, <2>r, <1>p
    <2>2. CASE GetExtraCmdline
      <3>1. \/ UNCHANGED <<mem, line>> \/ Rewrite("full_line", line.parts)
            \/ Rewrite("full_line", <<"extra">> \o line.parts)
        BY <2>2 DEF GetExtraCmdline
      <3> QED
        BY <3>1, <2>u, <2>r, <1>p
    <2>3. CASE SaveCmdline
      BY <2>3, <1>3, <1>r, <1>p DEF SaveCmdline
    <2>4. CASE Launch
      BY <2>4, <1>1, <1>3, <1>p DEF Launch, OwnerInv
    <2> QED
      BY <2>1, <2>2, <2>3, <2>4
  <1>5. TypeOK'
    <2>1. mem' \in Ledgers
      BY <1>4 DEF Holds
    <2>2. saved' \in Seq(Parts)
      BY <1>1, <1>p DEF TypeOK, CheckVbattfreqlmt, GetExtraCmdline, SaveCmdline, Saved, Launch
    <2> QED
      BY <1>1, <1>2, <1>4, <2>1, <2>2 DEF TypeOK, Points, Ends, Ledgers, Objects
  <1>6. OwnerInv' /\ HowInv'
    BY <1>1, <1>2, <1>4 DEF OwnerInv, HowInv
  <1> QED
    BY <1>2, <1>4, <1>5, <1>6, OutsideKeeps DEF FromBuffer, FromCmdline, FromRamdisk, FromKernelStart

LEMMA StartKeeps ==
  ASSUME Inv, Dispatch \/ LoadTarget \/ ImageFailed
  PROVE  Inv'
  <1> USE DEF Go, imageVars, entryVars
  <1>1. TypeOK /\ HeldInv /\ OwnerInv /\ UNCHANGED <<fs, ops, type, ptr>>
    BY DEF Inv, Dispatch, LoadTarget, ImageFailed
  <1>3. Holds(mem, {})
    BY <1>1, HeldAt DEF TypeOK, Dispatch, LoadTarget, ImageFailed,
          FromBuffer, FromCmdline, FromRamdisk, FromKernelStart
  <1>o. "updated_cmdline" \in Objects \ Made
    BY DEF Objects, ImageObjects, Made
  <1>c. /\ Cmdline \in Lines /\ Cmdline.parts \in Seq(Parts) /\ NULL \in Lines
        /\ Cmdline = NULL \/ Cmdline.obj = "cmdline"
    <2>1. <<"user">> \in Seq(Parts) /\ <<>> \in Seq(Parts)
      BY DEF Parts
    <2> QED
      BY <2>1 DEF Cmdline, Lines, NULL, EntryObjects
  <1>e. \A e \in {<<>>, <<"entry">>} :
          /\ LoadLine(e) \in Seq(Parts)
          /\ [obj |-> "updated_cmdline", parts |-> LoadLine(e)] \in Lines
    <2>1. saved \in Seq(Parts) /\ <<>> \in Seq(Parts) /\ <<"entry">> \in Seq(Parts)
      BY <1>1 DEF TypeOK, Parts
    <2>a. \A s, t \in Seq(Parts) : s \o t \in Seq(Parts)
      OBVIOUS
    <2>2. \A e \in {<<>>, <<"entry">>} : LoadLine(e) \in Seq(Parts)
      BY <2>1, <2>a DEF LoadLine
    <2> QED
      BY <2>2 DEF Lines, ImageObjects
  \* A call of android_image_start_*.
  <1>s. ASSUME NEW h \in {"partition", "file", "buffer"}, NEW m, Holds(m, {}), NEW l \in Lines,
               l = NULL \/ l.obj \in {"cmdline", "updated_cmdline"}, StartImage(h, m, l),
               line' \in Lines, saved' \in Seq(Parts), attempt' \in 0 .. MaxAttempts,
               line' = NULL \/ line'.obj \in {"cmdline", "battlow_cmdline", "full_line"}
        PROVE  Inv'
    <2>1. /\ pc' = CASE h = "partition" -> "open" [] h = "file" -> "file_open" [] OTHER -> "buffer"
          /\ how' = h /\ mem' = m /\ append' = l /\ kcmd' = <<>> /\ wd' = wd
      BY <1>s DEF StartImage
    <2>2. pc' \in {"open", "file_open", "buffer"} /\ HowInv' /\ (pc' = "buffer" => how' = "buffer")
      BY <2>1 DEF HowInv
    <2>3. mem' \in Ledgers /\ kcmd' \in Seq(Parts)
      BY <1>s, <2>1 DEF Holds
    <2>4. TypeOK'
      BY <1>s, <1>1, <2>1, <2>2, <2>3 DEF TypeOK, Points, ImagePoints, Ledgers, Objects
    <2>5. OwnerInv'
      BY <1>s, <2>1 DEF OwnerInv
    <2> QED
      BY <1>s, <2>1, <2>2, <2>4, <2>5, OutsideKeeps
         DEF FromBuffer, FromCmdline, FromRamdisk, FromKernelStart
  \* No image is started.
  <1>n. ASSUME pc' \in {"free_args", "load", "vbatt", "reset", "image_failed", "launch"},
               Holds(mem', {}), UNCHANGED imageVars,
               line' \in Lines, saved' \in Seq(Parts), attempt' \in 0 .. MaxAttempts,
               line' = NULL \/ line'.obj \in {"cmdline", "battlow_cmdline", "full_line"}
        PROVE  Inv'
    <2>1. mem' \in Ledgers
      BY <1>n DEF Holds
    <2>2. TypeOK'
      BY <1>n, <1>1, <2>1 DEF TypeOK, Points, ImagePoints, Ends, Ledgers, Objects
    <2>3. OwnerInv' /\ HowInv'
      BY <1>n, <1>1 DEF OwnerInv, HowInv
    <2> QED
      BY <1>n, <2>2, <2>3, OutsideKeeps DEF FromBuffer, FromCmdline, FromRamdisk, FromKernelStart
  <1>4. CASE Dispatch
    <2>1. /\ line' \in Lines /\ saved' \in Seq(Parts) /\ attempt' \in 0 .. MaxAttempts
          /\ line' = NULL \/ line'.obj \in {"cmdline", "battlow_cmdline", "full_line"}
      BY <1>4, <1>1, <1>c DEF Dispatch, TypeOK
    <2>2. \/ \E h \in {"partition", "file", "buffer"} : StartImage(h, mem, Cmdline)
          \/ mem' = mem /\ UNCHANGED imageVars /\ pc' \in {"free_args", "load", "vbatt"}
      BY <1>4 DEF Dispatch
    <2> QED
      BY <2>1, <2>2, <1>3, <1>c, <1>s, <1>n
  <1>5. CASE LoadTarget
    <2>1. /\ line' \in Lines /\ saved' \in Seq(Parts) /\ attempt' \in 0 .. MaxAttempts
          /\ line' = NULL \/ line'.obj \in {"cmdline", "battlow_cmdline", "full_line"}
      BY <1>5, <1>1 DEF LoadTarget, TypeOK, OwnerInv
    <2> DEFINE m == Forget(mem, ImageObjects)
    <2>2. Holds(m, {}) /\ Holds(NoMemory(m), {}) /\ Holds(New(m, "updated_cmdline"), {})
      <3>1. Holds(m, {})
        BY <1>3, IdleOps
      <3> QED
        BY <3>1, <1>o, IdleOps
    <2>3. \/ pc' \in {"reset", "image_failed"} /\ mem' \in {mem, m} /\ UNCHANGED imageVars
          \/ StartImage("partition", m, NULL)
          \/ StartImage("partition", NoMemory(m), NULL)
          \/ \E e \in {<<>>, <<"entry">>} :
                StartImage("partition", New(m, "updated_cmdline"),
                           [obj |-> "updated_cmdline", parts |-> LoadLine(e)])
      BY <1>5 DEF LoadTarget
    <2>4. CASE pc' \in {"reset", "image_failed"} /\ mem' \in {mem, m} /\ UNCHANGED imageVars
      BY <2>1, <2>2, <2>4, <1>3, <1>n
    <2>5. CASE StartImage("partition", m, NULL) \/ StartImage("partition", NoMemory(m), NULL)
      BY <2>1, <2>2, <2>5, <1>c, <1>s
    <2>6. ASSUME NEW e \in {<<>>, <<"entry">>},
                 StartImage("partition", New(m, "updated_cmdline"),
                            [obj |-> "updated_cmdline", parts |-> LoadLine(e)])
          PROVE  Inv'
      BY <2>1, <2>2, <2>6, <1>e, <1>s
    <2> QED
      BY <2>3, <2>4, <2>5, <2>6
  <1>6. CASE ImageFailed
    <2>1. attempt' \in 0 .. MaxAttempts
      BY <1>6, <1>1, EntryAssumption DEF ImageFailed, TypeOK
    <2> QED
      BY <1>6, <2>1, <1>1, <1>3, <1>n DEF ImageFailed, TypeOK, OwnerInv
  <1> QED
    BY <1>4, <1>5, <1>6

LEMMA EndKeeps ==
  ASSUME Inv, FreeArgs \/ FsDeinit \/ Exit
  PROVE  Inv'
  <1> USE DEF Go, imageVars, entryVars
  <1>1. TypeOK /\ HeldInv /\ OwnerInv /\ UNCHANGED <<imageVars, entryVars>>
    BY DEF Inv, FreeArgs, FsDeinit, Exit
  <1>2. pc' \in {"fs_deinit", "error", "exited", "returned"}
    BY DEF FreeArgs, FsDeinit, Exit
  <1>3. Holds(mem, {})
    BY <1>1, HeldAt DEF TypeOK, FreeArgs, FsDeinit, Exit,
          FromBuffer, FromCmdline, FromRamdisk, FromKernelStart
  <1>o. {"fs_devices", "name", "cmdline", "error_buf"} \subseteq Objects \ Made
    BY DEF Objects, EntryObjects, Made
  <1>4. Holds(mem', {})
    <2>1. CASE FreeArgs
      <3>1. Holds(IF "cmdline" \in ptr THEN Drop(mem, "cmdline") ELSE mem, {})
        BY <1>3, <1>o, IdleOps
      <3> QED
        BY <2>1, <3>1, <1>o, IdleOps DEF FreeArgs
    <2>2. CASE FsDeinit
      BY <2>2, <1>3, <1>o, IdleOps DEF FsDeinit, fs_exit
    <2>3. CASE Exit
      BY <2>3, <1>3, <1>o, IdleOps DEF Exit, HookBeforeExit
    <2> QED
      BY <2>1, <2>2, <2>3
  <1>5. TypeOK'
    <2>1. mem' \in Ledgers
      BY <1>4 DEF Holds
    <2>2. fs' \in [nr : 0 .. NVolumes, open : SUBSET Volumes]
      BY <1>1 DEF TypeOK, FreeArgs, FsDeinit, Exit, Closed
    <2> QED
      BY <1>1, <1>2, <2>1, <2>2 DEF TypeOK, Points, Ends, Ledgers, Objects
  <1>6. OwnerInv' /\ HowInv'
    BY <1>1, <1>2 DEF OwnerInv, HowInv
  <1> QED
    BY <1>2, <1>4, <1>5, <1>6, OutsideKeeps DEF FromBuffer, FromCmdline, FromRamdisk, FromKernelStart

\* The hooks run on what the handover needs and leave it alone.
LEMMA HooksKeep ==
  ASSUME Inv, HandoverHooks
  PROVE  Inv'
  <1> USE DEF Go, imageVars, entryVars, HandoverHooks, RunHooks
  <1>1. TypeOK /\ HeldInv /\ OwnerInv /\ ReadyInv /\ UNCHANGED <<how, append, kcmd, entryVars>>
    BY DEF Inv
  <1> DEFINE S == Image0 \cup {"cmd_line_ptr", "ramdisk_image", "kernel_start"}
  <1>2. Holds(mem, S)
    BY <1>1, HeldAt DEF TypeOK, FromKernelStart
  <1>3. Holds(HookBeforeExit(mem), S) /\ HookBeforeExit(mem).live = mem.live
    BY <1>2 DEF HookBeforeExit, CloseVolumes, Holds, Ledgers, LedgerOver, Objects, EntryObjects, Made
  <1>4. Holds(mem', S) /\ mem'.live = mem.live
    BY <1>3 DEF Holds, Ledgers, LedgerOver
  <1>5. HeldInv'
    <2>1. Image0' = Image0
      BY <1>1 DEF Image0
    <2> QED
      BY <1>1, <1>4, <2>1, HeldAfter DEF TypeOK, FromKernelStart
  <1>6. ReadyInv'
    BY <1>1, <1>4 DEF ReadyInv
  <1>7. TypeOK'
    <2>1. mem' \in Ledgers
      BY <1>4 DEF Holds
    <2>2. fs' \in [nr : 0 .. NVolumes, open : SUBSET Volumes]
      BY <1>1 DEF TypeOK, Closed
    <2>3. wd' \in BOOLEAN
      BY <1>1, Zenon DEF TypeOK
    <2> QED
      BY <1>1, <2>1, <2>2, <2>3 DEF TypeOK, Points, ImagePoints, Ledgers, Objects
  <1>8. OwnerInv' /\ HowInv'
    BY <1>1 DEF OwnerInv, HowInv
  <1> QED
    BY <1>5, <1>6, <1>7, <1>8 DEF Inv

LEMMA EntryStep == Inv /\ [Next]_vars => Inv'
  <1> SUFFICES ASSUME Inv, [Next]_vars PROVE Inv'
    OBVIOUS
  <1>1. CASE UNCHANGED vars
    BY <1>1 DEF vars, imageVars, entryVars, Inv, TypeOK, HeldInv, Held, Holds, ReadyInv, OwnerInv, HowInv
  <1> QED
    BY <1>1, SetupKeeps, ArgsKeeps, LineKeeps, StartKeeps, EndKeeps, HooksKeep, ImageKeeps DEF Next

LEMMA InvHolds == Spec => []Inv
  BY EntryStarts, EntryStep, PTL DEF Spec

-----------------------------------------------------------------------------
(***************************************************************************)
(* The theorems.                                                           *)
(***************************************************************************)
\* The ledger and the variables of efi_main keep their types.
THEOREM EntryTypes == Spec => []TypeOK
  <1>1. Inv => TypeOK
    BY DEF Inv
  <1> QED
    BY <1>1, InvHolds, PTL

\* The kernel starts on memory that is still allocated, and
\* ExitBootServices gets a current key.
THEOREM HandoverSafe == Spec => []HandoverIntact
  <1>1. Inv => HandoverIntact
    BY HeldAt DEF Inv, TypeOK, ReadyInv, HandoverIntact, Holds, Made, FromKernelStart
  <1> QED
    BY <1>1, InvHolds, PTL

\* A failed attempt loses none of the image, its file information, ramdisk,
\* command line and kernel pages, and of these frees only the image twice.
\* The objects in Abandoned, which a failed handover loses, and efi_main's
\* cmdline, which is freed twice, are not among them.
THEOREM AttemptSafe == Spec => []AttemptReturnsImage
  <1>1. ImageObjects \ Abandoned = Made
    BY DEF ImageObjects, Abandoned, Made
  <1>2. Inv => AttemptReturnsImage
    BY <1>1 DEF Inv, HeldInv, Holds, AttemptReturnsImage
  <1> QED
    BY <1>2, InvHolds, PTL

-----------------------------------------------------------------------------
(***************************************************************************)
(* VolumesClosed: the processor is known wherever the loader can leave     *)
(* without fs_exit, so that the hook is not the stub.                      *)
(***************************************************************************)
KnownProcessor ==
    ImagePoints \cup {"args", "list", "print_map", "dispatch", "vbatt", "extra", "save",
                     "launch", "load", "free_args"}

VolumeInv ==
    /\ pc \in KnownProcessor => ops = "x86"
    /\ pc \in {"map", "exit", "jumped", "error", "exited", "returned"} => fs.open = {}

LEMMA VolumeStep == Inv /\ VolumeInv /\ [Next]_vars => VolumeInv'
  <1> SUFFICES ASSUME Inv, VolumeInv, [Next]_vars PROVE VolumeInv'
    OBVIOUS
  <1> USE DEF VolumeInv, KnownProcessor, ImagePoints, Go, imageVars, entryVars
  <1>f. fs \in [nr : 0 .. NVolumes, open : SUBSET Volumes] /\ Closed.open = {}
    BY DEF Inv, TypeOK, Closed
  <1>1. CASE fs_init \/ LoadedImage \/ GetPath \/ FileOpen \/ ReadConfigFile \/ InitPlatform
    BY <1>1 DEF fs_init, LoadedImage, GetPath, FileOpen, ReadConfigFile, InitPlatform
  <1>2. CASE ParseArgs \/ ListBlkDevices \/ PrintMemoryMap
    BY <1>2, <1>f DEF ParseArgs, ListBlkDevices, PrintMemoryMap, usage_exit
  <1>3. CASE Dispatch \/ LoadTarget \/ ImageFailed
    BY <1>3 DEF Dispatch, LoadTarget, ImageFailed, StartImage
  <1>4. CASE CheckVbattfreqlmt \/ GetExtraCmdline \/ SaveCmdline \/ Launch
    BY <1>4 DEF CheckVbattfreqlmt, GetExtraCmdline, SaveCmdline, Launch
  <1>5. CASE FreeArgs \/ FsDeinit \/ Exit
    BY <1>5, <1>f DEF FreeArgs, FsDeinit, Exit
  <1>6. CASE HandoverHooks
    BY <1>6, <1>f DEF HandoverHooks, RunHooks
  <1>7. CASE ImageStep /\ UNCHANGED <<fs, entryVars>>
    BY <1>7 DEF ImageStep, OpenPartition, ReadHeader, ReadPartition, OpenFile,
           ReadFile, CheckBuffer, VerifyBootImage, SetupCommandLine, SetupRamdisk, Fail,
           AllocateKernel, SetupParams, SetupGdt, SetupMemoryMap, ExitBootServices
  <1>8. CASE UNCHANGED vars
    BY <1>8 DEF vars
  <1> QED
    BY <1>1, <1>2, <1>3, <1>4, <1>5, <1>6, <1>7, <1>8 DEF Next

\* No volume is open when the kernel starts or the loader has ended.
THEOREM VolumesSafe == Spec => []VolumesClosed
  <1>1. Init => VolumeInv
    BY DEF Init, VolumeInv, KnownProcessor, ImagePoints
  <1>2. VolumeInv => VolumesClosed
    BY DEF VolumeInv, VolumesClosed
  <1> QED
    BY <1>1, <1>2, VolumeStep, InvHolds, PTL DEF Spec

-----------------------------------------------------------------------------
(***************************************************************************)
(* CmdlineOnce: the parts of the command line are put together from        *)
(* disjoint sets.                                                          *)
(***************************************************************************)
Once(s) == \A i, j \in DOMAIN s : s[i] = s[j] => i = j
Occurs(part, s) == \E k \in DOMAIN s : s[k] = part

OnceOver(s, X) == s \in Seq(X) /\ Once(s)

\* The user's command line is in s unless memory ran out.
HasUser(s) == "cmdline" \in ptr /\ ~mem.failed => Occurs("user", s)

LEMMA ConcatOnce ==
  ASSUME NEW X, NEW Y, X \cap Y = {}, NEW s, OnceOver(s, X), NEW t, OnceOver(t, Y)
  PROVE  /\ OnceOver(s \o t, X \cup Y)
         /\ \A part : Occurs(part, s) \/ Occurs(part, t) => Occurs(part, s \o t)
  <1> DEFINE u == s \o t
  <1>1. /\ s \in Seq(X \cup Y) /\ t \in Seq(X \cup Y) /\ u \in Seq(X \cup Y)
        /\ Len(s) \in Nat /\ Len(t) \in Nat /\ Len(u) = Len(s) + Len(t)
        /\ DOMAIN s = 1 .. Len(s) /\ DOMAIN t = 1 .. Len(t) /\ DOMAIN u = 1 .. Len(u)
    BY DEF OnceOver
  <1>2. \A i \in 1 .. Len(s) : u[i] = s[i] /\ s[i] \in X
    BY <1>1 DEF OnceOver
  <1>3. \A i \in 1 .. Len(t) : u[Len(s) + i] = t[i] /\ t[i] \in Y
    BY <1>1 DEF OnceOver
  <1>4. ASSUME NEW i \in DOMAIN u, NEW j \in DOMAIN u, u[i] = u[j] PROVE i = j
    <2>1. CASE i \in 1 .. Len(s) /\ j \in 1 .. Len(s)
      BY <2>1, <1>1, <1>2, <1>4 DEF OnceOver, Once
    <2>2. CASE i \notin 1 .. Len(s) /\ j \notin 1 .. Len(s)
      <3>1. i - Len(s) \in 1 .. Len(t) /\ j - Len(s) \in 1 .. Len(t)
        BY <2>2, <1>1
      <3>2. t[i - Len(s)] = t[j - Len(s)]
        <4>1. u[Len(s) + (i - Len(s))] = t[i - Len(s)] /\ u[Len(s) + (j - Len(s))] = t[j - Len(s)]
          BY <3>1, <1>3
        <4> QED
          BY <4>1, <3>1, <1>1, <1>4
      <3>3. i - Len(s) = j - Len(s)
        BY <3>1, <3>2, <1>1 DEF OnceOver, Once
      <3> QED
        BY <3>3, <1>1
    <2>3. ASSUME NEW a \in 1 .. Len(s), NEW b \in DOMAIN u, b \notin 1 .. Len(s), u[a] = u[b]
          PROVE  FALSE
      <3>1. b - Len(s) \in 1 .. Len(t) /\ Len(s) + (b - Len(s)) = b
        BY <2>3, <1>1
      <3>2. u[b] \in Y /\ u[a] \in X
        BY <3>1, <1>2, <1>3
      <3> QED
        BY <2>3, <3>2
    <2> QED
      BY <2>1, <2>2, <2>3, <1>4
  <1>5. ASSUME NEW part, Occurs(part, s) \/ Occurs(part, t) PROVE Occurs(part, u)
    <2>1. CASE Occurs(part, s)
      BY <2>1, <1>1, <1>2 DEF Occurs
    <2>2. CASE Occurs(part, t)
      <3>1. PICK k \in 1 .. Len(t) : t[k] = part
        BY <2>2, <1>1 DEF Occurs
      <3>2. Len(s) + k \in DOMAIN u /\ u[Len(s) + k] = part
        BY <3>1, <1>1, <1>3
      <3> QED
        BY <3>2 DEF Occurs
    <2> QED
      BY <1>5, <2>1, <2>2
  <1> QED
    BY <1>1, <1>4, <1>5 DEF OnceOver, Once

LEMMA SingleOnce == \A x : OnceOver(<<x>>, {x}) /\ Occurs(x, <<x>>)
  BY DEF OnceOver, Once, Occurs
LEMMA EmptyOnce == \A X : OnceOver(<<>>, X)
  BY DEF OnceOver, Once
LEMMA WiderOnce == \A s, X, Y : OnceOver(s, X) /\ X \subseteq Y => OnceOver(s, Y)
  BY DEF OnceOver

LineParts == {"extra", "battlow", "user"}
AppendParts == LineParts \cup {"entry"}

PartsInv ==
    /\ pc = "vbatt" => OnceOver(line.parts, {"user"}) /\ HasUser(line.parts)
    /\ pc = "extra" => OnceOver(line.parts, {"battlow", "user"}) /\ HasUser(line.parts)
    /\ pc = "save" => OnceOver(line.parts, LineParts) /\ HasUser(line.parts)
    /\ pc \in {"launch", "load"} \cup ImagePoints => OnceOver(saved, LineParts) /\ HasUser(saved)
    /\ pc \in ImagePoints \ {"image_failed"} =>
          OnceOver(append.parts, AppendParts) /\ HasUser(append.parts)
    /\ pc \in FromCmdline => kcmd = Joined

\* A failure of an allocation is remembered by every operation.
LEMMA FailedOps ==
  ASSUME NEW m \in Ledgers
  PROVE  /\ \A o \in Objects : /\ New(m, o) \in Ledgers /\ New(m, o).failed = m.failed
                               /\ Drop(m, o) \in Ledgers /\ Drop(m, o).failed = m.failed
         /\ NoMemory(m) \in Ledgers /\ NoMemory(m).failed
         /\ ReadMap(m) \in Ledgers /\ ReadMap(m).failed = m.failed
         /\ \A os : Forget(m, os) \in Ledgers /\ Forget(m, os).failed = m.failed
  BY DEF New, Drop, NoMemory, ReadMap, Forget, Ledgers, LedgerOver

LEMMA FailedOut ==
  ASSUME NEW m \in Ledgers
  PROVE  /\ OutBootimage(m).failed = m.failed /\ OutCmdline(m).failed = m.failed
         /\ OutRamdisk(m).failed = m.failed /\ OutKernel(m).failed = m.failed
  <1>o. {"bootimage", "fileinfo", "cmd_line_ptr", "ramdisk_image", "kernel_start"} \subseteq Objects
    BY DEF Objects, ImageObjects
  <1>1. \A l \in Ledgers : OutBootimage(l).failed = l.failed
    <2> SUFFICES ASSUME NEW l \in Ledgers PROVE OutBootimage(l).failed = l.failed
      OBVIOUS
    <2>1. Drop(l, "bootimage") \in Ledgers /\ Drop(l, "bootimage").failed = l.failed
      BY <1>o, FailedOps
    <2>2. /\ Drop(Drop(l, "bootimage"), "bootimage") \in Ledgers
          /\ Drop(Drop(l, "bootimage"), "bootimage").failed = l.failed
      BY <1>o, <2>1, FailedOps
    <2>3. /\ Drop(Drop(l, "bootimage"), "fileinfo").failed = l.failed
          /\ Drop(Drop(Drop(l, "bootimage"), "bootimage"), "fileinfo").failed = l.failed
      BY <1>o, <2>1, <2>2, FailedOps
    <2> QED
      BY <2>1, <2>2, <2>3 DEF OutBootimage
  <1>2. \A l \in Ledgers, o \in Objects : \A size, k :
            DropPages(l, o, size, k) \in Ledgers /\ DropPages(l, o, size, k).failed = l.failed
    <2> SUFFICES ASSUME NEW l \in Ledgers, NEW o \in Objects
                 PROVE  LET d == [Drop(l, o) EXCEPT !.partial = @ \cup {o}]
                        IN d \in Ledgers /\ d.failed = l.failed
      BY FailedOps DEF DropPages
    <2>1. Drop(l, o) \in Ledgers /\ Drop(l, o).failed = l.failed
      BY FailedOps
    <2> QED
      BY <2>1 DEF Ledgers, LedgerOver
  <1>3. \A l \in Ledgers : OutCmdline(l).failed = l.failed
    BY <1>o, <1>1, <1>2 DEF OutCmdline
  <1>4. \A l \in Ledgers : OutRamdisk(l).failed = l.failed
    BY <1>o, <1>3, FailedOps DEF OutRamdisk
  <1>5. \A l \in Ledgers : OutKernel(l).failed = l.failed
    BY <1>o, <1>4, <1>2 DEF OutKernel
  <1> QED
    BY <1>1, <1>3, <1>4, <1>5

LEMMA ImageFailedStays ==
  ASSUME Inv, ImageStep, mem.failed
  PROVE  mem'.failed
  <1> USE DEF Go, Fail
  <1>1. mem \in Ledgers /\ OwnerInv
    BY DEF Inv, HeldInv, Holds
  <1>o. ImageObjects \subseteq Objects /\ "cmdline" \in Objects
    BY DEF Objects, EntryObjects
  <1>a. \A l \in Ledgers : WithoutAppend(l) \in Ledgers /\ WithoutAppend(l).failed = l.failed
    BY <1>1, <1>o, FailedOps DEF WithoutAppend, OwnerInv, ImageObjects
  <1>n. \A o \in ImageObjects : /\ New(mem, o) \in Ledgers /\ New(mem, o).failed
                                /\ Drop(mem, o) \in Ledgers /\ Drop(mem, o).failed
                                /\ Drop(New(mem, o), o) \in Ledgers /\ Drop(New(mem, o), o).failed
    BY <1>1, <1>o, FailedOps
  <1>m. NoMemory(mem) \in Ledgers /\ NoMemory(mem).failed
    BY <1>1, FailedOps
  <1>2. CASE OpenPartition \/ ReadHeader \/ ReadPartition \/ OpenFile
    <2>1. \A l \in Ledgers : NoMemory(l).failed
      BY FailedOps
    <2> QED
      BY <1>2, <2>1, <1>n, <1>m DEF OpenPartition, ReadHeader, ReadPartition, OpenFile, ImageObjects
  <1>3. CASE ReadFile
    <2>1. /\ Drop(NoMemory(mem), "fileinfo").failed
          /\ Drop(Drop(New(mem, "bootimage"), "bootimage"), "fileinfo").failed
      BY <1>m, <1>n, <1>o, FailedOps DEF ImageObjects
    <2> QED
      BY <1>3, <2>1, <1>n DEF ReadFile, ImageObjects
  <1>4. CASE CheckBuffer \/ VerifyBootImage
    BY <1>4, <1>1, FailedOut DEF CheckBuffer, VerifyBootImage
  <1>5. CASE SetupCommandLine
    <2>1. WithoutAppend(mem) \in Ledgers /\ WithoutAppend(mem).failed
      BY <1>1, <1>a
    <2>2. /\ New(WithoutAppend(mem), "cmd_line_ptr").failed
          /\ NoMemory(WithoutAppend(mem)) \in Ledgers /\ NoMemory(WithoutAppend(mem)).failed
      BY <2>1, <1>o, FailedOps DEF ImageObjects
    <2> QED
      BY <1>5, <2>2, <1>m, FailedOut DEF SetupCommandLine
  <1>6. CASE SetupRamdisk \/ AllocateKernel
    BY <1>6, <1>n, <1>m, FailedOut DEF SetupRamdisk, AllocateKernel, ImageObjects
  <1>7. CASE SetupParams \/ SetupGdt \/ SetupMemoryMap \/ ExitBootServices
    <2>1. memory_map(mem).failed
      BY <1>n, FailedOps DEF memory_map, ImageObjects
    <2> QED
      BY <1>7, <2>1, <1>1, <1>n, <1>m, FailedOut
         DEF SetupParams, SetupGdt, SetupMemoryMap, ExitBootServices, ImageObjects
  <1> QED
    BY <1>2, <1>3, <1>4, <1>5, <1>6, <1>7 DEF ImageStep

LEMMA PartsStep == Inv /\ PartsInv /\ [Next]_vars => PartsInv'
  <1> SUFFICES ASSUME Inv, PartsInv, [Next]_vars PROVE PartsInv'
    OBVIOUS
  <1> USE DEF Go, imageVars, entryVars
  <1>t. TypeOK /\ mem \in Ledgers /\ OwnerInv
    BY DEF Inv, HeldInv, Holds
  <1>o. {"cmdline", "battlow_cmdline", "full_line", "updated_cmdline"} \subseteq Objects
    BY DEF Objects, EntryObjects, ImageObjects
  <1>1. CASE fs_init \/ LoadedImage \/ GetPath \/ FileOpen \/ ReadConfigFile \/ InitPlatform
              \/ ParseArgs \/ ListBlkDevices \/ PrintMemoryMap \/ FreeArgs \/ FsDeinit \/ Exit
    <2>1. pc' \in {"protocol", "config", "fs_deinit", "file", "options", "platform", "args",
                   "dispatch", "returned", "list", "print_map", "error", "exited"}
      BY <1>1 DEF fs_init, LoadedImage, GetPath, FileOpen, ReadConfigFile, InitPlatform,
            ParseArgs, ListBlkDevices, PrintMemoryMap, usage_exit, FreeArgs, FsDeinit, Exit
    <2> QED
      BY <2>1 DEF PartsInv, ImagePoints, FromCmdline, FromRamdisk, FromKernelStart
  <1>2. CASE Dispatch
    <2>1. OnceOver(Cmdline.parts, {"user"})
          /\ ("cmdline" \in ptr => Occurs("user", Cmdline.parts))
      BY SingleOnce, EmptyOnce DEF Cmdline, NULL
    <2>2. OnceOver(Cmdline.parts, LineParts) /\ OnceOver(Cmdline.parts, AppendParts)
      BY <2>1, WiderOnce DEF LineParts, AppendParts
    <2>3. ptr' = ptr /\ saved' = Cmdline.parts
      BY <1>2 DEF Dispatch
    <2>4. \/ append' = Cmdline /\ pc' \in {"open", "file_open", "buffer"}
          \/ pc' \in {"free_args", "load"}
          \/ pc' = "vbatt" /\ line' = Cmdline
      BY <1>2 DEF Dispatch, StartImage
    <2> QED
      BY <2>1, <2>2, <2>3, <2>4
         DEF PartsInv, HasUser, ImagePoints, FromCmdline, FromRamdisk, FromKernelStart
  <1>r. ASSUME NEW obj, obj \in Objects, NEW parts, Rewrite(obj, parts)
        PROVE  /\ mem.failed => mem'.failed
               /\ (line' = NULL /\ mem'.failed) \/ line'.parts = parts
    <2>1. \A m \in Ledgers : Release(m, line).failed = m.failed
      BY <1>t, <1>o, FailedOps DEF Release, OwnerInv
    <2>2. /\ New(mem, obj) \in Ledgers /\ New(mem, obj).failed = mem.failed
          /\ NoMemory(mem) \in Ledgers /\ NoMemory(mem).failed
      BY <1>r, <1>t, FailedOps
    <2> QED
      BY <1>r, <2>1, <2>2 DEF Rewrite
  <1>n. OnceOver(NULL.parts, {"battlow", "user"}) /\ OnceOver(NULL.parts, LineParts)
    BY EmptyOnce DEF NULL
  <1>3. CASE CheckVbattfreqlmt
    <2>1. OnceOver(line.parts, {"user"}) /\ HasUser(line.parts) /\ ptr' = ptr
      BY <1>3 DEF PartsInv, CheckVbattfreqlmt
    <2>2. OnceOver(line.parts, {"battlow", "user"})
      BY <2>1, WiderOnce
    <2>3. /\ OnceOver(<<"battlow">> \o line.parts, {"battlow", "user"})
          /\ Occurs("user", line.parts) => Occurs("user", <<"battlow">> \o line.parts)
      <3>1. {"battlow"} \cap {"user"} = {} /\ {"battlow"} \cup {"user"} = {"battlow", "user"}
        OBVIOUS
      <3>2. OnceOver(<<"battlow">>, {"battlow"})
        BY SingleOnce
      <3>3. /\ OnceOver(<<"battlow">> \o line.parts, {"battlow"} \cup {"user"})
            /\ Occurs("user", line.parts) => Occurs("user", <<"battlow">> \o line.parts)
        BY <2>1, <3>1, <3>2, ConcatOnce, Zenon
      <3> QED
        BY <3>1, <3>3
    <2>4. pc' = "extra" => OnceOver(line'.parts, {"battlow", "user"})
                /\ ("cmdline" \in ptr' /\ ~mem'.failed => Occurs("user", line'.parts))
      <3>1. CASE UNCHANGED <<mem, line>>
        BY <3>1, <2>1, <2>2 DEF HasUser
      <3>2. CASE Rewrite("battlow_cmdline", <<"battlow">> \o line.parts)
        BY <3>2, <2>1, <2>3, <1>r, <1>o, <1>n DEF HasUser
      <3> QED
        BY <1>3, <3>1, <3>2 DEF CheckVbattfreqlmt
    <2>5. pc' \in {"free_args", "extra"}
      BY <1>3 DEF CheckVbattfreqlmt
    <2> QED
      BY <2>4, <2>5 DEF PartsInv, HasUser, ImagePoints, FromCmdline, FromRamdisk, FromKernelStart
  <1>4. CASE GetExtraCmdline
    <2>1. OnceOver(line.parts, {"battlow", "user"}) /\ HasUser(line.parts) /\ ptr' = ptr
      BY <1>4 DEF PartsInv, GetExtraCmdline
    <2>2. OnceOver(line.parts, LineParts)
      BY <2>1, WiderOnce DEF LineParts
    <2>3. /\ OnceOver(<<"extra">> \o line.parts, LineParts)
          /\ Occurs("user", line.parts) => Occurs("user", <<"extra">> \o line.parts)
      <3>1. /\ {"extra"} \cap {"battlow", "user"} = {}
            /\ {"extra"} \cup {"battlow", "user"} = LineParts
        BY DEF LineParts
      <3> QED
        BY <2>1, <3>1, SingleOnce, ConcatOnce
    <2>4. /\ OnceOver(line'.parts, LineParts)
          /\ "cmdline" \in ptr' /\ ~mem'.failed => Occurs("user", line'.parts)
      <3>1. CASE UNCHANGED <<mem, line>>
        BY <3>1, <2>1, <2>2 DEF HasUser
      <3>2. CASE Rewrite("full_line", <<"extra">> \o line.parts)
        BY <3>2, <2>1, <2>3, <1>r, <1>o, <1>n DEF HasUser
      <3>3. CASE Rewrite("full_line", line.parts)
        BY <3>3, <2>1, <2>2, <1>r, <1>o, <1>n DEF HasUser
      <3> QED
        BY <1>4, <3>1, <3>2, <3>3 DEF GetExtraCmdline
    <2>5. pc' = "save"
      BY <1>4 DEF GetExtraCmdline
    <2> QED
      BY <2>4, <2>5 DEF PartsInv, HasUser, ImagePoints, FromCmdline, FromRamdisk, FromKernelStart
  <1>5. CASE SaveCmdline
    <2>1. OnceOver(line.parts, LineParts) /\ HasUser(line.parts) /\ ptr' = ptr
          /\ saved' = line.parts /\ pc' = "launch"
      BY <1>5 DEF PartsInv, SaveCmdline, Saved
    <2>2. mem'.failed = mem.failed
      BY <1>5, <1>t, <1>o, FailedOps DEF SaveCmdline, Release, OwnerInv
    <2> QED
      BY <2>1, <2>2 DEF PartsInv, HasUser, ImagePoints, FromCmdline, FromRamdisk, FromKernelStart
  <1>6. CASE Launch \/ ImageFailed
    BY <1>6 DEF Launch, ImageFailed, PartsInv, HasUser, Occurs, OnceOver, Once,
          ImagePoints, FromCmdline, FromRamdisk, FromKernelStart
  <1>7. CASE LoadTarget
    <2>1. OnceOver(saved, LineParts) /\ HasUser(saved) /\ ptr' = ptr /\ saved' = saved
      BY <1>7 DEF PartsInv, LoadTarget
    <2>2. \A e \in {<<>>, <<"entry">>} :
             /\ OnceOver(LoadLine(e), AppendParts)
             /\ Occurs("user", saved) => Occurs("user", LoadLine(e))
      <3>1. LineParts \cap {"entry"} = {} /\ LineParts \cup {"entry"} = AppendParts
        BY DEF LineParts, AppendParts
      <3>2. \A e \in {<<>>, <<"entry">>} : OnceOver(e, {"entry"})
        BY SingleOnce, EmptyOnce
      <3> QED
        BY <2>1, <3>1, <3>2, ConcatOnce DEF LoadLine
    <2>3. mem.failed => mem'.failed
      <3>1. Forget(mem, ImageObjects) \in Ledgers /\ Forget(mem, ImageObjects).failed = mem.failed
        BY <1>t, FailedOps
      <3>2. /\ NoMemory(Forget(mem, ImageObjects)).failed
            /\ New(Forget(mem, ImageObjects), "updated_cmdline").failed = mem.failed
        BY <3>1, <1>o, FailedOps
      <3> QED
        BY <1>7, <3>1, <3>2 DEF LoadTarget, StartImage
    <2>4. \/ pc' = "reset" \/ pc' = "image_failed"
          \/ /\ pc' = "open"
             /\ \/ append' = NULL /\ ("cmdline" \notin ptr \/ mem'.failed)
                \/ \E e \in {<<>>, <<"entry">>} : append'.parts = LoadLine(e)
      <3>1. NoMemory(Forget(mem, ImageObjects)).failed
        BY <1>t, FailedOps
      <3> QED
        BY <1>7, <3>1 DEF LoadTarget, StartImage
    <2>5. OnceOver(NULL.parts, AppendParts)
      BY EmptyOnce DEF NULL
    <2> QED
      BY <2>1, <2>2, <2>3, <2>4, <2>5
         DEF PartsInv, HasUser, ImagePoints, FromCmdline, FromRamdisk, FromKernelStart
  <1>8. CASE HandoverHooks
    <2>1. mem'.failed = mem.failed
      BY <1>8, <1>t DEF HandoverHooks, RunHooks, HookBeforeExit, CloseVolumes, Ledgers, LedgerOver
    <2> QED
      BY <1>8, <2>1 DEF HandoverHooks, RunHooks, PartsInv, HasUser, Joined,
            ImagePoints, FromCmdline, FromRamdisk, FromKernelStart
  <1>9. CASE ImageStep /\ UNCHANGED <<fs, entryVars>>
    <2>1. mem.failed => mem'.failed
      BY <1>9, ImageFailedStays
    <2>2. append' = append /\ pc \in ImagePoints \ {"image_failed"} /\ pc' \in ImagePoints
      BY <1>9 DEF ImageStep, OpenPartition, ReadHeader, ReadPartition, OpenFile,
           ReadFile, CheckBuffer, VerifyBootImage, SetupCommandLine, SetupRamdisk, Fail,
           AllocateKernel, SetupParams, SetupGdt, SetupMemoryMap, ExitBootServices, ImagePoints
    <2>3. pc' \in FromCmdline => kcmd' = Joined
      BY <1>9 DEF PartsInv, ImageStep, OpenPartition, ReadHeader, ReadPartition, OpenFile,
           ReadFile, CheckBuffer, VerifyBootImage, SetupCommandLine, SetupRamdisk, Fail,
           AllocateKernel, SetupParams, SetupGdt, SetupMemoryMap, ExitBootServices,
           FromCmdline, FromRamdisk, FromKernelStart
    <2> QED
      BY <1>9, <2>1, <2>2, <2>3 DEF PartsInv, HasUser, Joined, ImagePoints
  <1>10. CASE UNCHANGED vars
    BY <1>10 DEF vars, PartsInv, HasUser, Joined
  <1> QED
    BY <1>1, <1>2, <1>3, <1>4, <1>5, <1>6, <1>7, <1>8, <1>9, <1>10 DEF Next

\* The kernel's command line has the image's part, nothing twice, and the
\* user's part if there was memory for it.
THEOREM CmdlineSafe == Spec => []CmdlineOnce
  <1>1. Init => PartsInv
    BY DEF Init, PartsInv, ImagePoints, FromCmdline, FromRamdisk, FromKernelStart
  <1>2. Inv /\ PartsInv => CmdlineOnce
    <2> SUFFICES ASSUME Inv, PartsInv, pc = "jumped" PROVE CmdlineOnce
      BY DEF CmdlineOnce
    <2>1. kcmd = Image \o append.parts /\ OnceOver(append.parts, AppendParts) /\ HasUser(append.parts)
      BY DEF PartsInv, Joined, ImagePoints, FromCmdline, FromRamdisk, FromKernelStart
    <2>2. OnceOver(kcmd, {"image"} \cup AppendParts)
          /\ (Occurs("user", append.parts) => Occurs("user", kcmd))
      <3>1. {"image"} \cap AppendParts = {}
        BY DEF AppendParts, LineParts
      <3> QED
        BY <2>1, <3>1, SingleOnce, ConcatOnce DEF Image
    <2>3. kcmd[1] = "image"
      BY <2>1 DEF Image, OnceOver
    <2>4. ASSUME NEW part PROVE Count(part) <= 1 /\ (Occurs(part, kcmd) => Count(part) = 1)
      <3> DEFINE K == {k \in DOMAIN kcmd : kcmd[k] = part}
      <3>1. K = {} \/ \E k : K = {k}
        BY <2>2 DEF OnceOver, Once
      <3>2. Cardinality(K) \in {0, 1} /\ (K # {} => Cardinality(K) = 1)
        BY <3>1, FS_EmptySet, FS_Singleton
      <3>3. Occurs(part, kcmd) => K # {}
        BY DEF Occurs
      <3> QED
        BY <3>2, <3>3 DEF Count
    <2> QED
      BY <2>1, <2>2, <2>3, <2>4 DEF CmdlineOnce, HasUser
  <1> QED
    BY <1>1, <1>2, PartsStep, InvHolds, PTL DEF Spec
=============================================================================
