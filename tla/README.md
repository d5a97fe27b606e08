# Verification of the UEFI boot loader and its fastboot application

TLA+ models of *efilinux*, the Android OS loader for Intel UEFI platforms, of
its *fastboot* flashing application and of the code they share; TLC checks of
small instances and TLAPS proofs for every instance. File names below are
relative to `src/`.

## 1. The system

One image, `efilinux`, runs at every boot: it decides which Android image to
start, reads it from its GPT partition and jumps to its kernel. A second
program, *fastboot*, is started as one of the boot targets and rewrites the
partitions for a host on USB. Neither has threads. What is concurrent is
everything around them: power, watchdogs, the battery, the OS that leaves
requests behind in non-volatile variables, and the USB stack that calls
fastboot back.

| component | state it keeps | operations | interacts with | hard behaviour | what makes it correct |
|---|---|---|---|---|---|
| Boot-target decision `efilinux/bootlogic.c`, `uefi_boot.c`, `uefi_osnib.c` | non-volatile variables: one-shot and last target, watchdog counter, cold-reset flag, saved reset source, RTC mark | `start_boot_logic`, `target_from_off`, `target_from_reset`, `boot_watchdog`, `launch_or_fallback` | RSCI table, energy management, target table, kernel handover | power loss between two variable writes, a watchdog protocol spanning two boots, three fallbacks rewriting one target | a hung image is left in time; the last target is the one that ran; a one-shot request is honoured once; no main OS on a low battery; every boot ends |
| Target table and BCB `efilinux/intel_partitions.c` | static table; the misc partition | `load_target`, `name_to_target`, `target_to_name`, `read_bcb` | boot decision, GPT, boot image | two names of one target, unreadable misc | names round-trip; a missing entry ends in a fallback |
| Energy management `efilinux/uefi_em.c`, `fake_em.c` | cached OEM1 pointer | battery level, charger, thresholds | ACPI tables, boot decision | a missing table reads as -1 in fields of three widths | a main OS only above a threshold that exists |
| Fastboot engine `fastboot/fastboot.c` | state, download buffer and size, list cursor | command handlers, two completion callbacks, getvar worker | USB transport, flash, boot image, GPT | completions whose meaning is the state at delivery; reconfiguration in the middle; pool exhaustion | one read outstanding and the right one; one answer per command; only complete images used |
| Fastboot USB transport `fastboot/fastboot_usb.c` | callbacks, device protocol | `usb_read`, `usb_write`, Run loop | engine, USB stack | queued buffers, dropped transfers | see engine |
| Fastboot application `fastboot/main.c` | published variables | `efi_main`, shell commands, `publish_partsize` | GPT cache, engine, flash | a list that is refused, names that repeat | what was published is what a later request finds |
| Flashing `fastboot/flash.c`, sparse images `fastboot/sparse.c` | static partition and cursor | `flash`, `flash_write`, `flash_skip`, `flash_fill`, the chunk loop | GPT, disk I/O | sizes out of headers, unsigned arithmetic, a write that fails half-way | nothing outside the partition; success means the whole image |
| Erasing `fastboot/flash.c` | static partition | `erase_by_label`, `erase_blocks`, `fill_zero`, `secure_erase` | GPT, block I/O, eMMC command interface | group alignment at both ends | exactly the partition; only whole groups by command |
| GPT cache `common/gpt/gpt.c` | cached disks and tables, two counters | lookup by label, list | flash, fastboot, boot image | a call failing half-way through an entry that the next device reuses | an entry describes one disk; an answer comes from the table taken once |
| Boot image and handover `common/bootimg/` | image, kernel, ramdisk, command-line pages, memory map | load, check, `handover_kernel` | watchdog, hooks, firmware memory services | ownership on error paths, memory-map key, watchdog left running | what the kernel is given is intact; a failed attempt returns what it made |
| Memory map walks `common/uefi_utils.c`, `bootimg.c` | none | `emalloc`, `setup_e820_map` | handover | alignment, the first megabyte, regions in any order | pages that were free; a table that covers the same memory |
| Warm dump `efilinux/warmdump.c` | dump files on the ESP | backup, restore | `boot_watchdog` | two programs, two resets, one flag that the next step changes | the log of a crash reaches the next kernel; a dump is deleted only after it is back |
| Entry, file systems `efilinux/entry.c`, `commands.c`, `fs/fs.c` | command line, volumes, files | `efi_main` and its exits | all | cleanup in the wrong order, strings freed by one attempt and used by the next | volumes closed at every end; the command line complete and not repeated |
| Splash `efilinux/uefi_boot.c`, `uefi_utils.c` | none | `ConvertBmpToGopBlt`, `gop_display_blt` | boot decision | row padding for five depths | each pixel comes from its byte |
| ACPI `efilinux/acpi.c`, log `common/log.c`, C library `common/posix/`, watchdog, platform, CPU, time, ESRT, keys | log buffer, ACPI pointers | | all | integer widths | |

`PROJECT.json` lists them all with what is modelled of each, and every hazard
at its line.

## 2. Plan

Most important behaviour first; each module takes its parameters as CONSTANTS
with named assumptions, has one action per operation, and no RECURSIVE
operator.

1. **BootLogic** (done, with proofs): the decision and all its persistent state
   over any number of boots.
2. **Fastboot** (done, with proofs): engine and transport, driven by
   completions.
3. **PartUpdate** (done): the abstract promise of a request that changes a
   partition. **Flash** and **Erase** (done, with proofs) implement it.
4. **Ledger, BootImg, Entry** (done, with proofs): what the loader allocates,
   opens and passes on, from `efi_main` to the kernel or back.
5. **Warmdump** (done, with proofs), composed with the watchdog protocol.
6. **PartTable** (done): the abstract promise of the partition table. **Gpt**
   (done, with proofs) implements it under **FastbootApp** (done).
7. **MemoryMap**, **Splash** and **Energy** (done, with proofs).

Left: the theorems that hold only without some faults of the boot decision,
stated for the behaviours of a larger fault set in which those faults do not
occur; a bound of the hangs for builds whose flag is left behind; the
composition of Fastboot with BootImg in place of its abstract start of `boot`;
what may be promised of a fastboot session after a command with two answers;
small algorithms of the C library subset and the log's cursor.

## 3. The modules

### BootLogic

One machine over all its boots. `nv` holds the variables that survive a reset,
with one field per UEFI variable (`oneshot` LoaderEntryOneShot, `last`
LoaderEntryLast, `wdt` WdtCounter, `wdcold` WDColdReset, `saved`
SavedResetSource, `rtc` RtcAlarmCharging, `osind` the rescue bit of
OsIndications) and `bcb` for the request in the misc partition. `rsci` is the
firmware's table, `vol` the volatile variables published to the OS, `target`,
`rs` and `lastT` locals and statics of the C code. `h` is history, read by
properties and by no guard.

`pc` is the point the loader has reached. Each NV write is a step of its own,
so power may fail (`PowerLoss`) between any two; code between two such steps
touches only memory that the power loss erases, and is one step. `Begin`,
`BatteryNotOk`, `ReadWakeSource` and `TargetFromOff` are `start_boot_logic` and
`target_from_inputs`; `GetResetSource` and `DeleteSavedResetSource` are
`get_reset_source`; the `Wd...` actions are `boot_watchdog`; `TargetFromReset`
is the rest of `target_from_reset`; the hook actions publish the OSNIB
variables; `EmFallback`, `SaveTargetMode`, `LoadTarget`, `GoToRescueMode` (the
write of
OsIndications), `RescueReset` (the reset after it) and `LoadFails` are one turn
of `launch_or_fallback`. The firmware, the user and
the OS are `Environment`.

The constants choose the build (`do_cold_reset_after_wd`,
`CONFIG_ENABLE_FACTORY_MODES`), what the OS and the firmware may do, and the
faults: `power`, `nv` (a variable write fails), `battery`, `disk` (an image or
the misc partition cannot be read), `acpi` (no RSCI table: its byte fields read
as 255).

### Fastboot

`fastboot_state` and the statics of the engine; `rxq` and `txq` are the queued
transfers, `evq` the completions the Run loop has not delivered yet. A callback
runs to its end, so one completion is one step: `RxCommand` (with a handler per
command), `RxData`, `RxInconsistent` (a read that completes in a state that
expects none), `TxGetvar`, `TxComplete`, `TxDownload`. `StartCallback` is
the device being configured, at any time when the cable may be pulled. The host
sends one command at a time. The pool is a number of units; `addr` remembers
whether its block is live and how much image it holds. Two commands can have
two answers: `download` without memory (DATA, FAIL) and `boot` whose
ExitBootServices fails (the OKAY of `boot_ok`, FAIL). Both are in the model, and
the history variable `twice` remembers them until the next configuration; the
properties hold while it is false (`InStep`). `STATE_ERROR` is not
there: it can only be entered when `usb_read` or `usb_write` returns a negative
value, and they return 0 or 1.

### PartUpdate, Flash and Erase

`PartUpdate` is the promise to `cmd_flash`, `cmd_erase` and `flash_file`: the
medium only moves towards what the request asks for, nothing outside the
partition changes, and success is reported only when all of it has been done.

`Flash` counts in 32-bit words. A word of the medium holds the *position in the
image* of the word put there, so any misplacement shows. `flash_write`,
`flash_skip`, `flash_fill` and `flash_chunk` have the names of the C functions
and are enabled for the result `r` that they may return; a write that fails
leaves any prefix behind and moves the cursor, as in the code. `u32` is the
unsigned product of chunk size and block size. A request runs on hardware that
works or on hardware that fails now and then (`broken`).

`Erase` has a step per write and per card command, with `fill_zero` as a loop
that returns to the point it was entered for. The eMMC erases whole groups from
the group of the first address to that of the last.

Both map onto `PartUpdate` by `INSTANCE ... WITH`: the state of the request,
its partition, what it asks for, and what has been done so far.

### Ledger, BootImg and Entry

`Ledger` is the firmware's allocator as a program's author thinks of it: what
is allocated, what was lost (a pointer went away first), freed or used when it
was not allocated, freed by another size, and whether the memory-map key that
was read last is still current. It is external.

`BootImg` is `android_image_start_partition`, `_file` and `_buffer` down to the
jump. `pc` is the call that comes next; each action is one call that can fail,
with the whole unwinding of its failure (`OutBootimage`, `OutCmdline`,
`OutRamdisk`, `OutKernel`, named after the labels of the C functions). The
actions keep the code's order: image, signature, command line, ramdisk, pages
of the kernel, boot parameters, descriptor table, watchdog and hooks, memory
map, ExitBootServices. `kcmd` is the command line by its parts.

`Entry` extends it with `efi_main`: the volumes of `fs.c` (`fs`), the
configuration file, the options (one per behaviour), the choice of the loader
operations by the platform (`ops`), the dispatch, and
the command line on its way through `start_boot_logic`,
`launch_or_fallback` (`saved`, restored before each attempt) and
`intel_load_target`. Each option is given at most once; `-a` is the only one
of release builds. Which target is tried is the matter of BootLogic; here there
are `MaxAttempts` of them. The behaviour is sequential and has no loop but that
of the attempts, so what makes the state space is the set of calls that fail.

### Warmdump

The warm dump and the part of the loader around it, over several crashes.
`ram` and `file` say of each dump (`lm`, `pstore`) which crash it holds. `boot`
and `call` are the loader up to the start of the warm dump, `main` to `delete`
the program itself (one action per file operation), the `wd` points
`boot_watchdog`'s writes, and `os` a running kernel. `boot_watchdog` is modelled
again because both programs read and change WDColdReset and the reset source;
BootLogic has its counter, which the dump does not depend on. `fault`
remembers whether anything has failed, for properties that speak of working
hardware.

### PartTable, Gpt and FastbootApp

`PartTable` is the promise of `gpt.h`: a table taken once from the disks that
answered, and each answer out of it. It says what an answer is (the first
member of a set, a listing of a set in order) and not how it is found. `Gpt` is
the code: the caching loop as a
step per device with every call that may fail, the entry of `disks` that a
failure leaves behind for the next device, the two counters, lookup and list.
Each field of an entry is the number of the device it came from, so a mixture
would show. The lookup is the first match in the order of the two loops of
gpt.c, the list is what those loops append. `FastbootApp` composes it with
`efi_main` of fastboot: the
commands of the shell, or the server that publishes the list and then looks up
a partition per request. `ImplementsTable` is the refinement.

### MemoryMap, Splash, Energy and MCUtilities

`MemoryMap` builds any memory map, region by region, in and out of order, and
its two walks are recursive functions over it: `emalloc` with the unsigned width
of its size,
and `setup_e820_map`. `Splash` has the loops of `ConvertBmpToGopBlt` as steps;
a pixel's value is the byte and the place in it that it was taken from. The
size of a line is computed modulo `ProductMod`, 2^32 in the code, and `entry` is
the entry of the colour map that was read last, whether there is a map or not.
`Energy` has the operations of `uefi_em.c` over the tables that `acpi.c` finds,
with the width of each field, and a battery and a device that may be missing.

These share no state. `MCUtilities` puts them and FastbootApp side by side, one
of them at work in each behaviour.

## 4. The runs

| run | module | question | properties |
|---|---|---|---|
| `bl_faults` | MCBootLogic | do the promises hold with power loss at every step, any battery, unreadable images? | TypeOK, LastIsRunning, NoRetry, LowBatteryStartsNoMainOs, HangsBounded, OneShotHonoured, EscalationLeavesHungTarget, OneShotConsumed |
| `bl_coldreset` | MCBootLogic | is the two-boot protocol of the cold-reset builds transparent? | ResetSourceReported, ColdResetAfterWatchdog |
| `bl_nvfail` | MCBootLogic | does each boot end when no variable can be relied on? | BootEnds |
| `bl_storm` | MCBootLogic | when everything hangs, is rescue mode reached? | StormReachesRescue |
| `fb_protocol` | MCFastboot | do reads, states and answers stay in step? | TypeOK, ReadMatchesState, RxConsistent, NoStaleResponse, ImageComplete, EveryCommandAnswered |
| `fl_faults` | MCFlash | does `flash()` keep the promise for any image and any failing write, and take every good image? | TypeOK, InsidePartition, AcceptsGoodImage, ImplementsPartUpdate |
| `er_faults` | MCErase | does an erase keep the promise with failures at each step? | TypeOK, WholeGroupsErased, ImplementsPartUpdate |
| `ld_faults` | MCEntry | is what reaches the kernel whole, and what fails given back, whatever call fails? | TypeOK, HandoverIntact, CmdlineOnce, VolumesClosed, AttemptReturnsImage |
| `wd_faults` | MCWarmdump | does the log of each crash reach the next kernel, and is no dump lost? | CrashLogReachesOs, NothingLeftOver, KeptUntilInjected |
| `ut_parts` | MCUtilities | are the cache, the two memory walks, the splash and the thresholds right? | CacheOK, PublishedIsTarget, EmallocFits, E820SameMemory, PixelsRight, NoTableNoOs, ImplementsTable |
| `fl_fill64` | MCFlash | does a fill chunk mean what the format says on x86_64? It does not | SuccessMeansImage (violated) |
| `ld_efree` | MCEntry | does a failed handover free the allocation it made? It does not | EfreeWholeAllocation (violated) |

Deadlock is checked where the system goes on for ever (BootLogic, Fastboot,
Flash, Erase). It is not in `ld_*`, `wd_faults` and `ut_parts`: a loader that
has jumped or returned, a run out of crashes and a finished conversion stop.

### Bounds

* **BootLogic** has no bound on boots: its state is finite except for the
  history's count of hangs in a row, cut at `HangBound` = 4, one more than the
  three that HangsBounded allows. Names are one per case of the boot decision
  that differs (a main name, a second name of a target, a target with its own
  fallback, an unknown one); wake sources are one per boot case. `bl_nvfail` and
  `bl_storm` use smaller environments because of their temporal properties.
  `bl_coldreset` has no power loss: see section 6.
* **Fastboot**: three sizes, one above the published maximum, and three
  downloads in a session (a buffer that is replaced, freed, and replaced
  again). The pool of three holds one image of the largest size and not two,
  so the allocation of `cmd_download` succeeds and fails.
* **Flash**: blocks of two words, headers of seven and three words as in the
  format, two overlapping partitions that start at a different word, well-formed
  images of up to three chunks and bad ones of up to two. Two requests in a row
  matter (the statics stay) and both are there, as `Return` leads back to idle.
  `fl_fill64` sets the word of x86_64, `fl_faults` that of i386
  (`UINTN_WORDS`); `WORD_RANGE` keeps chunk outputs below the wrap.
* **Erase**: groups of four blocks, writes of three, and every partition of a
  card of eleven blocks: all alignments at both ends, with zero, one and two
  whole groups inside.
* **Entry**: two volumes (one opened before one that fails), up to three images
  in a row, an init_size of one page more than the kernel and a command line of
  six bytes in one page, so that each free by a wrong size shows.
* **Warmdump**: three crashes: one to save and restore, one that finds what the
  first left, and one in the middle of either.
* **Gpt**: six sets of up to three devices: disks, partition devices, a card
  without a table, duplicate, unused and unnamed entries; up to three failing
  calls (one in each of two entries and one more), three requests.
* **MemoryMap**: three regions of up to four pages with gaps, of types that the
  E820 table keeps apart or merges, a "megabyte" of three pages, sizes below,
  at and above a page. **Splash**: every width up to ten pixels, which has all
  residues of the padding for each depth; with a `ProductMod` of 128 the lines
  of the wider ones of 16 and 24 bits wrap. **Energy**: voltages and charges at,
  below and above each threshold, fields of three bits.

### Fairness

`FairSpec` of BootLogic is weak fairness of the loader's steps: before the OS
starts no other program runs, so its code goes on. `StormSpec` adds that the
user turns the device on and that the watchdog, which the handover starts,
resets an OS that hangs. `FairSpec` of Fastboot is weak fairness of the
delivery of completions (the Run loop) and of the host carrying on with a
command that it has started; no command is ever required of the host. The
other modules have no liveness property.

## 5. The proofs

Each holds for every value of the constants that the modules' assumptions
allow; what a theorem assumes besides is in its statement.

**BootLogicProofs**

* *TypeCorrect*. `TypeInv` strengthens TypeOK: the reset source is known once
  it has been returned, and what is about to be written as the last target has
  an entry. Without the first, SavedResetSource could become RESET_ERROR;
  without the second, the name written need not be in the table. The third part,
that the bit in OsIndications is set when the reset of rescue mode is due, is
carried for the other invariants.
* *NameRoundTrip*: the name written for a target is read back as that target.
* *LowBatterySafe*. `LowInv`: from the look at the battery until the jump, a
  low battery implies that the target is no main or factory OS. It must be
  carried through the save of the last target, which lies between the two.
* *LastTargetSafe*, *OneShotAtMostOnce*, under the assumption that the variable
  store works (`"nv" \notin Faults`), as both are false without it. `SavedInv`
  follows the two writes of `set_entry_last`, and holds through a power loss
  between them, because such a boot never reaches the jump.
* *NoRetrySafe*. `RetryInv` ranks the targets along the ladder: what has been
  tried has a smaller rank than the present target, and neither
  `em_fallback_target` nor `fallback_target` leads back down the ranks.
* *ResetSourceSafe*, *ColdResetSafe*, *HangsBoundedSafe*, *EscalationSafe* and
  *OneShotHonouredSafe*, under `PlatformKeepsSource`: the RSCI table is there,
  and in a build that does the cold reset no power loss, failing write or
  failing battery comes between its writes (an unreadable image may).
  `SourceInv`: what the loader has found out of the cause of its boot is that
  cause, and the firmware's table still says it unless the boot is the one
  after the loader's own cold reset. `ColdInv`: WDColdReset is set only from
  that reset to the boot after it, and SavedResetSource then holds the source.
  `CountInv` relates the counter to the hangs in a row, which are history: a
  hang that the counter does not hold yet is the one now being counted, so the
  third leaves the image.
  `AskedInv` keeps a one-shot request from the moment it is seen to the jump.
  HangsBoundedSafe and EscalationSafe assume `"nv" \notin Faults` too. None
  of this can be dropped: with the cold reset, TLC violates
  ResetSourceReported and HangsBounded as soon as one of `power`, `nv`,
  `battery` or `acpi` is allowed, by a flag that is left at 1
  (bootlogic.c:245).

**FastbootProofs**: *FastbootTypes*, *ReadsSafe*, *RxSafe*, *AnswersSafe*,
*ImageSafe*, for any sizes, pool, commands and faults; the last four say by
their definitions that no command of the session has had two answers.
The invariant is `Token`: a session in step has one token, which is a queued
read, a
completed read, a response, its completion, or the image on its way, and in
each of these nine shapes the three queues, the state and the host are known
exactly. None of the four properties is inductive without it, since what a
completion does depends on the state at its delivery. `BufferInv` adds that the
buffer is complete when the host may use it, and that a command that needs it
or destroys it takes that right away while it is on its way; `HeapInv` (a live
buffer is part of what the pool has given out) is what the type of `heap` needs,
and both hold out of step too. `InStep` cannot be dropped: without it TLC
violates each of ReadMatchesState, RxConsistent, NoStaleResponse and
ImageComplete (section 6).

**FlashProofs**

* *TypeCorrect*: in particular `rlen`, unsigned in the code, never wraps.
* *InsidePartitionSafe*. `InsideInv` adds that a request starts with nothing
  done; then each change goes through `is_inside_partition`.
* *AcceptsGoodImageSafe*. `CursorInv`: at each chunk what is left of the image
  is its size less the headers and data of the chunks before it, and the cursor
  in the partition is at most the sum of their outputs further on. Hence a good
  image runs out neither of `rlen` nor of its partition.
* *FlashImplementsPartUpdate*. `WrittenInv`: at each chunk the words of the
  partition before the cursor are those the image asks for and no other word
  has changed, which is what the refinement needs when success is reported. It
  assumes `ImagesRepresentable`: the output of a chunk is below 4 GiB, a CRC32
  chunk has no blocks, and fill chunks are flashed where a UINTN has 32 bits.
  TLC violates ImplementsPartUpdate without any one of the three; the last is
  `fl_fill64`.

What the recursive functions of these models compute is proved for every
length. The library's induction theorems take a predicate and cannot be used,
so `SetInduction` says the same of a set of numbers, from `WFMin` and the
well-foundedness of `<`; `RunningSum` (FlashProofs) and `LoopExists`
(UtilitiesProofs, GptProofs) are instances of it: the function that a loop
defines exists, so the equations of its definition hold of it.

**EraseProofs**: *TypeCorrect*, *WholeGroupsSafe*, *EraseImplementsPartUpdate*,
for every size of group, write and card. `EraseInv` (`LocalsInv`, `DiskInv`)
follows the erase of a card through its three parts, the blocks before the
first whole group, those after the last one, and the groups between: at each
point the locals are known and what has been zeroed is an interval that ends at
them. The ends of the parts are remainders by the group size, so the lemmas
are about division.

**EntryProofs**: *EntryTypes*, *HandoverSafe*, *AttemptSafe*, *VolumesSafe*,
*CmdlineSafe*. `Holds(mem, Held)` says that of the things made for an image
exactly those are allocated that the present point of the code answers for;
lemmas about the ledger show that each unwinding gives back that set.
*AttemptSafe* speaks of the image, its file information, ramdisk, command-line
pages and kernel pages. What `handover_kernel` and `intel_load_target` do not
give back (`Abandoned`) and the `cmdline` that `efi_main` frees a second time
are outside of it: see section 6. `OwnerInv`
and `PartsInv` follow the command line from owner to owner: it never has a part
that is still to come, so no attempt can repeat one. `VolumeInv`: wherever the
loader can leave without `fs_exit`, the processor has been recognised, so the
before-exit hook is the one that closes the volumes.

**WarmdumpProofs**: *TypeCorrect*, *KeptSafe* (with any
fault but a failed allocation, after which the code deletes a dump that it has
not read),
*CrashLogSafe* and *NothingLeftOverSafe* (whose properties speak of behaviours
without a fault). `LogInv` describes the protocol in three phases, between two
crashes, saving, and restoring, by the flag, the saved source, the files and
the memory; `DeleteInv` ties the deletion to the injection before it.

**GptProofs**

* *CacheCoherent*. TypeOK and EntriesCoherent are inductive together with what
  is known of the entry under construction.
* *GptImplementsTable*. `TableInv`: while the loop runs, the devices in disks
  are the GPT disks before `i` that have not failed. `MatchesWith` and
  `NamedParts` carry an entry of a slot to the entry of its device; the order of
  the loops is that of the devices because the slots ascend. `DiskListed` and
  `AllListed` are the inductions over the two loops of the list.
* *PublishedIsTargetSafe*. `NpartInv`: npart is the sum of the entries of the
  slots, which bounds what the loops append. `AppInv` carries the list from the
  answer to what is published, and every later lookup is one in the same table.

**UtilitiesProofs**

* *NoTableNoOsSafe*: the level is not answered BOOT_OS without a table. What the
  boot decision does on BATT_ERROR is another matter: see section 6.
  `AnswerCurrent`: an answer is that of the battery and the
  tables of the moment; `CachedExists`: a cached table is there.
* *PixelsRightSafe*. `SplashInv` gives the place in the file and in the picture
  as functions of line and column; `RowOfBits` and `WholeLines` say that the
  padding makes each line begin at a multiple of four bytes, for each depth.
  It is about bitmaps whose line does not wrap (`Fits`), and about entries of
  the colour map where the header leaves room for one (`EntryInv`); of the two
  other kinds of bitmap that the header check lets pass it says nothing.
* *E820SameMemorySafe*, for any map whose regions do not overlap (`MapInv`), in
  any order: by induction over the regions read so far.
* *EmallocFitsSafe*, assuming that a UINTN is as wide as an address
  (`WideUintn`). emalloc takes the part of a region below the first megabyte
  off the size, which may wrap; `WrapsBack` shows that the sum with the address
  is right all the same. With narrower UINTNs (i386 and addresses of 64 bits)
  it is false, and TLC shows a region that fits and is not found.

Only model-checked: the liveness properties BootEnds, StormReachesRescue and
EveryCommandAnswered, which are out of the prover's reach under fairness. Every
other property of a passing run is the statement of a theorem.

## 6. Findings

* `fl_fill64`: on x86_64 the second half of each fill chunk is written
  uninitialised, and success is reported.
* `ld_efree`: after a failed handover, `efree` is given the kernel's size in
  the image (bootimg.c:540) and not the `init_size` that was allocated. In the
  shortest trace the kernel is not relocatable, its pages are not those it
  asks for, and the handover fails: `kernel_start` is given back in part.

Seen in the code and not the subject of a run:

* Boot decision. In cold-reset builds a power loss or a failing write after
  WDColdReset became 1 and SavedResetSource was deleted leaves the flag at 1:
  each later boot fails to get its reset source, so ColdResetAfterWatchdog
  holds without power loss only. With the write failing and a watchdog reported
  again and again, `boot_watchdog` (bootlogic.c:248) resets for as long as that
  lasts. An unreadable wake or reset source reads as 255 and not as -1, so the
  messages about it are unreachable. A missing OEM1 table makes the thresholds
  all ones, which leads to charging; a battery that cannot be read
  (BATT_ERROR) does not keep `em_fallback_target` from starting the OS.
* Fastboot. Each download leaks the buffer of the one before (fastboot.c:292).
  `cmd_boot` answers OKAY and then FAIL if ExitBootServices fails
  (fastboot.c:226), `cmd_download` DATA and then FAIL if the image gets no
  memory (fastboot.c:287). Both answers complete in STATE_COMPLETE and each
  completion queues a read of the one command buffer; the host takes the second
  answer for that of its next command, or sends an image that is looked up as a
  command. With `InStep` taken out of the properties TLC finds two outstanding
  reads, image data in STATE_COMPLETE, an idle host with a response unread, and
  a `flash` of a buffer that is not the announced image, in 12 to 15 states.
  A reconfiguration by the host ends it. `publish_partsize` ignores the status
  of the list;
  `argv[1]` is read without `argc` being compared (main.c:150).
* Flashing. A chunk with an output of 4 GiB or more wraps (sparse.c:75); `rlen`
  counts the file header (sparse.c:96), so an image may end that much too
  early; a partition as long as an erase group but not aligned is zeroed and
  then reported as failed (flash.c:276).
* Partition table. A disk that did not answer at the first question is missing
  for the session; the empty name finds an unnamed partition that the list
  leaves out; of two entries with one name `getvar` reports the last and
  `flash` writes the first; entries are read in steps of the C structure
  whatever the header says of their size; `gpt_free_cache` has no caller.
* Loader. The image is freed by `android_image_start_buffer` and again by its
  callers. The user's `cmdline` is freed by `setup_command_line`
  (bootimg.c:289) or on the way of `start_boot_logic` (bootlogic.c:336, 350),
  and again by `efi_main` (entry.c:640). After a failed handover nobody frees
  the boot parameters, the descriptor table and the memory map
  (bootimg.c:489-541). The command line that `intel_load_target` makes is lost
  when the attempt fails before `setup_command_line` has freed it. The pages of
  the kernel's command line are freed by a count of bytes (bootimg.c:766), so
  pages that it never had go with them. The watchdog keeps running after a
  handover that failed. Nothing compares the E820 table with
  its 128 entries. In `emalloc` the size is reduced when a region straddles the
  first megabyte, and stays so for every later region. Where a UINTN is
  narrower than an address (i386), a region that holds the pages is then passed
  over.
* Warm dump. `uefi_read_file` reports success when its buffer could not be
  allocated; the warm dump then injects what it finds and deletes the file,
  which is why KeptUntilInjected excludes that fault. Without the cold-reset
  option a backup is never consumed, and a later watchdog of another kind
  restores it.
* Splash. The size of a line is computed in 32 bits (uefi_utils.c:112): of a
  bitmap so wide that it wraps, the header check accepts a small file and the
  conversion reads far past it. With ImageOffset equal to the size of the header
  (uefi_utils.c:133) a bitmap of 1, 4 or 8 bits has no colour map, and its
  colours are read from the image data or from behind the file.
* Others. `strtoul` accumulates in an `int` (stdlib.c:49); `load_dsdt` frees the
  buffer before it has read it; the buffer of the splash is never freed.

## 7. What is not modelled

* In BootLogic: splash screens, the contents of images, and the warm dump (it
  touches none of the variables there but those of Warmdump).
* In Fastboot: a transfer that cannot be queued, the texts of responses, and
  the size a read asks for. `STATE_ERROR` is unreachable.
* In Flash and Erase: the partition table (partitions are inputs), the magic
  number, and an erase group of size zero. Reading past the end of an image has
  no place in the model.
* In BootImg and Entry: bytes of the image, the registers and the assembly of
  the jump, the commands that only print, and options given twice.
* In Warmdump: addresses and sizes of the buffers; in Gpt: checksums and the
  backup header, which the code does not look at either; in Splash: colours
  beyond their place in the file.
* Components with status `not_modelled` in `PROJECT.json`: log and time stamps
  (a text cursor nothing reads), the C library subset (conversions of text),
  the watchdog drivers (one call into firmware each), CPU, time, ESRT and key
  reads (no state), and the protocol headers (no behaviour).
