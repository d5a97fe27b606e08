-------------------------------- MODULE Entry --------------------------------
(***************************************************************************)
(* The OS loader from its entry to its end: efi_main of efilinux/entry.c,  *)
(* the volumes of efilinux/fs/fs.c, and the command line on its way        *)
(* through start_boot_logic, launch_or_fallback (bootlogic.c) and          *)
(* intel_load_target to the boot image.  Which target is started is the    *)
(* matter of BootLogic; here a launch has some targets to try.             *)
(***************************************************************************)
EXTENDS BootImg, FiniteSets

CONSTANTS
    NVolumes,       \* handles with a file system
    MaxAttempts     \* bound on the targets of one launch

ASSUME EntryAssumption == NVolumes \in Nat /\ MaxAttempts \in Nat

VARIABLES
    fs,         \* nr_fs_devices, and the volumes that are open
    ops,        \* loader_ops: "stub" or "x86"
    type,       \* the option of the command line
    ptr,        \* pointers of efi_main that are not NULL
    line,       \* start_boot_logic's command line
    saved,      \* saved_cmdline of launch_or_fallback
    attempt

entryVars == <<ops, type, ptr, line, saved, attempt>>
vars == <<pc, mem, imageVars, fs, entryVars>>

EntryObjects ==
    {"fs_devices", "options", "name", "cmdline", "battlow_cmdline", "full_line",
     "error_buf", "a_buf", "path", "file", "blk_devices"}

Volumes == 1 .. NVolumes
Options == {"none", "f", "t", "p", "c", "a"}
Ends == {"jumped", "returned", "exited", "reset", "off"}
Points ==
    ImagePoints \cup Ends
        \cup {"start", "protocol", "config", "file", "options", "platform", "args",
              "list", "print_map", "dispatch", "vbatt",
              "extra", "save", "launch", "load", "free_args", "fs_deinit", "error"}

Parts == {"image", "battlow", "extra", "user", "entry"}
Lines == [obj : {"none"} \cup EntryObjects \cup ImageObjects, parts : Seq(Parts)]

TypeOK ==
    /\ pc \in Points
    /\ mem \in LedgerOver(EntryObjects \cup ImageObjects \cup {"volume"})
    /\ how \in {"partition", "file", "buffer"}
    /\ append \in Lines /\ kcmd \in Seq(Parts) /\ wd \in BOOLEAN
    /\ fs \in [nr : 0 .. NVolumes, open : SUBSET Volumes]
    /\ ops \in {"stub", "x86"}
    /\ type \in Options
    /\ ptr \subseteq {"name", "cmdline", "options"}
    /\ line \in Lines /\ saved \in Seq(Parts)
    /\ attempt \in 0 .. MaxAttempts

Init ==
    /\ pc = "start"
    /\ mem = Empty
    /\ how = "buffer" /\ append = NULL /\ kcmd = <<>> /\ wd = FALSE
    /\ fs = [nr |-> 0, open |-> {}]
    /\ ops = "stub" /\ type = "none" /\ ptr = {}
    /\ line = NULL /\ saved = <<>> /\ attempt = 0

-----------------------------------------------------------------------------
(***************************************************************************)
(* fs.c.  fs_init opens the root of every volume or, when one fails,       *)
(* closes those it has opened and frees its table; the count stays.        *)
(***************************************************************************)
\* Mutant: the loop over the opened volumes starts one before the first.
OpenAfterFailure_FromZero(i) == {0}

OpenAfterFailure(i) == {}

fs_init ==
    /\ pc = "start"
    /\ pc' = "protocol"
    /\ \/ /\ fs' = [nr |-> NVolumes, open |-> Volumes]
          /\ mem' = New(mem, "fs_devices")
       \/ \* No volume, or no memory for the handles.
          /\ May("heap")
          /\ mem' = NoMemory(mem)
          /\ UNCHANGED fs
       \/ \* No memory for the table.
          /\ May("heap")
          /\ mem' = NoMemory(mem)
          /\ fs' = [nr |-> NVolumes, open |-> {}]
       \/ /\ May("disk")
          /\ \E i \in Volumes :
                fs' = [nr |-> NVolumes, open |-> OpenAfterFailure(i)]
          /\ mem' = Drop(New(mem, "fs_devices"), "fs_devices")
    /\ UNCHANGED <<imageVars, entryVars>>

Closed == [fs EXCEPT !.open = {}]

\* fs_close goes through the table, freed or not, and closes nr volumes.
CloseVolumes(m) ==
    [m EXCEPT !.misused =
        @ \cup (IF fs.nr > 0 /\ "fs_devices" \notin m.live THEN {"fs_devices"} ELSE {})
          \cup (IF fs.open # 1 .. fs.nr THEN {"volume"} ELSE {})]

fs_exit(m) == Drop(CloseVolumes(m), "fs_devices")

-----------------------------------------------------------------------------
(***************************************************************************)
(* efi_main up to the dispatch.                                            *)
(***************************************************************************)
LoadedImage ==
    /\ pc = "protocol"
    /\ pc' \in {"config"} \cup (IF May("platform") THEN {"fs_deinit"} ELSE {})
    /\ UNCHANGED <<mem, imageVars, fs, entryVars>>

\* A search of the table, which looks at it only if the count is not 0.
handle_to_dev(m) ==
    IF fs.nr > 0 /\ "fs_devices" \notin m.live
    THEN [m EXCEPT !.misused = @ \cup {"fs_devices"}]
    ELSE m

\* get_path: the device, the path of the loader, and its directory in a
\* buffer that nobody frees.
GetPath ==
    /\ pc = "config"
    /\ LET m == handle_to_dev(mem) IN
          \/ Go("file", Forget(New(m, "path"), {"path"}))
          \/ May("disk") /\ Go("platform", m)
          \/ May("heap") /\ Go("platform", NoMemory(m))
    /\ UNCHANGED <<imageVars, fs, entryVars>>

\* file_open with a device number in the name; its record of the file is
\* freed when the device or the file is not there.
FileOpen ==
    /\ pc = "file"
    /\ LET m == handle_to_dev(New(mem, "file")) IN
          \/ Go("options", m)
          \/ Go("platform", Drop(m, "file"))
          \/ May("heap") /\ Go("platform", NoMemory(mem))
    /\ UNCHANGED <<imageVars, fs, entryVars>>

\* file_close frees the record only if the volume closes the file.
FileClosed(m) ==
    {Drop(m, "file")} \cup (IF May("disk") THEN {Forget(m, {"file"})} ELSE {})

\* read_config_file, once the file is open: the options come from it, or the
\* buffers are lost with a read error or a missing newline, or never there.
ReadConfigFile ==
    /\ pc = "options"
    /\ pc' = "platform"
    /\ \/ /\ mem' \in FileClosed(New(mem, "options"))
          /\ ptr' = ptr \cup {"options"}
       \/ /\ May("disk")
          /\ mem' \in FileClosed(Forget(New(mem, "a_buf"), {"a_buf"})) \cup FileClosed(mem)
          /\ UNCHANGED ptr
       \/ /\ May("heap")
          /\ mem' \in FileClosed(NoMemory(mem))
          /\ UNCHANGED ptr
    /\ UNCHANGED <<imageVars, fs, ops, type, line, saved, attempt>>

\* init_platform_functions: an unknown processor keeps the stubs.
InitPlatform ==
    /\ pc = "platform"
    /\ \/ pc' = "args" /\ ops' = "x86"
       \/ May("platform") /\ pc' = "fs_deinit" /\ UNCHANGED ops
    /\ UNCHANGED <<mem, imageVars, fs, type, ptr, line, saved, attempt>>

\* Mutant: the usage exit leaves the volumes to the firmware.
usage_exit_NoFsExit(m) == Go("returned", m) /\ UNCHANGED fs

usage_exit(m) == Go("returned", fs_exit(m)) /\ fs' = Closed

\* The options of the configuration file are freed after parse_args.
WithoutOptions(m) == IF "options" \in ptr THEN Drop(m, "options") ELSE m

\* parse_args finds no arguments; an option with its name; a command line; a
\* mistake, after which it has freed the name; or no memory.
ParseArgs ==
    /\ pc = "args"
    /\ \/ \* No options at all.
          /\ pc' = "dispatch"
          /\ UNCHANGED <<mem, fs, type, ptr>>
       \/ \E t \in Options, c \in BOOLEAN :
             LET n == IF t = "none" THEN mem ELSE New(mem, "name")
             IN /\ Go("dispatch", WithoutOptions(IF c THEN New(n, "cmdline") ELSE n))
                /\ type' = t
                /\ ptr' = (IF t = "none" THEN {} ELSE {"name"})
                              \cup (IF c THEN {"cmdline"} ELSE {})
                /\ UNCHANGED fs
       \/ \E m \in {mem, Drop(New(mem, "name"), "name")} :
             /\ usage_exit(WithoutOptions(m))
             /\ UNCHANGED <<type, ptr>>
       \/ \E m \in {mem, Drop(New(mem, "name"), "name")} :
             /\ May("heap")
             /\ Go("fs_deinit", WithoutOptions(NoMemory(m)))
             /\ UNCHANGED <<fs, type, ptr>>
       \/ Go("list", mem) /\ UNCHANGED <<fs, type, ptr>>
       \/ Go("print_map", mem) /\ UNCHANGED <<fs, type, ptr>>
    /\ UNCHANGED <<imageVars, ops, line, saved, attempt>>

\* blk_init: no block device, no memory, or a failure that frees the table
\* and keeps the count, as in fs_init.
blk_init(m) ==
    {New(m, "blk_devices"), m}
        \cup (IF May("heap") THEN {NoMemory(m)} ELSE {})
        \cup (IF May("disk") THEN {Drop(New(m, "blk_devices"), "blk_devices")} ELSE {})

\* Option -l: list_blk_devices and blk_exit whatever blk_init said.
ListBlkDevices ==
    /\ pc = "list"
    /\ \E m \in blk_init(mem) : usage_exit(WithoutOptions(Drop(m, "blk_devices")))
    /\ UNCHANGED <<imageVars, entryVars>>

\* Option -m.
PrintMemoryMap ==
    /\ pc = "print_map"
    /\ \/ usage_exit(WithoutOptions(Drop(memory_map(mem), "map_buf")))
       \/ May("heap") /\ usage_exit(WithoutOptions(NoMemory(mem)))
       \/ May("map") /\ usage_exit(WithoutOptions(New(mem, "map_buf")))
    /\ UNCHANGED <<imageVars, entryVars>>

\* The command line that efi_main passes on.
Cmdline ==
    IF "cmdline" \in ptr THEN [obj |-> "cmdline", parts |-> <<"user">>] ELSE NULL

\* The image that the option names, unless the name is no partition or no
\* number; the debug commands start nothing.
Dispatch ==
    /\ pc = "dispatch"
    /\ \/ type = "f" /\ StartImage("file", mem, Cmdline)
       \/ type = "p" /\ StartImage("partition", mem, Cmdline)
       \/ type = "a" /\ StartImage("buffer", mem, Cmdline)
       \/ type \in {"p", "t", "a", "c"} /\ Go("free_args", mem) /\ UNCHANGED imageVars
       \/ type = "t" /\ Go("load", mem) /\ UNCHANGED imageVars
       \/ type = "none" /\ Go("vbatt", mem) /\ UNCHANGED imageVars
    /\ line' = IF type = "none" THEN Cmdline ELSE NULL
    /\ saved' = Cmdline.parts
    /\ UNCHANGED <<fs, ops, type, ptr, attempt>>

-----------------------------------------------------------------------------
(***************************************************************************)
(* start_boot_logic: the command line is rewritten three times, each time  *)
(* into a buffer of its own, and the one before is freed.                  *)
(***************************************************************************)
Release(m, l) == IF l = NULL THEN m ELSE Drop(m, l.obj)

\* append_strings(a, b) returns a new string, or NULL without memory.
Rewrite(obj, parts) ==
    \/ line' = [obj |-> obj, parts |-> parts] /\ mem' = Release(New(mem, obj), line)
    \/ May("heap") /\ line' = NULL /\ mem' = Release(NoMemory(mem), line)

\* Nothing to be started: the target could not be found out.
CheckVbattfreqlmt ==
    /\ pc = "vbatt"
    /\ \/ pc' = "free_args" /\ UNCHANGED <<mem, line>>
       \/ pc' = "extra" /\ UNCHANGED <<mem, line>>
       \/ pc' = "extra" /\ Rewrite("battlow_cmdline", <<"battlow">> \o line.parts)
    /\ UNCHANGED <<imageVars, fs, ops, type, ptr, saved, attempt>>

\* get_extra_cmdline of bootlogic.c; the variable's own buffer does not
\* outlive it.
GetExtraCmdline ==
    /\ pc = "extra"
    /\ pc' = "save"
    /\ \/ line = NULL /\ UNCHANGED <<mem, line>>
       \/ line # NULL /\ Rewrite("full_line", line.parts)
       \/ Rewrite("full_line", <<"extra">> \o line.parts)
    /\ UNCHANGED <<imageVars, fs, ops, type, ptr, saved, attempt>>

\* Mutant: the copy is taken after the string was freed.
Saved_Late == <<>>

Saved == line.parts

SaveCmdline ==
    /\ pc = "save"
    /\ pc' = "launch"
    /\ saved' = Saved
    /\ mem' = Release(mem, line)
    /\ line' = NULL
    /\ UNCHANGED <<imageVars, fs, ops, type, ptr, attempt>>

\* The top of the loop: off, an error of populate_indicators, or a target.
Launch ==
    /\ pc = "launch"
    /\ pc' \in {"off", "free_args", "load"}
    /\ UNCHANGED <<mem, imageVars, fs, entryVars>>

\* The entry's own part follows.
LoadLine(e) == saved \o e

\* intel_load_target: rescue mode resets or fails; a target starts with its
\* own arguments behind the saved ones.
LoadTarget ==
    /\ pc = "load"
    /\ LET m == Forget(mem, ImageObjects) IN
          \/ pc' = "reset" /\ UNCHANGED <<mem, imageVars>>
          \/ Go("image_failed", m) /\ UNCHANGED imageVars
          \/ \E e \in {<<>>, <<"entry">>} :
                IF type = "t" /\ "cmdline" \notin ptr /\ e = <<>>
                THEN StartImage("partition", m, NULL)
                ELSE StartImage("partition", New(m, "updated_cmdline"),
                         [obj |-> "updated_cmdline", parts |-> LoadLine(e)])
          \/ May("heap") /\ StartImage("partition", NoMemory(m), NULL)
    /\ UNCHANGED <<fs, entryVars>>

\* Back from the image: the next target of the ladder, or an error.
ImageFailed ==
    /\ pc = "image_failed"
    /\ \/ /\ type = "none" /\ attempt < MaxAttempts
          /\ pc' = "launch" /\ attempt' = attempt + 1
       \/ pc' = "free_args" /\ UNCHANGED attempt
    /\ UNCHANGED <<mem, imageVars, fs, ops, type, ptr, line, saved>>

-----------------------------------------------------------------------------
(***************************************************************************)
(* The end of efi_main, and the hooks of x86.c.                            *)
(***************************************************************************)
FreeArgs ==
    /\ pc = "free_args"
    /\ LET m == IF "cmdline" \in ptr THEN Drop(mem, "cmdline") ELSE mem
       IN Go("fs_deinit", IF "name" \in ptr THEN Drop(m, "name") ELSE m)
    /\ UNCHANGED <<imageVars, fs, entryVars>>

FsDeinit ==
    /\ pc = "fs_deinit"
    /\ Go("error", fs_exit(mem))
    /\ fs' = Closed
    /\ UNCHANGED <<imageVars, entryVars>>

\* x86_hook_before_exit closes the volumes; the stub does nothing.
HookBeforeExit(m) == IF ops = "x86" THEN CloseVolumes(m) ELSE m

\* The error string and exit(), or a plain return without memory for it.
Exit ==
    /\ pc = "error"
    /\ \/ Go("exited", HookBeforeExit(New(mem, "error_buf")))
       \/ May("heap") /\ Go("returned", NoMemory(mem))
    /\ UNCHANGED <<imageVars, fs, entryVars>>

\* The same hook on the way to the kernel.
HandoverHooks ==
    /\ RunHooks(HookBeforeExit(mem))
    /\ fs' = IF ops = "x86" THEN Closed ELSE fs
    /\ UNCHANGED entryVars

Next ==
    \/ fs_init \/ LoadedImage \/ GetPath \/ FileOpen \/ ReadConfigFile \/ InitPlatform
    \/ ParseArgs \/ ListBlkDevices \/ PrintMemoryMap \/ Dispatch
    \/ CheckVbattfreqlmt \/ GetExtraCmdline \/ SaveCmdline \/ Launch \/ LoadTarget
    \/ ImageFailed \/ HandoverHooks \/ FreeArgs \/ FsDeinit \/ Exit
    \/ ImageStep /\ UNCHANGED <<fs, entryVars>>

Spec == Init /\ [][Next]_vars

-----------------------------------------------------------------------------
(***************************************************************************)
(* Properties.                                                             *)
(***************************************************************************)
\* The kernel starts on memory that is still allocated, all of it, whatever
\* attempts failed before; and ExitBootServices is given the key of the
\* memory map as it is then (the comment in front of exit_boot_services).
HandoverIntact ==
    /\ pc = "exit" => mem.key
    /\ pc = "jumped" =>
          {"kernel_start", "ramdisk_image", "cmd_line_ptr", "boot_params", "gdt", "map_buf"}
              \subseteq mem.live

Count(part) == Cardinality({k \in DOMAIN kcmd : kcmd[k] = part})

\* The kernel's command line has the image's arguments, the user's, if there
\* were any and no allocation failed, and nothing twice, whichever attempt
\* started it: launch_or_fallback keeps a copy that the attempts do not touch.
CmdlineOnce ==
    pc = "jumped" =>
        /\ kcmd[1] = "image"
        /\ \A part \in Parts : Count(part) <= 1
        /\ "cmdline" \in ptr /\ ~mem.failed => Count("user") = 1

\* No end of the loader leaves a volume open: neither the kernel's start nor
\* an exit, nor the two early returns.
VolumesClosed == pc \in {"jumped", "returned", "exited"} => fs.open = {}

\* What handover_kernel does not give back when it fails: the parameters, the
\* descriptor table and the memory map (bootimg.c:489-541); and the command line
\* that intel_load_target makes for the attempt, which is lost when the attempt
\* fails before setup_command_line has freed it.
Abandoned == {"boot_params", "gdt", "map_buf", "updated_cmdline"}

\* An attempt that has failed has given back the image, its file information,
\* ramdisk, command line and kernel pages, at least the start of each range,
\* and of these nothing but the image twice (the loaders free it again behind
\* start_image's own free).  Outside of it are what is Abandoned, and the user's
\* cmdline of efi_main, which setup_command_line (bootimg.c:289) or
\* start_boot_logic (bootlogic.c:336, 350) frees and efi_main once more
\* (entry.c:640).
AttemptReturnsImage ==
    LET returned == ImageObjects \ Abandoned
    IN mem.lost \cap returned = {} /\ mem.misused \cap returned \subseteq {"bootimage"}

\* efree frees "the size of the allocation" (the comment in front of it): the
\* kernel's pages after a handover that failed.
EfreeWholeAllocation == "kernel_start" \notin mem.partial
=============================================================================
