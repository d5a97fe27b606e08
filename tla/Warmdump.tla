------------------------------- MODULE Warmdump -------------------------------
(***************************************************************************)
(* The warm dump (efilinux/warmdump.c and the file helpers of              *)
(* common/uefi_utils.c) around the cold reset of boot_watchdog             *)
(* (bootlogic.c): after a kernel watchdog the dumps in RAM are saved to    *)
(* the ESP, the platform is reset cold, and the next boot puts them back.  *)
(* BootLogic has the boot decision; here boot_watchdog is what it does to  *)
(* the variables both programs read, over several boots.                   *)
(***************************************************************************)
EXTENDS Integers, Sequences

CONSTANTS
    Crashes,        \* bound on the crashes of a behaviour
    Faults          \* "disk", "heap", "nv" (variable writes), "power"

ASSUME WarmdumpAssumption ==
    Crashes \in Nat /\ Faults \subseteq {"disk", "heap", "nv", "power"}

VARIABLES
    pc,
    dump,       \* the dump that the warm dump is at
    rsci,       \* reset type and source as the firmware reports them
    wdcold,     \* WDColdReset
    saved,      \* SavedResetSource, "none" when absent
    rs,         \* the reset source the loader works with
    ram,        \* content of each dump's memory
    file,       \* content of its file on the ESP
    has,        \* what the platform has: Lakemore in PDM mode, pstore variables
    n,          \* crashes so far
    fault       \* "none", "heap" once an allocation has failed, or "other"

vars == <<pc, dump, rsci, wdcold, saved, rs, ram, file, has, n, fault>>

Dumps == {"lm", "pstore"}

\* Contents: the log of crash 1, 2, ..., nothing of use, or a mixture.
Nothing == 0
Junk == -1
Absent == -2
Contents == {Nothing, Junk} \cup 1 .. Crashes

Watchdogs == {"kernel_wd", "other_wd"}
Sources == Watchdogs \cup {"sw", "error"}

Points ==
    {"os", "boot", "call", "main", "need", "backup", "exist", "inject", "delete",
     "wd", "wd_clear", "wd_save", "wd_flag", "wd_reset"}

TypeOK ==
    /\ pc \in Points /\ dump \in Dumps
    /\ rsci \in [type : {"warm", "cold"}, source : Watchdogs \cup {"sw"}]
    /\ wdcold \in {0, 1}
    /\ saved \in Sources \cup {"none"}
    /\ rs \in Sources
    /\ ram \in [Dumps -> Contents]
    /\ file \in [Dumps -> Contents \cup {Absent}]
    /\ has \in SUBSET Dumps
    /\ n \in 0 .. Crashes
    /\ fault \in {"none", "heap", "other"}

May(f) == f \in Faults
Go(step, d) == pc' = step /\ dump' = d
Failed(f) == May(f) /\ fault' = IF f = "heap" \/ fault = "heap" THEN "heap" ELSE "other"

Init ==
    /\ pc = "os" /\ dump = "lm"
    /\ rsci = [type |-> "cold", source |-> "sw"]
    /\ wdcold = 0 /\ saved = "none" /\ rs = "sw"
    /\ ram = [d \in Dumps |-> Nothing]
    /\ file = [d \in Dumps |-> Absent]
    /\ has \in SUBSET Dumps
    /\ n = 0 /\ fault = "none"

-----------------------------------------------------------------------------
(***************************************************************************)
(* The OS and the platform.                                                *)
(***************************************************************************)
\* A watchdog fires; the kernel's is a warm reset.
Crash(source, type) ==
    /\ pc = "os" /\ n < Crashes
    /\ source = "kernel_wd" => type = "warm"
    /\ pc' = "boot"
    /\ n' = n + 1
    /\ rsci' = [type |-> type, source |-> source]
    /\ ram' = [d \in Dumps |->
                  IF type = "cold" THEN Nothing ELSE IF d \in has THEN n + 1 ELSE ram[d]]
    /\ UNCHANGED <<dump, wdcold, saved, rs, file, has, fault>>

\* A power failure at any step of the boot.
PowerLoss ==
    /\ pc # "os"
    /\ Failed("power")
    /\ Go("boot", "lm")
    /\ rsci' = [type |-> "cold", source |-> "sw"]
    /\ ram' = [d \in Dumps |-> Nothing]
    /\ UNCHANGED <<wdcold, saved, rs, file, has, n>>

-----------------------------------------------------------------------------
(***************************************************************************)
(* The loader, up to the call of the warm dump.                            *)
(***************************************************************************)
\* get_reset_source, and the test for a watchdog of boot_watchdog.
GetResetSource ==
    LET s == IF wdcold = 1
             THEN IF saved = "none" THEN "error" ELSE saved
             ELSE rsci.source
    IN /\ pc = "boot"
       /\ rs' = s
       /\ pc' = IF s \in Watchdogs THEN "call" ELSE "os"
       /\ \/ saved' = "none" /\ UNCHANGED fault
          \/ Failed("nv") /\ UNCHANGED saved
       /\ UNCHANGED <<dump, rsci, wdcold, ram, file, has, n>>

\* uefi_call_image: the path, the size of the file, and its loading.
CallImage ==
    /\ pc = "call"
    /\ \/ pc' = "main" /\ UNCHANGED fault
       \/ pc' = "wd" /\ (Failed("disk") \/ Failed("heap"))
    /\ UNCHANGED <<dump, rsci, wdcold, saved, rs, ram, file, has, n>>

\* efi_main: the ESP, and the directory of the backup, made if need be.
EfiMain ==
    /\ pc = "main"
    /\ \/ pc' = "need" /\ UNCHANGED fault
       \/ pc' = "wd" /\ Failed("disk")
    /\ UNCHANGED <<dump, rsci, wdcold, saved, rs, ram, file, has, n>>

\* Mutant: the loader's variable is taken for a request to save.
need_backup_Flag == wdcold = 1 \/ (rsci.type = "warm" /\ rsci.source = "kernel_wd")

\* The RSCI table, not the loader's rs.
need_backup == wdcold # 1 /\ rsci.type = "warm" /\ rsci.source = "kernel_wd"

NeedBackup ==
    /\ pc = "need"
    /\ Go(IF need_backup THEN "backup" ELSE "exist", "lm")
    /\ UNCHANGED <<rsci, wdcold, saved, rs, ram, file, has, n, fault>>

\* After the dump d: Lakemore first, then pstore.
After(step, d) == IF d = "lm" THEN Go(step, "pstore") ELSE Go("wd", "lm")

-----------------------------------------------------------------------------
(***************************************************************************)
(* lm_backup and pstore_backup, lm_restore and pstore_restore.             *)
(***************************************************************************)
\* uefi_write_file opens or creates the file and writes over what it holds; a
\* failed write leaves a part of it.
uefi_write_file(d, content) ==
    \/ file' = [file EXCEPT ![d] = content] /\ UNCHANGED fault
    \/ Failed("disk") /\ file' \in {file, [file EXCEPT ![d] = Junk]}

\* pstore is saved only with its signature in RAM.
Backup(d) ==
    /\ pc = "backup" /\ dump = d
    /\ After("backup", d)
    /\ IF d \in has /\ ram[d] # Nothing
       THEN uefi_write_file(d, ram[d])
       ELSE UNCHANGED <<file, fault>>
    /\ UNCHANGED <<rsci, wdcold, saved, rs, ram, has, n>>

\* pstore_restore wants the address first; an error reads as no file.
Exist(d) ==
    /\ pc = "exist" /\ dump = d
    /\ \/ /\ d = "lm" \/ d \in has
          /\ file[d] # Absent
          /\ Go("inject", d)
          /\ UNCHANGED fault
       \/ /\ (d = "pstore" /\ d \notin has) \/ file[d] = Absent
          /\ After("exist", d)
          /\ UNCHANGED fault
       \/ Failed("disk") /\ After("exist", d)
    /\ UNCHANGED <<rsci, wdcold, saved, rs, ram, file, has, n>>

\* Mutant: the status of the read is lost.
Unread_Deletes(d) == Go("delete", d)

\* After a read that failed the file stays.
Unread(d) == After("exist", d)

\* inject_file_ram.  Without memory for the file information uefi_read_file
\* returns the success of its Open, and what is copied is not the file.
Inject(d) ==
    /\ pc = "inject" /\ dump = d
    /\ \/ /\ ram' = [ram EXCEPT ![d] = file[d]]
          /\ Go("delete", d)
          /\ UNCHANGED fault
       \/ Failed("disk") /\ Unread(d) /\ UNCHANGED ram
       \/ /\ Failed("heap")
          /\ ram' = [ram EXCEPT ![d] = Junk]
          /\ Go("delete", d)
    /\ UNCHANGED <<rsci, wdcold, saved, rs, file, has, n>>

\* Mutant: the file is left for the next boot.
Deleted_Kept(d) == file

Deleted(d) == [file EXCEPT ![d] = Absent]

\* A failure is only logged.
uefi_delete_file(d) ==
    /\ pc = "delete" /\ dump = d
    /\ After("exist", d)
    /\ \/ file' = Deleted(d) /\ UNCHANGED fault
       \/ Failed("disk") /\ UNCHANGED file
    /\ UNCHANGED <<rsci, wdcold, saved, rs, ram, has, n>>

-----------------------------------------------------------------------------
(***************************************************************************)
(* The rest of boot_watchdog, with do_cold_reset_after_wd.                 *)
(***************************************************************************)
BootWatchdog ==
    /\ pc = "wd"
    /\ pc' = IF wdcold = 1 THEN "wd_clear" ELSE "wd_save"
    /\ UNCHANGED <<dump, rsci, wdcold, saved, rs, ram, file, has, n, fault>>

Write(var, value) ==
    \/ var' = value /\ UNCHANGED fault
    \/ Failed("nv") /\ UNCHANGED var

Cleared == 0

ClearColdReset ==
    /\ pc = "wd_clear"
    /\ pc' = "os"
    /\ Write(wdcold, Cleared)
    /\ UNCHANGED <<dump, rsci, saved, rs, ram, file, has, n>>

SaveResetSource ==
    /\ pc = "wd_save"
    /\ pc' = "wd_flag"
    /\ Write(saved, rs)
    /\ UNCHANGED <<dump, rsci, wdcold, rs, ram, file, has, n>>

SetColdReset ==
    /\ pc = "wd_flag"
    /\ pc' = "wd_reset"
    /\ Write(wdcold, 1)
    /\ UNCHANGED <<dump, rsci, saved, rs, ram, file, has, n>>

\* uefi_reset_system(EfiResetCold): nothing of the memory survives.
ColdReset ==
    /\ pc = "wd_reset"
    /\ pc' = "boot"
    /\ rsci' = [type |-> "cold", source |-> "sw"]
    /\ ram' = [d \in Dumps |-> Nothing]
    /\ UNCHANGED <<dump, wdcold, saved, rs, file, has, n, fault>>

Next ==
    \/ \E s \in Watchdogs, t \in {"warm", "cold"} : Crash(s, t)
    \/ PowerLoss
    \/ GetResetSource \/ CallImage \/ EfiMain \/ NeedBackup
    \/ \E d \in Dumps : Backup(d) \/ Exist(d) \/ Inject(d) \/ uefi_delete_file(d)
    \/ BootWatchdog \/ ClearColdReset \/ SaveResetSource \/ SetColdReset \/ ColdReset

Spec == Init /\ [][Next]_vars

-----------------------------------------------------------------------------
(***************************************************************************)
(* Properties.                                                             *)
(***************************************************************************)
\* The kernel that starts after a kernel watchdog finds the log of that very
\* crash in RAM, although two resets, one of them cold, and four runs of two
\* programs lie between: backup and restore are chosen by a variable that
\* boot_watchdog changes after the warm dump has run.
CrashLogReachesOs ==
    pc = "os" /\ fault = "none" /\ n > 0 /\ rs = "kernel_wd" =>
        \A d \in has : ram[d] = n

\* Nothing of one crash is left for the next: neither a file that a later
\* restore would put over newer memory, nor the variable that would make
\* the warm dump restore where it has to save.
NothingLeftOver ==
    pc = "os" /\ fault = "none" =>
        wdcold = 0 /\ saved = "none" /\ \A d \in Dumps : file[d] = Absent

\* A saved dump leaves the ESP only once it is in RAM, also when the reads,
\* the variables or the power fail: "Failed to inject" returns before the
\* deletion.  (Not so when an allocation fails: see Inject.)
KeptUntilInjected ==
    [][fault' # "heap" =>
         \A d \in Dumps :
            file[d] # Absent /\ file'[d] = Absent => ram[d] = file[d]]_vars
=============================================================================
