---------------------------- MODULE WarmdumpProofs ----------------------------
(***************************************************************************)
(* Theorems about Warmdump, for any number of crashes and any faults.      *)
(***************************************************************************)
EXTENDS Warmdump, TLAPS

-----------------------------------------------------------------------------
(***************************************************************************)
(* The invariant of the two boots that follow a crash.  As long as nothing *)
(* has failed, WDColdReset tells them apart: it is 0 in the boot that      *)
(* saves and 1 in the one that restores.                                   *)
(***************************************************************************)
Kernel == rs = "kernel_wd"

\* The log of the last crash is in the memory of dump d, if its source and
\* the platform make one; and it is in the file of d and nothing else is.
InRam(d) == Kernel /\ d \in has => ram[d] = n
InFile(d) == file[d] = IF Kernel /\ d \in has THEN n ELSE Absent
NoFile(d) == file[d] = Absent

\* The loader is after get_reset_source.
Running == {"call", "main", "need", "backup", "exist", "inject", "delete",
            "wd", "wd_clear", "wd_save", "wd_flag", "wd_reset"}

\* The first boot: the memory survived the reset.
Saving ==
    /\ wdcold = 0
    /\ pc \in ({"boot"} \cup Running) \ {"inject", "delete", "wd_clear", "wd_reset"}
    /\ pc = "boot" =>
          /\ rsci.source \in Watchdogs
          /\ rsci.source = "kernel_wd" => rsci.type = "warm" /\ \A d \in has : ram[d] = n
    /\ pc \in Running => rs \in Watchdogs
    /\ pc \in {"call", "main", "need"} =>
          /\ Kernel => rsci.type = "warm"
          /\ rsci.source = rs
    /\ pc \in {"call", "main", "need", "backup"} => \A d \in Dumps : InRam(d)
    /\ pc = "backup" => Kernel
    /\ pc = "exist" => ~Kernel
    /\ pc \in {"boot", "call", "main", "need", "exist"} => \A d \in Dumps : NoFile(d)
    /\ pc = "backup" => NoFile("pstore") /\ IF dump = "lm" THEN NoFile("lm") ELSE InFile("lm")
    /\ pc \in {"wd", "wd_save", "wd_flag"} => \A d \in Dumps : InFile(d)
    /\ saved = IF pc = "wd_flag" THEN rs ELSE "none"

\* The second boot, from the cold reset on: only the files hold the log.
Restoring ==
    /\ wdcold = 1
    /\ pc \in ({"boot"} \cup Running) \ {"backup", "wd_save", "wd_flag"}
    /\ rs \in Watchdogs
    /\ saved = IF pc \in {"wd_reset", "boot"} THEN rs ELSE "none"
    /\ pc \in {"wd_reset", "boot", "call", "main", "need"} => \A d \in Dumps : InFile(d)
    /\ pc \in {"exist", "inject", "delete"} =>
          /\ dump = "lm" => InFile("lm") /\ InFile("pstore")
          /\ dump = "pstore" => InRam("lm") /\ NoFile("lm") /\ InFile("pstore")
    /\ pc \in {"inject", "delete"} => Kernel /\ dump \in has
    /\ pc = "delete" => InRam(dump)
    /\ pc \in {"wd", "wd_clear"} => \A d \in Dumps : InRam(d) /\ NoFile(d)

Between ==
    /\ pc = "os"
    /\ wdcold = 0 /\ saved = "none"
    /\ \A d \in Dumps : NoFile(d)
    /\ n > 0 => \A d \in Dumps : InRam(d)

LogInv ==
    fault = "none" =>
        /\ Between \/ Saving \/ Restoring
        /\ pc # "os" => n > 0
        /\ pc = "os" /\ n = 0 => rs = "sw"

\* What is about to be deleted is in memory.
DeleteInv == pc = "delete" /\ fault # "heap" => ram[dump] = file[dump]

-----------------------------------------------------------------------------
\* A fault is remembered.
LEMMA FailedLeaves == ASSUME NEW f, Failed(f) PROVE fault' # "none" /\ fault' \in {"heap", "other"}
  BY DEF Failed

LEMMA ContentTypes ==
  /\ Crashes \in Nat
  /\ Nothing \in Contents /\ Junk \in Contents /\ Absent \notin Contents
  /\ \A k \in 1 .. Crashes : k \in Contents /\ k # Nothing
  BY WarmdumpAssumption DEF Contents, Nothing, Junk, Absent

\* Inject reads a file that Exist has found.
TypeInv == TypeOK /\ (pc = "inject" => file[dump] # Absent)

LEMMA TypeStart == Init => TypeInv
  BY ContentTypes DEF Init, TypeInv, TypeOK, Points, Dumps, Sources, Watchdogs

LEMMA TypeStep == TypeInv /\ [Next]_vars => TypeInv'
  <1> SUFFICES ASSUME TypeInv, [Next]_vars PROVE TypeInv'
    OBVIOUS
  <1> USE DEF TypeInv, TypeOK, Points, Go, After
  <1>1. ASSUME NEW s \in Watchdogs, NEW t \in {"warm", "cold"}, Crash(s, t) PROVE TypeInv'
    <2>1. n' \in 0 .. Crashes /\ n + 1 \in Contents
      BY <1>1, ContentTypes DEF Crash
    <2>2. ram' \in [Dumps -> Contents]
      BY <1>1, <2>1, ContentTypes DEF Crash
    <2> QED
      BY <1>1, <2>1, <2>2 DEF Crash
  <1>2. CASE PowerLoss
    BY <1>2, FailedLeaves, ContentTypes DEF PowerLoss, Dumps
  <1>3. CASE GetResetSource
    BY <1>3, FailedLeaves DEF GetResetSource, Sources
  <1>4. CASE CallImage
    BY <1>4, FailedLeaves DEF CallImage
  <1>5. CASE EfiMain
    BY <1>5, FailedLeaves DEF EfiMain
  <1>6. CASE NeedBackup
    BY <1>6 DEF NeedBackup, Dumps
  <1>7. ASSUME NEW d \in Dumps, Backup(d) PROVE TypeInv'
    <2>1. file' \in [Dumps -> Contents \cup {Absent}] /\ fault' \in {"none", "heap", "other"}
      BY <1>7, FailedLeaves, ContentTypes DEF Backup, uefi_write_file
    <2> QED
      BY <1>7, <2>1 DEF Backup, Dumps
  <1>8. ASSUME NEW d \in Dumps, Exist(d) PROVE TypeInv'
    BY <1>8, FailedLeaves DEF Exist, Dumps
  <1>9. ASSUME NEW d \in Dumps, Inject(d) PROVE TypeInv'
    <2>1. file[d] \in Contents
      BY <1>9 DEF Inject
    <2>2. ram' \in [Dumps -> Contents]
      BY <1>9, <2>1, ContentTypes DEF Inject
    <2>3. fault' \in {"none", "heap", "other"} /\ pc' \in {"delete", "exist", "wd"}
      BY <1>9, FailedLeaves DEF Inject, Unread
    <2>4. dump' \in Dumps
      BY <1>9 DEF Inject, Unread, Dumps
    <2> QED
      BY <1>9, <2>2, <2>3, <2>4 DEF Inject
  <1>10. ASSUME NEW d \in Dumps, uefi_delete_file(d) PROVE TypeInv'
    BY <1>10, FailedLeaves, ContentTypes DEF uefi_delete_file, Deleted, Dumps
  <1>11. CASE BootWatchdog
    BY <1>11 DEF BootWatchdog
  <1>12. CASE ClearColdReset \/ SaveResetSource \/ SetColdReset
    BY <1>12, FailedLeaves DEF ClearColdReset, SaveResetSource, SetColdReset, Write, Cleared
  <1>13. CASE ColdReset
    BY <1>13, ContentTypes DEF ColdReset
  <1>14. CASE UNCHANGED vars
    BY <1>14 DEF vars
  <1> QED
    BY <1>1, <1>2, <1>3, <1>4, <1>5, <1>6, <1>7, <1>8, <1>9, <1>10, <1>11, <1>12, <1>13, <1>14 DEF Next

\* Every variable keeps its type: a saved reset source can be read back, and
\* a dump in memory is a log, nothing, or a mixture, but never absent.
THEOREM TypeCorrect == Spec => []TypeOK
  <1>1. TypeInv => TypeOK
    BY DEF TypeInv
  <1> QED
    BY TypeStart, TypeStep, <1>1, PTL DEF Spec

-----------------------------------------------------------------------------
(***************************************************************************)
(* KeptUntilInjected: only a deletion makes a file absent, and by          *)
(* DeleteInv it deletes what is in memory.                                 *)
(***************************************************************************)
LEMMA DeleteStart == Init => DeleteInv
  BY DEF Init, DeleteInv

LEMMA DeleteStep == TypeInv /\ DeleteInv /\ [Next]_vars => DeleteInv'
  <1> SUFFICES ASSUME TypeInv, DeleteInv, [Next]_vars, pc' = "delete", fault' # "heap"
               PROVE  ram'[dump'] = file'[dump']
    BY DEF DeleteInv
  <1> USE DEF TypeInv, TypeOK
  <1>1. ASSUME NEW d \in Dumps, Inject(d) PROVE ram'[dump'] = file'[dump']
    <2>1. ~Failed("heap")
      BY DEF Failed
    <2>2. pc' = "delete" => ram' = [ram EXCEPT ![d] = file[d]] /\ dump' = d
      BY <1>1, <2>1 DEF Inject, Go, Unread, After
    <2> QED
      BY <1>1, <2>2 DEF Inject
  <1>2. ~UNCHANGED vars => \E d \in Dumps : Inject(d)
    BY DEF Next, Crash, PowerLoss, GetResetSource, CallImage, EfiMain, NeedBackup, Backup, Exist,
           uefi_delete_file, BootWatchdog, ClearColdReset, SaveResetSource, SetColdReset,
           ColdReset, Go, After
  <1>3. CASE UNCHANGED vars
    BY <1>3 DEF vars, DeleteInv
  <1> QED
    BY <1>1, <1>2, <1>3

LEMMA KeptStep ==
  ASSUME TypeInv, DeleteInv, [Next]_vars, fault' # "heap",
         NEW d \in Dumps, file[d] # Absent, file'[d] = Absent
  PROVE  ram[d] = file[d]
  <1> USE DEF TypeInv, TypeOK
  <1>1. ASSUME NEW e \in Dumps, Backup(e) PROVE FALSE
    <2>1. ram[e] # Absent /\ Junk # Absent
      BY ContentTypes
    <2> QED
      BY <1>1, <2>1 DEF Backup, uefi_write_file
  <1>2. ASSUME NEW e \in Dumps, uefi_delete_file(e) PROVE ram[d] = file[d]
    <2>1. e = d /\ pc = "delete" /\ dump = d
      BY <1>2 DEF uefi_delete_file, Deleted
    <2>2. fault # "heap"
      BY <1>2 DEF uefi_delete_file, Failed
    <2> QED
      BY <2>1, <2>2 DEF DeleteInv
  <1>3. file' = file \/ \E e \in Dumps : Backup(e) \/ uefi_delete_file(e)
    BY DEF vars, Next, Crash, PowerLoss, GetResetSource, CallImage, EfiMain, NeedBackup, Exist,
           Inject, BootWatchdog, ClearColdReset, SaveResetSource, SetColdReset, ColdReset
  <1> QED
    BY <1>1, <1>2, <1>3

\* A saved dump leaves the ESP only once it is in memory, in every step but
\* those after a failed allocation: there uefi_read_file reports success without
\* a buffer (uefi_utils.c:390), and a dump that is not in memory is deleted.
THEOREM KeptSafe == Spec => KeptUntilInjected
  <1>1. TypeInv /\ DeleteInv /\ [Next]_vars =>
          [fault' # "heap" =>
             \A d \in Dumps : file[d] # Absent /\ file'[d] = Absent => ram[d] = file[d]]_vars
    BY KeptStep
  <1> QED
    BY TypeStart, TypeStep, DeleteStart, DeleteStep, <1>1, PTL DEF Spec, KeptUntilInjected

-----------------------------------------------------------------------------
(***************************************************************************)
(* The log of the crash: LogInv holds in every boot, and in the OS it is   *)
(* Between.  Only the steps on which nothing fails have to be looked at,   *)
(* since a fault is remembered.                                            *)
(***************************************************************************)
LEMMA LogStart == Init => LogInv
  BY DEF Init, LogInv, Between, NoFile, Dumps

LEMMA LogStep == TypeInv /\ LogInv /\ [Next]_vars => LogInv'
  <1> SUFFICES ASSUME TypeInv, LogInv, [Next]_vars, fault' = "none" PROVE LogInv'
    BY DEF LogInv
  <1>f. \A f \in {"disk", "heap", "nv", "power"} : ~Failed(f)
    BY DEF Failed
  <1> USE DEF TypeInv, TypeOK, LogInv, Go
  <1>1. ASSUME NEW s \in Watchdogs, NEW t \in {"warm", "cold"}, Crash(s, t) PROVE LogInv'
    BY <1>1 DEF Crash, Between, Saving, Restoring, Kernel, InRam, InFile, NoFile, Running
  <1>2. CASE PowerLoss
    BY <1>2, <1>f DEF PowerLoss
  <1>3. CASE GetResetSource
    BY <1>3, <1>f DEF GetResetSource, Between, Saving, Restoring, Kernel, InRam, InFile, NoFile, Running, Dumps, Watchdogs
  <1>4. CASE CallImage
    BY <1>4, <1>f DEF CallImage, Between, Saving, Restoring, Kernel, InRam, InFile, NoFile, Running, Dumps, Watchdogs
  <1>5. CASE EfiMain
    BY <1>5, <1>f DEF EfiMain, Between, Saving, Restoring, Kernel, InRam, InFile, NoFile, Running, Dumps, Watchdogs
  <1>6. CASE NeedBackup
    BY <1>6, <1>f DEF NeedBackup, need_backup, Between, Saving, Restoring, Kernel, InRam, InFile, NoFile, Running, Dumps, Watchdogs
  <1>7. CASE BootWatchdog
    BY <1>7, <1>f DEF BootWatchdog, Between, Saving, Restoring, Kernel, InRam, InFile, NoFile, Running, Dumps, Watchdogs
  <1>8. CASE ClearColdReset
    BY <1>8, <1>f DEF ClearColdReset, Write, Cleared, Between, Saving, Restoring, Kernel, InRam, InFile, NoFile, Running, Dumps, Watchdogs
  <1>9. CASE SaveResetSource
    BY <1>9, <1>f DEF SaveResetSource, Write, Cleared, Between, Saving, Restoring, Kernel, InRam, InFile, NoFile, Running, Dumps, Watchdogs
  <1>10. CASE SetColdReset
    BY <1>10, <1>f DEF SetColdReset, Write, Cleared, Between, Saving, Restoring, Kernel, InRam, InFile, NoFile, Running, Dumps, Watchdogs
  <1>11. CASE ColdReset
    BY <1>11, <1>f DEF ColdReset, Between, Saving, Restoring, Kernel, InRam, InFile, NoFile, Running, Dumps, Watchdogs
  <1>12. ASSUME NEW d \in Dumps, Backup(d) PROVE LogInv'
    BY <1>12, <1>f, ContentTypes DEF Backup, uefi_write_file, Nothing, Absent, Between, Saving, Restoring, Kernel, InRam, InFile, NoFile, Running, Dumps, After
  <1>13. ASSUME NEW d \in Dumps, Exist(d) PROVE LogInv'
    BY <1>13, <1>f DEF Exist, Absent, Watchdogs, Between, Saving, Restoring, Kernel, InRam, InFile, NoFile, Running, Dumps, After
  <1>14. ASSUME NEW d \in Dumps, Inject(d) PROVE LogInv'
    BY <1>14, <1>f DEF Inject, Between, Saving, Restoring, Kernel, InRam, InFile, NoFile, Running, Dumps, After
  <1>15. ASSUME NEW d \in Dumps, uefi_delete_file(d) PROVE LogInv'
    BY <1>15, <1>f DEF uefi_delete_file, Deleted, Watchdogs, Between, Saving, Restoring, Kernel, InRam, InFile, NoFile, Running, Dumps, After
  <1>16. CASE UNCHANGED vars
    BY <1>16 DEF vars, Between, Saving, Restoring, Kernel, InRam, InFile, NoFile, Running
  <1> QED
    BY <1>1, <1>2, <1>3, <1>4, <1>5, <1>6, <1>7, <1>8, <1>9, <1>10, <1>11, <1>12, <1>13, <1>14, <1>15, <1>16 DEF Next

\* The log of every kernel watchdog is in memory when the next kernel starts,
\* after any number of crashes, if nothing has failed.
THEOREM CrashLogSafe == Spec => []CrashLogReachesOs
  <1>1. TypeInv /\ LogInv => CrashLogReachesOs
    BY DEF TypeInv, TypeOK, LogInv, CrashLogReachesOs, Between, Saving, Restoring, Running, InRam, Kernel
  <1> QED
    BY TypeStart, TypeStep, LogStart, LogStep, <1>1, PTL DEF Spec

\* And no file and no variable is left for the next crash.
THEOREM NothingLeftOverSafe == Spec => []NothingLeftOver
  <1>1. LogInv => NothingLeftOver
    BY DEF LogInv, NothingLeftOver, Between, Saving, Restoring, Running, NoFile
  <1> QED
    BY TypeStart, TypeStep, LogStart, LogStep, <1>1, PTL DEF Spec
=============================================================================
