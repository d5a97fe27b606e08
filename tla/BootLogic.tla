------------------------------ MODULE BootLogic ------------------------------
(***************************************************************************)
(* The boot-target decision of the efilinux OS loader: start_boot_logic    *)
(* and everything it calls (efilinux/bootlogic.c, uefi_boot.c,             *)
(* uefi_osnib.c, intel_partitions.c), across power cycles.                 *)
(*                                                                         *)
(* The loader runs once per boot and keeps its memory between boots only   *)
(* in non-volatile UEFI variables (the record nv).  Each NV write is a     *)
(* step of its own, so that power may fail between any two of them.  The   *)
(* firmware, the battery and the operating system are external: they are   *)
(* modelled by the inputs the loader reads from them.                      *)
(***************************************************************************)
EXTENDS Integers, FiniteSets

CONSTANTS
    do_cold_reset_after_wd,       \* config.c: build option
    CONFIG_ENABLE_FACTORY_MODES,  \* build option: factory entries exist
    OsNames,        \* names the OS may write to LoaderEntryOneShot
    OsEvents,       \* what a running OS may do
    OsResets,       \* reset sources of an OS-requested reset
    OsWatchdogs,    \* reset sources of a watchdog reset that can happen
    WakeSeen,       \* wake sources the firmware may report after power-off
    Shutdowns,      \* shutdown sources the firmware may report
    ColdResetSeen,  \* reset sources reported after the loader's own reset
    Faults          \* which parts of the platform may misbehave

(***************************************************************************)
(* The enumerations of bootlogic.h.  The RSCI fields are bytes, so a value *)
(* read from a missing table is 255 and not the enumerators of value -1.   *)
(***************************************************************************)
WakeSources ==
    {"NOT_APPLICABLE", "BATTERY_INSERTED", "USB_CHARGER_INSERTED",
     "ACDC_CHARGER_INSERTED", "POWER_BUTTON_PRESSED", "RTC_TIMER",
     "BATTERY_REACHED_IA_THRESHOLD", "BYTE_255"}

Watchdogs ==
    {"KERNEL_WATCHDOG", "SECURITY_WATCHDOG", "SECURITY_INITIATED",
     "PMC_WATCHDOG", "EC_WATCHDOG", "PLATFORM_WATCHDOG"}

ResetSources ==
    {"NOT_APPLICABLE", "OS_INITIATED", "FORCED", "FW_UPDATE", "BYTE_255"}
        \cup Watchdogs

ShutdownSources == {"NOT_APPLICABLE", "POWER_BUTTON_OVERRIDE", "OTHER", "BYTE_255"}

Targets ==
    {"BOOT", "CHARGING", "RECOVERY", "FASTBOOT", "TEST", "COLD_OFF",
     "FACTORY", "FACTORY2", "DNX", "UNKNOWN"}

FaultKinds == {"nv", "power", "battery", "disk", "acpi"}
EventKinds == {"oneshot", "bcb", "reset", "watchdog", "shutdown"}

ASSUME BuildAssumption ==
    /\ do_cold_reset_after_wd \in BOOLEAN
    /\ CONFIG_ENABLE_FACTORY_MODES \in BOOLEAN

ASSUME EnvAssumption ==
    /\ "none" \notin OsNames
    /\ OsEvents \subseteq EventKinds
    /\ OsResets \subseteq ResetSources \ Watchdogs
    /\ OsWatchdogs \subseteq Watchdogs
    /\ WakeSeen \subseteq WakeSources
    /\ Shutdowns \subseteq ShutdownSources
    /\ ColdResetSeen \subseteq ResetSources \ Watchdogs
    /\ Faults \subseteq FaultKinds

-----------------------------------------------------------------------------
(***************************************************************************)
(* android_entries.  A target may have two names; target_to_name returns   *)
(* the first.  An absent variable or an unknown name reads as UNKNOWN.     *)
(***************************************************************************)
FactoryTargets == {"FACTORY", "FACTORY2"}

EntryTargets ==
    {"BOOT", "RECOVERY", "FASTBOOT", "TEST", "CHARGING", "DNX"}
        \cup (IF CONFIG_ENABLE_FACTORY_MODES THEN FactoryTargets ELSE {})

target_to_name(t) ==
    CASE t = "BOOT"     -> "main"
      [] t = "RECOVERY" -> "recovery"
      [] t = "FASTBOOT" -> "fastboot"
      [] t = "TEST"     -> "test"
      [] t = "CHARGING" -> "charging"
      [] t = "DNX"      -> "dnx"
      [] t = "FACTORY"  -> "factory"
      [] t = "FACTORY2" -> "factory2"
      [] OTHER          -> "none"

name_to_target(n) ==
    CASE n = "main"       -> "BOOT"
      [] n = "android"    -> "BOOT"
      [] n = "recovery"   -> "RECOVERY"
      [] n = "fastboot"   -> "FASTBOOT"
      [] n = "bootloader" -> "FASTBOOT"
      [] n = "test"       -> "TEST"
      [] n = "charging"   -> "CHARGING"
      [] n = "dnx"        -> "DNX"
      [] n = "factory"  /\ CONFIG_ENABLE_FACTORY_MODES -> "FACTORY"
      [] n = "factory2" /\ CONFIG_ENABLE_FACTORY_MODES -> "FACTORY2"
      [] OTHER            -> "UNKNOWN"

EntryNames == {target_to_name(t) : t \in EntryTargets}

-----------------------------------------------------------------------------
VARIABLES
    nv,      \* non-volatile variables and the bootloader message of misc
    rsci,    \* the firmware's RSCI table, rebuilt at every reset
    vol,     \* volatile variables the loader publishes to the OS
    pc,      \* where the machine is: off, a point of the loader, os, ...
    target,  \* local variable target of start_boot_logic
    rs,      \* static reset_source of get_reset_source ("ERROR": not cached)
    lastT,   \* local last_target of boot_watchdog
    h        \* history, read by the properties only

vars == <<nv, rsci, vol, pc, target, rs, lastT, h>>
local == <<target, rs, lastT>>

LoaderPcs ==
    {"begin", "inputs", "forced_rtc", "forced_wdt", "from_off", "get_rs",
     "del_saved", "dispatch", "wd", "wd_clear", "wd_del", "wd_last", "wd_rs",
     "wd_flag", "wd_reset", "wd_count", "cases", "hook_end", "hook_del",
     "loop", "save_del", "save_last", "load", "rescue_reset"}
Resting == {"off", "os", "rescue", "exit"}

NvType ==
    [oneshot : OsNames \cup {"none"},        \* LoaderEntryOneShot
     last    : EntryNames \cup {"none"},     \* LoaderEntryLast
     wdt     : -1 .. 2,                      \* WdtCounter, -1: absent
     wdcold  : -1 .. 1,                      \* WDColdReset, -1: absent
     saved   : ResetSources \cup {"none"},   \* SavedResetSource
     rtc     : {-1, 0},                      \* RtcAlarmCharging
     osind   : BOOLEAN,                      \* rescue bit of OsIndications
     bcb     : BOOLEAN]                      \* misc holds "boot-recovery"

RsciType == [wake : WakeSources, reset : ResetSources, shutdown : ShutdownSources]

VolType ==
    [prev    : EntryNames \cup {"none"},                 \* LoadEntryPrevious
     reset   : ResetSources \cup {"ERROR", "none"},      \* ResetSource
     capsule : {"none", "SUCCESS", "FAIL"}]              \* CapsuleUpdateStatus

HistType ==
    [running   : Targets \cup {"none"},   \* the OS image launched last
     cause     : ResetSources,   \* how that OS ended, by the firmware's report
     hangs     : 0 .. 4,         \* watchdog resets in a row of that image
     asked     : OsNames \cup {"none"},  \* one-shot name when the OS reset
     low       : BOOLEAN,        \* battery was low at the last look
     tried     : SUBSET Targets, \* images that failed to load in this boot
     escalated : BOOLEAN,        \* this boot reached the watchdog limit
     coldreset : BOOLEAN]        \* the loader cold-reset since the OS ended

TypeOK ==
    /\ nv \in NvType
    /\ rsci \in RsciType
    /\ vol \in VolType
    /\ pc \in LoaderPcs \cup Resting
    /\ target \in Targets
    /\ rs \in ResetSources \cup {"ERROR"}
    /\ lastT \in Targets
    /\ h \in HistType

NoVol == [prev |-> "none", reset |-> "none", capsule |-> "none"]
Byte255 == [wake |-> "BYTE_255", reset |-> "BYTE_255", shutdown |-> "BYTE_255"]

\* A device out of the factory: no variable exists yet.
Init ==
    /\ nv = [oneshot |-> "none", last |-> "none", wdt |-> -1, wdcold |-> -1,
             saved |-> "none", rtc |-> -1, osind |-> FALSE, bcb |-> FALSE]
    /\ rsci = [wake |-> "NOT_APPLICABLE", reset |-> "NOT_APPLICABLE",
               shutdown |-> "NOT_APPLICABLE"]
    /\ vol = NoVol
    /\ pc = "off"
    /\ target = "UNKNOWN" /\ rs = "ERROR" /\ lastT = "UNKNOWN"
    /\ h = [running |-> "none", cause |-> "NOT_APPLICABLE", hangs |-> 0,
            asked |-> "none", low |-> FALSE, tried |-> {}, escalated |-> FALSE,
            coldreset |-> FALSE]

-----------------------------------------------------------------------------
(***************************************************************************)
(* UEFI services, as the loader uses them.                                 *)
(***************************************************************************)
\* LibSetNVVariable / LibDeleteVariable: the store is updated, or the call
\* fails; every caller only logs the failure.
Written(new) == {new} \cup (IF "nv" \in Faults THEN {nv} ELSE {})

Goto(p) == pc' = p

\* A platform reset reaches the loader's entry with fresh memory, unless the
\* rescue bit of OsIndications diverts the firmware to DnX.
Firmware(nv1, table) ==
    /\ pc' = IF nv1.osind THEN "rescue" ELSE "begin"
    /\ nv' = [nv1 EXCEPT !.osind = FALSE]
    /\ rsci' \in {table} \cup (IF "acpi" \in Faults THEN {Byte255} ELSE {})
    /\ vol' = NoVol
    /\ target' = "UNKNOWN" /\ rs' = "ERROR" /\ lastT' = "UNKNOWN"

\* The firmware's report of a reset: no wake source, source r.
ResetTable(r) ==
    [wake |-> "NOT_APPLICABLE", reset |-> r, shutdown |-> "NOT_APPLICABLE"]

PowerOff ==
    /\ pc' = "off"
    /\ vol' = NoVol
    /\ target' = "UNKNOWN" /\ rs' = "ERROR" /\ lastT' = "UNKNOWN"
    /\ UNCHANGED rsci

\* History when an OS run ends, reported by the firmware as reset source r,
\* and when power goes.
Ended(r, hangs, asked) ==
    [running |-> h.running, cause |-> r, hangs |-> hangs, asked |-> asked,
     low |-> FALSE, tried |-> {}, escalated |-> FALSE, coldreset |-> FALSE]

Forget == Ended("NOT_APPLICABLE", 0, "none")

\* The user, a charger or an alarm wakes the platform.
PowerOn ==
    /\ pc = "off"
    /\ \E ws \in WakeSeen, sd \in Shutdowns :
          Firmware(nv, [wake |-> ws, reset |-> "NOT_APPLICABLE", shutdown |-> sd])
    /\ UNCHANGED h

PowerLoss ==
    /\ "power" \in Faults
    /\ pc # "off"
    /\ PowerOff
    /\ h' = Forget
    /\ UNCHANGED nv

-----------------------------------------------------------------------------
(***************************************************************************)
(* start_boot_logic and target_from_inputs.                                *)
(***************************************************************************)
\* The first known target of a table of boot cases.
OrElse(a, b) == IF a # "UNKNOWN" THEN a ELSE b

\* target_from_inputs returns t; no valid target falls back to the main OS.
Decide(t) ==
    /\ target' = OrElse(t, "BOOT")
    /\ Goto("hook_end")

\* A variable that is absent or holds no name of the table reads as UNKNOWN.
get_entry_last == name_to_target(nv.last)
get_entry_oneshot == name_to_target(nv.oneshot)

save_entry_previous(t) ==
    vol' = IF t \in EntryTargets
           THEN [vol EXCEPT !.prev = target_to_name(t)] ELSE vol

Begin ==
    /\ pc = "begin"
    /\ save_entry_previous(get_entry_last)
    /\ Goto("inputs")
    /\ UNCHANGED <<nv, rsci, local, h>>

\* The answers of the energy-management operations.  The battery may be
\* missing, low, or its status unreadable; a charger may come and go between
\* two calls.
is_battery_ok == IF "battery" \in Faults THEN BOOLEAN ELSE {TRUE}
is_charger_present == BOOLEAN
get_battery_level ==
    IF "battery" \in Faults THEN {"BOOT_OS", "BOOT_CHARGING", "ERROR"}
    ELSE {"BOOT_OS"}

BatteryNotOk ==
    /\ pc = "inputs"
    /\ FALSE \in is_battery_ok
    /\ Decide("COLD_OFF")
    /\ UNCHANGED <<nv, rsci, vol, rs, lastT, h>>

\* The wake source selects target_from_off or the reset path.
ReadWakeSource ==
    /\ pc = "inputs"
    /\ Goto(IF rsci.wake = "NOT_APPLICABLE" THEN "get_rs"
            ELSE IF rsci.shutdown = "POWER_BUTTON_OVERRIDE" THEN "forced_rtc"
            ELSE "from_off")
    /\ UNCHANGED <<nv, rsci, vol, local, h>>

\* forced_shutdown: two variables are written.
ForcedShutdownRtc ==
    /\ pc = "forced_rtc"
    /\ nv' \in Written([nv EXCEPT !.rtc = 0])
    /\ Goto("forced_wdt")
    /\ UNCHANGED <<rsci, vol, local, h>>

ForcedShutdownWdt ==
    /\ pc = "forced_wdt"
    /\ nv' \in Written([nv EXCEPT !.wdt = 0])
    /\ Goto("from_off")
    /\ UNCHANGED <<rsci, vol, local, h>>

boot_fastboot_combo(combo) == IF combo THEN "FASTBOOT" ELSE "UNKNOWN"

\* load_bcb: the misc partition may be missing or unreadable.
BcbReadable == IF "disk" \in Faults THEN BOOLEAN ELSE {TRUE}
boot_bcb(readable) == IF readable /\ nv.bcb THEN "RECOVERY" ELSE "UNKNOWN"

boot_power_key(ws) == IF ws = "POWER_BUTTON_PRESSED" THEN "BOOT" ELSE "UNKNOWN"

boot_rtc(ws) == "UNKNOWN"

boot_battery_insertion(ws, ti, charger) ==
    IF ws # "BATTERY_INSERTED" THEN "UNKNOWN"
    ELSE IF ti /\ charger THEN "CHARGING" ELSE "COLD_OFF"

boot_charger_insertion(ws, charger) ==
    IF ws \notin {"USB_CHARGER_INSERTED", "ACDC_CHARGER_INSERTED"} THEN "UNKNOWN"
    ELSE IF charger THEN "CHARGING" ELSE "COLD_OFF"

target_from_off(ws, combo, readable, ti, charger) ==
    OrElse(boot_fastboot_combo(combo),
    OrElse(boot_bcb(readable),
    OrElse(boot_power_key(ws),
    OrElse(boot_rtc(ws),
    OrElse(boot_battery_insertion(ws, ti, charger),
           boot_charger_insertion(ws, charger))))))

TargetFromOff ==
    /\ pc = "from_off"
    /\ \E combo, ti \in BOOLEAN, charger \in is_charger_present,
          readable \in BcbReadable :
          Decide(target_from_off(rsci.wake, combo, readable, ti, charger))
    /\ UNCHANGED <<nv, rsci, vol, rs, lastT, h>>

-----------------------------------------------------------------------------
(***************************************************************************)
(* get_reset_source: the cached value, else SavedResetSource after the     *)
(* loader's own cold reset, else the RSCI field; SavedResetSource is then  *)
(* deleted in every case.                                                  *)
(***************************************************************************)
\* Mutant: an absent WDColdReset (-1) taken for a set one.
wd_cold_reset_done_Absent == do_cold_reset_after_wd /\ nv.wdcold # 0
wd_cold_reset_done == do_cold_reset_after_wd /\ nv.wdcold = 1

read_reset_source ==
    IF ~wd_cold_reset_done THEN rsci.reset
    ELSE IF nv.saved = "none" THEN "ERROR" ELSE nv.saved

GetResetSource ==
    /\ pc = "get_rs"
    /\ rs' = read_reset_source
    /\ Goto("del_saved")
    /\ UNCHANGED <<nv, rsci, vol, target, lastT, h>>

\* End of get_reset_source; RESET_ERROR falls back to the main OS.
DeleteSavedResetSource ==
    /\ pc = "del_saved"
    /\ nv' \in Written([nv EXCEPT !.saved = "none"])
    /\ IF rs = "ERROR" THEN Decide("BOOT")
       ELSE Goto("dispatch") /\ UNCHANGED target
    /\ UNCHANGED <<rsci, vol, rs, lastT, h>>

\* Mutant: the RSCI table is left as the cold reset made it.
set_reset_source_Skipped(r) == UNCHANGED rsci
set_reset_source(r) == rsci' = [rsci EXCEPT !.reset = r]

\* set_reset_source puts the saved source back in the RSCI table.
TargetFromInputs ==
    /\ pc = "dispatch"
    /\ IF wd_cold_reset_done THEN set_reset_source(rs) ELSE UNCHANGED rsci
    /\ IF rs = "NOT_APPLICABLE" THEN Decide("UNKNOWN")
       ELSE Goto(IF rs \in Watchdogs THEN "wd" ELSE "cases") /\ UNCHANGED target
    /\ UNCHANGED <<nv, vol, rs, lastT, h>>

-----------------------------------------------------------------------------
(***************************************************************************)
(* set_entry_last(t), called at two places: a target without an entry is   *)
(* refused before anything is written; else the one-shot name is deleted   *)
(* and then the last name written.                                         *)
(***************************************************************************)
\* Mutant: the one-shot variable is not deleted.
delete_oneshot_Skipped == UNCHANGED nv
delete_oneshot == nv' \in Written([nv EXCEPT !.oneshot = "none"])

\* Mutant: a variable that exists already is not overwritten.
write_last_Once(t) ==
    nv' \in Written([nv EXCEPT !.last = IF @ = "none" THEN target_to_name(t) ELSE @])
write_last(t) == nv' \in Written([nv EXCEPT !.last = target_to_name(t)])

SetEntryLast(t, at, mid, after) ==
    \/ /\ pc = at
       /\ IF t \in EntryTargets THEN delete_oneshot /\ Goto(mid)
          ELSE UNCHANGED nv /\ Goto(after)
    \/ /\ pc = mid
       /\ write_last(t)
       /\ Goto(after)

\* Mutants: charging falls back to the main OS; the ladder wraps around; it
\* ends before DnX.
fallback_target_ChargingToBoot(t) ==
    CASE t = "CHARGING" -> "BOOT"
      [] t = "BOOT"     -> "CHARGING"
      [] OTHER          -> "UNKNOWN"

fallback_target_Wraps(t) ==
    CASE t \in {"BOOT", "CHARGING"} -> "RECOVERY"
      [] t = "RECOVERY"             -> "FASTBOOT"
      [] t = "FASTBOOT"             -> "BOOT"
      [] OTHER                      -> "UNKNOWN"

fallback_target_NoDnx(t) ==
    CASE t \in {"BOOT", "CHARGING"} -> "RECOVERY"
      [] t = "RECOVERY"             -> "FASTBOOT"
      [] OTHER                      -> "UNKNOWN"

fallback_target(t) ==
    CASE t \in {"BOOT", "CHARGING"} -> "RECOVERY"
      [] t = "RECOVERY"             -> "FASTBOOT"
      [] t = "FASTBOOT"             -> "DNX"
      [] OTHER                      -> "UNKNOWN"

(***************************************************************************)
(* boot_watchdog.                                                          *)
(***************************************************************************)
\* Entry: the warmdump image runs (it touches none of this state), then the
\* last target is read.
BootWatchdog ==
    /\ pc = "wd"
    /\ lastT' = get_entry_last
    /\ Goto(IF ~do_cold_reset_after_wd THEN "wd_count"
            ELSE IF wd_cold_reset_done THEN "wd_clear" ELSE "wd_del")
    /\ UNCHANGED <<nv, rsci, vol, target, rs, h>>

\* Mutant: the variable is set to 1 whatever the argument.
uefi_set_wd_cold_reset_One(v) == nv' \in Written([nv EXCEPT !.wdcold = 1])
uefi_set_wd_cold_reset(v) == nv' \in Written([nv EXCEPT !.wdcold = v])

WdClearFlag ==
    /\ pc = "wd_clear"
    /\ uefi_set_wd_cold_reset(0)
    /\ Goto("wd_count")
    /\ UNCHANGED <<rsci, vol, local, h>>

WdSaveTargetMode ==
    /\ SetEntryLast(lastT, "wd_del", "wd_last", "wd_rs")
    /\ UNCHANGED <<rsci, vol, local, h>>

WdSaveResetSource ==
    /\ pc = "wd_rs"
    /\ nv' \in Written([nv EXCEPT !.saved = rs])
    /\ Goto("wd_flag")
    /\ UNCHANGED <<rsci, vol, local, h>>

WdSetFlag ==
    /\ pc = "wd_flag"
    /\ uefi_set_wd_cold_reset(1)
    /\ Goto("wd_reset")
    /\ UNCHANGED <<rsci, vol, local, h>>

\* uefi_reset_system(EfiResetCold) does not return.
WdColdReset ==
    /\ pc = "wd_reset"
    /\ \E r \in ColdResetSeen : Firmware(nv, ResetTable(r))
    /\ h' = [h EXCEPT !.coldreset = TRUE]

\* Mutant: the -1 of an absent counter is used as it is.
wdt_counter_Raw == nv.wdt

\* uefi_get_wdt_counter: an absent counter reads as 0.
wdt_counter == IF nv.wdt = -1 THEN 0 ELSE nv.wdt

\* Mutant: > written for >=.
WDT_LIMIT_OffByOne == 4

WDT_LIMIT == 3

\* boot_watchdog returns t: a known target ends target_from_reset.
WdReturn(t) ==
    IF t = "UNKNOWN" THEN Goto("cases") /\ UNCHANGED target ELSE Decide(t)

\* Mutant: the limit relaunches the last target.
LimitTarget_Last == lastT
LimitTarget == fallback_target(lastT)

WdCount ==
    /\ pc = "wd_count"
    /\ IF wdt_counter + 1 >= WDT_LIMIT
       THEN /\ nv' \in Written([nv EXCEPT !.wdt = 0])
            /\ WdReturn(LimitTarget)
            /\ h' = [h EXCEPT !.escalated = TRUE]
       ELSE /\ nv' \in Written([nv EXCEPT !.wdt = wdt_counter + 1])
            /\ WdReturn(lastT)
            /\ UNCHANGED h
    /\ UNCHANGED <<rsci, vol, rs, lastT>>

-----------------------------------------------------------------------------
(***************************************************************************)
(* The remaining cases of target_from_reset: boot_bcb, boot_fw_update,     *)
(* boot_reset.                                                             *)
(***************************************************************************)
boot_fw_update == IF rs = "FW_UPDATE" THEN "BOOT" ELSE "UNKNOWN"

\* Mutant: the one-shot name is looked up for a forced reset only.
boot_reset_ForcedOnly ==
    IF rs = "FORCED" THEN get_entry_oneshot ELSE "UNKNOWN"

boot_reset ==
    IF rs \in {"OS_INITIATED", "FORCED"} THEN get_entry_oneshot
    ELSE "UNKNOWN"

\* The firmware resource entry is read only when boot_fw_update decides; its
\* versions tell success from failure, and it may be missing.
TargetFromReset ==
    /\ pc = "cases"
    /\ \E readable \in BcbReadable,
          status \in {"SUCCESS", "FAIL", vol.capsule} :
          LET bcb == boot_bcb(readable) IN
          /\ vol' = IF bcb = "UNKNOWN" /\ rs = "FW_UPDATE"
                    THEN [vol EXCEPT !.capsule = status] ELSE vol
          /\ Decide(OrElse(bcb, OrElse(boot_fw_update, boot_reset)))
    /\ UNCHANGED <<nv, rsci, rs, lastT, h>>

-----------------------------------------------------------------------------
(***************************************************************************)
(* hook_bootlogic_end: uefi_populate_osnib_variables publishes the reset   *)
(* source, which calls get_reset_source again.                             *)
(***************************************************************************)
HookBootlogicEnd ==
    /\ pc = "hook_end"
    /\ IF rs # "ERROR"
       THEN vol' = [vol EXCEPT !.reset = rs] /\ Goto("loop") /\ UNCHANGED rs
       ELSE rs' = read_reset_source /\ Goto("hook_del") /\ UNCHANGED vol
    /\ UNCHANGED <<nv, rsci, target, lastT, h>>

HookDeleteSaved ==
    /\ pc = "hook_del"
    /\ nv' \in Written([nv EXCEPT !.saved = "none"])
    /\ vol' = [vol EXCEPT !.reset = rs]
    /\ Goto("loop")
    /\ UNCHANGED <<rsci, local, h>>

-----------------------------------------------------------------------------
(***************************************************************************)
(* launch_or_fallback.                                                     *)
(***************************************************************************)
\* Mutant: the factory cases are missing from the switch.
em_fallback_target_NoFactory(t, level, charger) ==
    IF level = "BOOT_CHARGING" /\ t = "BOOT"
    THEN IF charger THEN "CHARGING" ELSE "COLD_OFF"
    ELSE t

em_fallback_target(t, level, charger) ==
    IF level = "BOOT_CHARGING" /\ t \in {"BOOT", "FACTORY", "FACTORY2"}
    THEN IF charger THEN "CHARGING" ELSE "COLD_OFF"
    ELSE t

\* Top of the loop: energy fallback, then cold off or the save.
EmFallback ==
    /\ pc = "loop"
    /\ \E level \in get_battery_level, charger \in is_charger_present :
          LET t == em_fallback_target(target, level, charger) IN
          IF t = "COLD_OFF"
          THEN PowerOff /\ h' = Forget
          ELSE /\ target' = t
               /\ Goto("save_del")
               /\ h' = [h EXCEPT !.low = level = "BOOT_CHARGING"]
               /\ UNCHANGED <<rsci, vol, rs, lastT>>
    /\ UNCHANGED nv

SaveTargetMode ==
    /\ SetEntryLast(target, "save_del", "save_last", "load")
    /\ UNCHANGED <<rsci, vol, local, h>>

\* intel_load_target jumps to a kernel and does not return.
LoadTarget ==
    /\ pc = "load"
    /\ target \in EntryTargets \ {"DNX"}
    /\ Goto("os")
    /\ h' = [h EXCEPT !.running = target,
                      !.hangs = IF h.running = target THEN h.hangs ELSE 0]
    /\ UNCHANGED <<nv, rsci, vol, local>>

\* intel_go_to_rescue_mode: the rescue bit is written (LoadFails has the
\* failing write), and then the platform reset, which does not return.
GoToRescueMode ==
    /\ pc = "load"
    /\ target = "DNX"
    /\ nv' = [nv EXCEPT !.osind = TRUE]
    /\ Goto("rescue_reset")
    /\ UNCHANGED <<rsci, vol, local, h>>

RescueReset ==
    /\ pc = "rescue_reset"
    /\ Firmware(nv, ResetTable("OS_INITIATED"))
    /\ UNCHANGED h

\* load_target returns: no entry, an image that does not start, rescue mode
\* not supported.  The next target of the ladder is tried.
LoadFails ==
    /\ pc = "load"
    /\ \/ target \notin EntryTargets
       \/ "disk" \in Faults
       \/ target = "DNX" /\ "nv" \in Faults
    /\ IF fallback_target(target) = "UNKNOWN"
       THEN Goto("exit") /\ UNCHANGED target
       ELSE Goto("loop") /\ target' = fallback_target(target)
    /\ h' = [h EXCEPT !.tried = h.tried \cup {target}]
    /\ UNCHANGED <<nv, rsci, vol, rs, lastT>>

-----------------------------------------------------------------------------
(***************************************************************************)
(* The operating system and the user.                                      *)
(***************************************************************************)
OsRequestTarget ==
    /\ pc = "os" /\ "oneshot" \in OsEvents
    /\ \E n \in OsNames : nv' = [nv EXCEPT !.oneshot = n]
    /\ UNCHANGED <<rsci, vol, pc, local, h>>

\* Android asks for recovery through misc; recovery erases the request.
OsWriteBcb ==
    /\ pc = "os" /\ "bcb" \in OsEvents
    /\ nv' = [nv EXCEPT !.bcb = h.running # "RECOVERY"]
    /\ UNCHANGED <<rsci, vol, pc, local, h>>

OsReset ==
    /\ pc = "os" /\ "reset" \in OsEvents
    /\ \E r \in OsResets :
          Firmware(nv, ResetTable(r)) /\ h' = Ended(r, 0, nv.oneshot)

\* The OS hangs and the watchdog started before the jump resets it.
\* The count of the history stops at HangBound.
HangBound == 4
OsWatchdog ==
    /\ pc = "os" /\ "watchdog" \in OsEvents
    /\ \E r \in OsWatchdogs :
          /\ Firmware(nv, ResetTable(r))
          /\ h' = Ended(r, IF h.hangs < HangBound THEN h.hangs + 1 ELSE HangBound,
                        "none")

OsShutdown ==
    /\ pc = "os" /\ "shutdown" \in OsEvents
    /\ PowerOff
    /\ h' = Forget
    /\ UNCHANGED nv

\* After a failed boot or a rescue session the user turns the device off.
UserPowersOff ==
    /\ pc \in {"exit", "rescue"}
    /\ PowerOff
    /\ h' = Forget
    /\ UNCHANGED nv

-----------------------------------------------------------------------------
Loader ==
    \/ Begin \/ BatteryNotOk \/ ReadWakeSource
    \/ ForcedShutdownRtc \/ ForcedShutdownWdt \/ TargetFromOff
    \/ GetResetSource \/ DeleteSavedResetSource \/ TargetFromInputs
    \/ BootWatchdog \/ WdClearFlag \/ WdSaveTargetMode \/ WdSaveResetSource
    \/ WdSetFlag \/ WdColdReset \/ WdCount \/ TargetFromReset
    \/ HookBootlogicEnd \/ HookDeleteSaved
    \/ EmFallback \/ SaveTargetMode \/ LoadTarget \/ GoToRescueMode \/ RescueReset
    \/ LoadFails

Environment ==
    \/ PowerOn \/ PowerLoss
    \/ OsRequestTarget \/ OsWriteBcb \/ OsReset \/ OsWatchdog \/ OsShutdown
    \/ UserPowersOff

Next == Loader \/ Environment

Spec == Init /\ [][Next]_vars

\* The loader is the only program running before the OS: its code runs on.
FairSpec == Spec /\ WF_vars(Loader)

-----------------------------------------------------------------------------
(***************************************************************************)
(* Properties.                                                             *)
(***************************************************************************)
\* LoaderEntryLast names the image that runs.  boot_watchdog relaunches or
\* leaves "the last target" on the strength of this, after any sequence of
\* failed loads, energy fallbacks and power losses.
LastIsRunning == pc = "os" => nv.last = target_to_name(h.running)

\* One boot never attempts an image that already failed to load in it: the
\* energy fallback at the top of the loop and the ladder at its bottom never
\* chase each other in launch_or_fallback.
NoRetry == pc = "load" => target \notin h.tried

\* With the battery level read as BATT_BOOT_CHARGING, neither the main OS nor
\* a factory OS is started, whatever asked for it and however many images
\* failed to load before (em_fallback_target).
LowBatteryStartsNoMainOs ==
    pc = "os" /\ h.low => h.running \notin {"BOOT", "FACTORY", "FACTORY2"}

\* The same image is hung by the watchdog at most three times in a row:
\* the counter of boot_watchdog leads away from it in time.
HangsBounded == h.hangs <= 3

\* The boot in which the watchdog counter reaches its limit does not start
\* the image that hung, through any of the fallbacks that follow.
EscalationLeavesHungTarget ==
    [][pc = "load" /\ pc' = "os" /\ h.escalated => h'.running # h.running]_vars

\* A one-shot request is gone when an OS starts, so it is honoured at most
\* once (set_entry_last).
OneShotConsumed == [][pc = "load" /\ pc' = "os" => nv'.oneshot = "none"]_vars

\* A reset the OS asked for, with a valid one-shot name, no BCB request, a
\* good battery and a loadable image, starts exactly the image it named.
OneShotHonoured ==
    [][/\ pc = "load" /\ pc' = "os"
       /\ h.cause \in {"OS_INITIATED", "FORCED"}
       /\ name_to_target(h.asked) # "UNKNOWN"
       /\ ~nv.bcb /\ ~h.low /\ h.tried = {}
       => h'.running = name_to_target(h.asked)]_vars

\* After a watchdog reset the OS is told the watchdog as reset source, in
\* the ResetSource variable and in the RSCI table, although the loader may
\* have cold-reset the platform in between.
ResetSourceReported ==
    pc = "os" /\ h.cause \in Watchdogs =>
        vol.reset = h.cause /\ rsci.reset = h.cause

\* With do_cold_reset_after_wd the loader cold-resets the platform between a
\* watchdog reset and the next start of an OS.
ColdResetAfterWatchdog ==
    do_cold_reset_after_wd =>
        (pc = "os" /\ h.cause \in Watchdogs => h.coldreset)

\* Every boot ends: an OS runs, the platform is off or in rescue mode, or
\* control is back in the firmware.
BootEnds == pc \in LoaderPcs ~> pc \in Resting
=============================================================================
