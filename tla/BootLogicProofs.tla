--------------------------- MODULE BootLogicProofs ---------------------------
(***************************************************************************)
(* Theorems about BootLogic, for every build option, environment and fault *)
(* the constants describe.                                                 *)
(***************************************************************************)
EXTENDS BootLogic, TLAPS

-----------------------------------------------------------------------------
(***************************************************************************)
(* The tables: every name denotes a target, and an entry target's name is  *)
(* a name of the table that denotes that target again.                     *)
(***************************************************************************)
LEMMA NameToTarget == \A n : name_to_target(n) \in Targets
  BY DEF name_to_target, Targets

LEMMA TargetToName ==
  \A t \in EntryTargets : target_to_name(t) \in EntryNames
  BY DEF EntryNames

LEMMA EntryIsTarget == EntryTargets \subseteq Targets
  BY DEF EntryTargets, FactoryTargets, Targets

\* The round trip set_entry_last -> get_entry_last gives the target back.
THEOREM NameRoundTrip ==
  \A t \in EntryTargets : name_to_target(target_to_name(t)) = t
  BY DEF EntryTargets, FactoryTargets, target_to_name, name_to_target

LEMMA FallbackTarget == \A t : fallback_target(t) \in Targets
  BY DEF fallback_target, Targets

LEMMA OrElseType ==
  \A a, b \in Targets : OrElse(a, b) \in Targets
  BY DEF OrElse

LEMMA OffType ==
  ASSUME NEW ws, NEW combo, NEW readable, NEW ti, NEW charger
  PROVE  target_from_off(ws, combo, readable, ti, charger) \in Targets
  BY DEF target_from_off, OrElse, boot_fastboot_combo, boot_bcb, boot_power_key,
         boot_rtc, boot_battery_insertion, boot_charger_insertion, Targets

LEMMA EmType ==
  ASSUME NEW t \in Targets, NEW level, NEW charger
  PROVE  em_fallback_target(t, level, charger) \in Targets
  BY DEF em_fallback_target, Targets

-----------------------------------------------------------------------------
(***************************************************************************)
(* Type correctness.  Three facts strengthen TypeOK: the reset source is   *)
(* known once get_reset_source has returned it to target_from_inputs, a    *)
(* target about to be written as the last one has an entry, and the rescue *)
(* bit is set before the reset that is to find it.                         *)
(***************************************************************************)
RsKnownPcs == {"dispatch", "wd", "wd_del", "wd_last", "wd_rs"}

TypeInv ==
    /\ TypeOK
    /\ pc \in RsKnownPcs => rs # "ERROR"
    /\ pc = "wd_last" => lastT \in EntryTargets
    /\ pc = "save_last" => target \in EntryTargets
    /\ pc = "rescue_reset" => nv.osind

LEMMA WrittenType ==
  ASSUME nv \in NvType, NEW new \in NvType, nv' \in Written(new)
  PROVE  nv' \in NvType
  BY DEF Written

LEMMA FirmwareType ==
  ASSUME NEW nv1 \in NvType, NEW table \in RsciType, Firmware(nv1, table),
         h' \in HistType
  PROVE  TypeInv'
  <1>1. nv' \in NvType
    BY DEF Firmware, NvType
  <1>2. rsci' \in RsciType
    BY DEF Firmware, RsciType, Byte255, WakeSources, ResetSources, ShutdownSources
  <1>3. vol' \in VolType
    BY DEF Firmware, NoVol, VolType
  <1>4. pc' \in {"rescue", "begin"}
    BY DEF Firmware
  <1> QED
    BY <1>1, <1>2, <1>3, <1>4
    DEF Firmware, TypeInv, TypeOK, LoaderPcs, Resting, Targets, RsKnownPcs

LEMMA ResetTableType ==
  ASSUME NEW r \in ResetSources
  PROVE  ResetTable(r) \in RsciType
  BY DEF ResetTable, RsciType, WakeSources, ShutdownSources

LEMMA EndedType ==
  ASSUME h \in HistType, NEW r \in ResetSources, NEW hangs \in 0 .. 4,
         NEW asked \in OsNames \cup {"none"}
  PROVE  Ended(r, hangs, asked) \in HistType
  BY DEF Ended, HistType

LEMMA ForgetType ==
  ASSUME h \in HistType
  PROVE  Forget \in HistType
  BY EndedType DEF Forget, ResetSources

LEMMA PowerOffType ==
  ASSUME TypeOK, PowerOff, nv' = nv, h' = Forget
  PROVE  TypeInv'
  BY ForgetType
  DEF PowerOff, TypeInv, TypeOK, LoaderPcs, Resting, Targets, RsKnownPcs, NoVol, VolType

LEMMA InitType == Init => TypeInv
  BY DEF Init, TypeInv, TypeOK, NvType, RsciType, VolType, HistType, NoVol,
         LoaderPcs, Resting, Targets, RsKnownPcs, WakeSources, ResetSources,
         ShutdownSources

LEMMA NextType == TypeInv /\ [Next]_vars => TypeInv'
  <1> SUFFICES ASSUME TypeInv, [Next]_vars
               PROVE  TypeInv'
    OBVIOUS
  <1> USE DEF TypeInv, TypeOK, RsKnownPcs, Goto, LoaderPcs, Resting, local
  <1>1. CASE Begin
    BY <1>1, TargetToName DEF Begin, save_entry_previous, VolType
  <1>2. CASE BatteryNotOk
    BY <1>2 DEF BatteryNotOk, Decide, OrElse, Targets
  <1>3. CASE ReadWakeSource
    BY <1>3 DEF ReadWakeSource
  <1>4. CASE ForcedShutdownRtc
    <2>1. [nv EXCEPT !.rtc = 0] \in NvType
      BY DEF NvType
    <2> QED
      BY <1>4, <2>1, WrittenType DEF ForcedShutdownRtc
  <1>5. CASE ForcedShutdownWdt
    <2>1. [nv EXCEPT !.wdt = 0] \in NvType
      BY DEF NvType
    <2> QED
      BY <1>5, <2>1, WrittenType DEF ForcedShutdownWdt
  <1>6. CASE TargetFromOff
    <2>1. PICK t \in Targets : Decide(t)
      BY <1>6, OffType DEF TargetFromOff
    <2>2. target' \in Targets
      BY <2>1, OrElseType DEF Decide, Targets
    <2> QED
      BY <1>6, <2>1, <2>2 DEF TargetFromOff, Decide
  <1>7. CASE GetResetSource
    BY <1>7 DEF GetResetSource, read_reset_source, NvType, RsciType
  <1>8. CASE DeleteSavedResetSource
    <2>1. [nv EXCEPT !.saved = "none"] \in NvType
      BY DEF NvType
    <2>2. nv' \in NvType
      BY <1>8, <2>1, WrittenType DEF DeleteSavedResetSource
    <2> QED
      BY <1>8, <2>2 DEF DeleteSavedResetSource, Decide, OrElse, Targets
  <1>9. CASE TargetFromInputs
    <2>1. rsci' \in RsciType
      BY <1>9 DEF TargetFromInputs, set_reset_source, RsciType
    <2> QED
      BY <1>9, <2>1 DEF TargetFromInputs, Decide, OrElse, Targets
  <1>10. CASE BootWatchdog
    BY <1>10, NameToTarget DEF BootWatchdog, get_entry_last
  <1>11. CASE WdClearFlag
    <2>1. [nv EXCEPT !.wdcold = 0] \in NvType
      BY DEF NvType
    <2> QED
      BY <1>11, <2>1, WrittenType DEF WdClearFlag, uefi_set_wd_cold_reset
  <1>12. CASE WdSaveTargetMode
    <2>1. [nv EXCEPT !.oneshot = "none"] \in NvType
      BY DEF NvType
    <2>2. CASE pc = "wd_del"
      BY <1>12, <2>1, <2>2, WrittenType DEF WdSaveTargetMode, SetEntryLast, delete_oneshot, write_last
    <2>3. CASE pc = "wd_last"
      <3>1. [nv EXCEPT !.last = target_to_name(lastT)] \in NvType
        BY <2>3, TargetToName DEF NvType
      <3> QED
        BY <1>12, <2>3, <3>1, WrittenType DEF WdSaveTargetMode, SetEntryLast, delete_oneshot, write_last
    <2> QED
      BY <1>12, <2>2, <2>3 DEF WdSaveTargetMode, SetEntryLast
  <1>13. CASE WdSaveResetSource
    <2>1. [nv EXCEPT !.saved = rs] \in NvType
      BY <1>13 DEF NvType, WdSaveResetSource
    <2> QED
      BY <1>13, <2>1, WrittenType DEF WdSaveResetSource
  <1>14. CASE WdSetFlag
    <2>1. [nv EXCEPT !.wdcold = 1] \in NvType
      BY DEF NvType
    <2> QED
      BY <1>14, <2>1, WrittenType DEF WdSetFlag, uefi_set_wd_cold_reset
  <1>15. CASE WdColdReset
    <2>1. PICK r \in ColdResetSeen : Firmware(nv, ResetTable(r))
      BY <1>15 DEF WdColdReset
    <2>2. h' \in HistType
      BY <1>15 DEF WdColdReset, HistType
    <2> QED
      BY <2>1, <2>2, EnvAssumption, ResetTableType, FirmwareType
  <1>16. CASE WdCount
    <2>1. h' \in HistType
      BY <1>16 DEF WdCount, HistType
    <2>2. /\ wdt_counter \in 0 .. 2
          /\ [nv EXCEPT !.wdt = 0] \in NvType
      BY DEF wdt_counter, NvType
    <2>3. wdt_counter + 1 < WDT_LIMIT => [nv EXCEPT !.wdt = wdt_counter + 1] \in NvType
      BY <2>2 DEF NvType, WDT_LIMIT
    <2>4. nv' \in NvType
      BY <1>16, <2>2, <2>3, WrittenType DEF WdCount, WDT_LIMIT
    <2>5. PICK t \in Targets : WdReturn(t)
      BY <1>16, FallbackTarget DEF WdCount, LimitTarget
    <2>6. target' \in Targets /\ pc' \in {"cases", "hook_end"}
      BY <2>5 DEF WdReturn, Decide, OrElse, Targets
    <2> QED
      BY <1>16, <2>1, <2>4, <2>6 DEF WdCount
  <1>17. CASE TargetFromReset
    <2>1. vol' \in VolType
      BY <1>17 DEF TargetFromReset, VolType
    <2>2. PICK t \in Targets : Decide(t)
      <3>1. \A readable : boot_bcb(readable) \in Targets
        BY DEF boot_bcb, Targets
      <3>2. boot_fw_update \in Targets /\ boot_reset \in Targets
        BY NameToTarget DEF boot_fw_update, boot_reset, get_entry_oneshot, Targets
      <3> QED
        BY <1>17, <3>1, <3>2, OrElseType DEF TargetFromReset
    <2>3. target' \in Targets
      BY <2>2, OrElseType DEF Decide, Targets
    <2> QED
      BY <1>17, <2>1, <2>2, <2>3 DEF TargetFromReset, Decide
  <1>18. CASE HookBootlogicEnd
    <2>1. vol' \in VolType
      BY <1>18 DEF HookBootlogicEnd, VolType
    <2>2. rs' \in ResetSources \cup {"ERROR"}
      BY <1>18 DEF HookBootlogicEnd, read_reset_source, NvType, RsciType
    <2> QED
      BY <1>18, <2>1, <2>2 DEF HookBootlogicEnd
  <1>19. CASE HookDeleteSaved
    <2>1. [nv EXCEPT !.saved = "none"] \in NvType
      BY DEF NvType
    <2>2. vol' \in VolType
      BY <1>19 DEF HookDeleteSaved, VolType
    <2> QED
      BY <1>19, <2>1, <2>2, WrittenType DEF HookDeleteSaved
  <1>20. CASE EmFallback
    <2>1. PICK level \in get_battery_level, charger \in is_charger_present :
            LET t == em_fallback_target(target, level, charger) IN
            IF t = "COLD_OFF"
            THEN PowerOff /\ h' = Forget
            ELSE /\ target' = t
                 /\ Goto("save_del")
                 /\ h' = [h EXCEPT !.low = level = "BOOT_CHARGING"]
                 /\ UNCHANGED <<rsci, vol, rs, lastT>>
      BY <1>20 DEF EmFallback
    <2>2. nv' = nv
      BY <1>20 DEF EmFallback
    <2>3. CASE em_fallback_target(target, level, charger) = "COLD_OFF"
      BY <2>1, <2>2, <2>3, PowerOffType
    <2>4. CASE em_fallback_target(target, level, charger) # "COLD_OFF"
      <3>1. [h EXCEPT !.low = level = "BOOT_CHARGING"] \in HistType
        BY DEF HistType
      <3> QED
        BY <2>1, <2>2, <2>4, <3>1, EmType
    <2> QED
      BY <2>3, <2>4
  <1>21. CASE SaveTargetMode
    <2>1. [nv EXCEPT !.oneshot = "none"] \in NvType
      BY DEF NvType
    <2>2. CASE pc = "save_del"
      BY <1>21, <2>1, <2>2, WrittenType DEF SaveTargetMode, SetEntryLast, delete_oneshot, write_last
    <2>3. CASE pc = "save_last"
      <3>1. [nv EXCEPT !.last = target_to_name(target)] \in NvType
        BY <2>3, TargetToName DEF NvType
      <3> QED
        BY <1>21, <2>3, <3>1, WrittenType DEF SaveTargetMode, SetEntryLast, delete_oneshot, write_last
    <2> QED
      BY <1>21, <2>2, <2>3 DEF SaveTargetMode, SetEntryLast
  <1>22. CASE LoadTarget
    <2> DEFINE k == IF h.running = target THEN h.hangs ELSE 0
    <2>1. k \in 0 .. 4
      BY DEF HistType
    <2>2. h' \in HistType
      <3> HIDE DEF k
      <3>1. h' = [h EXCEPT !.running = target, !.hangs = k]
        BY <1>22 DEF LoadTarget, k
      <3> QED
        BY <2>1, <3>1 DEF HistType
    <2> QED
      BY <1>22, <2>2 DEF LoadTarget
  <1>23. CASE GoToRescueMode
    <2>1. /\ [nv EXCEPT !.osind = TRUE] \in NvType
          /\ [nv EXCEPT !.osind = TRUE].osind
      BY DEF NvType
    <2> QED
      BY <1>23, <2>1 DEF GoToRescueMode
  <1>24. CASE LoadFails
    <2>1. h' \in HistType
      BY <1>24 DEF LoadFails, HistType
    <2> QED
      BY <1>24, <2>1, FallbackTarget DEF LoadFails
  <1>25. CASE PowerOn
    <2>1. PICK ws \in WakeSeen, sd \in Shutdowns :
            Firmware(nv, [wake |-> ws, reset |-> "NOT_APPLICABLE", shutdown |-> sd])
      BY <1>25 DEF PowerOn
    <2>2. [wake |-> ws, reset |-> "NOT_APPLICABLE", shutdown |-> sd] \in RsciType
      BY EnvAssumption DEF RsciType, ResetSources
    <2> QED
      BY <1>25, <2>1, <2>2, FirmwareType DEF PowerOn
  <1>26. CASE PowerLoss
    BY <1>26, PowerOffType DEF PowerLoss
  <1>27. CASE OsRequestTarget
    <2>1. nv' \in NvType
      BY <1>27 DEF OsRequestTarget, NvType
    <2> QED
      BY <1>27, <2>1 DEF OsRequestTarget
  <1>28. CASE OsWriteBcb
    <2>1. nv' \in NvType
      BY <1>28 DEF OsWriteBcb, NvType
    <2> QED
      BY <1>28, <2>1 DEF OsWriteBcb
  <1>29. CASE OsReset
    <2>1. PICK r \in OsResets :
            Firmware(nv, ResetTable(r)) /\ h' = Ended(r, 0, nv.oneshot)
      BY <1>29 DEF OsReset
    <2>2. h' \in HistType
      BY <2>1, EnvAssumption, EndedType DEF NvType
    <2> QED
      BY <2>1, <2>2, EnvAssumption, ResetTableType, FirmwareType
  <1>30. CASE OsWatchdog
    <2>1. PICK r \in OsWatchdogs :
            /\ Firmware(nv, ResetTable(r))
            /\ h' = Ended(r, IF h.hangs < HangBound THEN h.hangs + 1 ELSE HangBound,
                          "none")
      BY <1>30 DEF OsWatchdog
    <2>2. r \in ResetSources
      BY EnvAssumption DEF ResetSources
    <2>3. h' \in HistType
      <3>1. (IF h.hangs < HangBound THEN h.hangs + 1 ELSE HangBound) \in 0 .. 4
        BY DEF HistType, HangBound
      <3> QED
        BY <2>1, <2>2, <3>1, EndedType
    <2> QED
      BY <2>1, <2>2, <2>3, ResetTableType, FirmwareType
  <1>31. CASE OsShutdown
    BY <1>31, PowerOffType DEF OsShutdown
  <1>32. CASE UserPowersOff
    BY <1>32, PowerOffType DEF UserPowersOff
  <1>33. CASE UNCHANGED vars
    BY <1>33 DEF vars
  <1>34. CASE RescueReset
    <2>1. "OS_INITIATED" \in ResetSources
      BY DEF ResetSources
    <2> QED
      BY <1>34, <2>1, ResetTableType, FirmwareType DEF RescueReset
  <1> QED
    BY <1>1, <1>2, <1>3, <1>4, <1>5, <1>6, <1>7, <1>8, <1>9, <1>10, <1>11,
       <1>12, <1>13, <1>14, <1>15, <1>16, <1>17, <1>18, <1>19, <1>20, <1>21,
       <1>22, <1>23, <1>24, <1>25, <1>26, <1>27, <1>28, <1>29, <1>30, <1>31,
       <1>32, <1>33, <1>34
    DEF Next, Loader, Environment

\* TypeOK holds in every reachable state: the counter of boot_watchdog stays
\* below its limit, the reset source saved across the cold reset is never
\* RESET_ERROR, and every name written to LoaderEntryLast is an entry's.
THEOREM TypeCorrect == Spec => []TypeOK
  <1>1. Spec => []TypeInv
    BY InitType, NextType, PTL DEF Spec
  <1>2. TypeInv => TypeOK
    BY DEF TypeInv
  <1> QED
    BY <1>1, <1>2, PTL

-----------------------------------------------------------------------------
(***************************************************************************)
(* The launch loop.  Only a few actions lead into the part of the loader   *)
(* between the energy fallback and the running OS; the invariants below    *)
(* speak about that part, so the other actions cannot disturb them.        *)
(***************************************************************************)
CommitPcs == {"save_del", "save_last", "load", "os"}

CommitStep ==
    \/ EmFallback \/ SaveTargetMode \/ LoadTarget
    \/ OsRequestTarget \/ OsWriteBcb

LEMMA CommitSteps ==
  ASSUME TypeInv, Next, pc' \in CommitPcs
  PROVE  CommitStep
  <1> USE DEF CommitPcs, Goto
  <1>1. ~(\/ Begin \/ BatteryNotOk \/ ReadWakeSource
          \/ ForcedShutdownRtc \/ ForcedShutdownWdt \/ TargetFromOff)
    BY DEF Begin, BatteryNotOk, ReadWakeSource, ForcedShutdownRtc,
           ForcedShutdownWdt, TargetFromOff, Decide
  <1>2. ~(\/ GetResetSource \/ DeleteSavedResetSource \/ TargetFromInputs
          \/ HookBootlogicEnd \/ HookDeleteSaved \/ TargetFromReset)
    BY DEF GetResetSource, DeleteSavedResetSource, TargetFromInputs,
           HookBootlogicEnd, HookDeleteSaved, TargetFromReset, Decide
  <1>3. ~(\/ BootWatchdog \/ WdClearFlag \/ WdSaveTargetMode \/ WdSaveResetSource
          \/ WdSetFlag \/ WdCount)
    BY DEF BootWatchdog, WdClearFlag, WdSaveTargetMode, SetEntryLast,
           WdSaveResetSource, WdSetFlag, WdCount, WdReturn, Decide
  <1>4. ~(\/ WdColdReset \/ GoToRescueMode \/ RescueReset
          \/ PowerOn \/ OsReset \/ OsWatchdog)
    BY DEF WdColdReset, GoToRescueMode, RescueReset, PowerOn, OsReset, OsWatchdog, Firmware
  <1>5. ~(LoadFails \/ PowerLoss \/ OsShutdown \/ UserPowersOff)
    BY DEF LoadFails, PowerLoss, OsShutdown, UserPowersOff, PowerOff
  <1> QED
    BY <1>1, <1>2, <1>3, <1>4, <1>5 DEF Next, Loader, Environment, CommitStep

\* Every step of Next, and every stutter, with the type invariant before and
\* after it: what the invariance proofs below assume.
TypedStep == TypeInv /\ TypeInv' /\ [Next]_vars

-----------------------------------------------------------------------------
(***************************************************************************)
(* LowBatteryStartsNoMainOs: from the look at the battery to the jump, the *)
(* target is not a main OS when the battery was low.                       *)
(***************************************************************************)
MainOs == {"BOOT", "FACTORY", "FACTORY2"}

LowInv ==
    /\ h.low /\ pc \in {"save_del", "save_last", "load"} => target \notin MainOs
    /\ h.low /\ pc = "os" => h.running \notin MainOs

LEMMA LowStep == TypedStep /\ LowInv => LowInv'
  <1> SUFFICES ASSUME TypedStep, LowInv, pc' \in CommitPcs, Next
               PROVE  LowInv'
    BY DEF TypedStep, LowInv, CommitPcs, vars
  <1>1. CommitStep
    BY CommitSteps DEF TypedStep
  <1>2. CASE EmFallback
    <2>1. PICK level \in get_battery_level, charger \in is_charger_present :
            /\ target' = em_fallback_target(target, level, charger)
            /\ target' # "COLD_OFF"
            /\ pc' = "save_del"
            /\ h' = [h EXCEPT !.low = level = "BOOT_CHARGING"]
      BY <1>2 DEF EmFallback, PowerOff, CommitPcs, Goto
    <2>2. h'.low => level = "BOOT_CHARGING"
      BY <2>1 DEF TypedStep, TypeInv, TypeOK, HistType
    <2> QED
      BY <2>1, <2>2 DEF em_fallback_target, LowInv, MainOs
  <1>3. CASE SaveTargetMode
    BY <1>3 DEF SaveTargetMode, SetEntryLast, LowInv, Goto, local
  <1>4. CASE LoadTarget
    <2>1. h'.running = target /\ h'.low = h.low
      BY <1>4 DEF LoadTarget, TypedStep, TypeInv, TypeOK, HistType
    <2> QED
      BY <1>4, <2>1 DEF LoadTarget, LowInv, Goto, local
  <1>5. CASE OsRequestTarget \/ OsWriteBcb
    BY <1>5 DEF OsRequestTarget, OsWriteBcb, LowInv, local
  <1> QED
    BY <1>1, <1>2, <1>3, <1>4, <1>5 DEF CommitStep

\* With a low battery no main OS and no factory OS is started
\* (em_fallback_target in launch_or_fallback).
THEOREM LowBatterySafe == Spec => []LowBatteryStartsNoMainOs
  <1>1. Init => LowInv
    BY DEF Init, LowInv
  <1>2. TypeInv /\ LowInv /\ [Next]_vars => LowInv'
    BY LowStep, NextType DEF TypedStep
  <1>3. LowInv => LowBatteryStartsNoMainOs
    BY DEF LowInv, LowBatteryStartsNoMainOs, MainOs
  <1> QED
    BY <1>1, <1>2, <1>3, InitType, NextType, PTL DEF Spec

-----------------------------------------------------------------------------
(***************************************************************************)
(* What set_entry_last leaves behind, when the variable store does not     *)
(* fail: at the jump the one-shot name is gone and LoaderEntryLast names   *)
(* the image.                                                              *)
(***************************************************************************)
SavedInv ==
    /\ pc = "save_last" => nv.oneshot = "none"
    /\ pc = "load" /\ target \in EntryTargets =>
          nv.oneshot = "none" /\ nv.last = target_to_name(target)
    /\ pc = "os" => nv.last = target_to_name(h.running)

LEMMA SavedStep ==
  ASSUME "nv" \notin Faults
  PROVE  TypedStep /\ SavedInv => SavedInv'
  <1> SUFFICES ASSUME TypedStep, SavedInv, pc' \in CommitPcs, Next
               PROVE  SavedInv'
    BY DEF TypedStep, SavedInv, CommitPcs, vars
  <1> USE DEF TypedStep, TypeInv, TypeOK
  <1>1. CommitStep
    BY CommitSteps
  <1>2. CASE EmFallback
    BY <1>2 DEF EmFallback, PowerOff, CommitPcs, Goto, SavedInv
  <1>3. CASE SaveTargetMode
    <2>1. CASE pc = "save_del"
      BY <1>3, <2>1 DEF SaveTargetMode, SetEntryLast, delete_oneshot, write_last, Written, NvType, SavedInv,
                        Goto, local
    <2>2. CASE pc = "save_last"
      BY <1>3, <2>2 DEF SaveTargetMode, SetEntryLast, delete_oneshot, write_last, Written, NvType, SavedInv,
                        Goto, local
    <2> QED
      BY <1>3, <2>1, <2>2 DEF SaveTargetMode, SetEntryLast
  <1>4. CASE LoadTarget
    <2>1. h'.running = target
      BY <1>4 DEF LoadTarget, HistType
    <2> QED
      BY <1>4, <2>1 DEF LoadTarget, SavedInv, Goto, local
  <1>5. CASE OsRequestTarget
    <2>1. nv'.last = nv.last
      BY <1>5 DEF OsRequestTarget, NvType
    <2> QED
      BY <1>5, <2>1 DEF OsRequestTarget, SavedInv, local
  <1>6. CASE OsWriteBcb
    <2>1. nv'.last = nv.last
      BY <1>6 DEF OsWriteBcb, NvType
    <2> QED
      BY <1>6, <2>1 DEF OsWriteBcb, SavedInv, local
  <1> QED
    BY <1>1, <1>2, <1>3, <1>4, <1>5, <1>6 DEF CommitStep

LEMMA SavedAlways ==
  ASSUME "nv" \notin Faults
  PROVE  Spec => [](TypeInv /\ SavedInv)
  <1>1. Init => SavedInv
    BY DEF Init, SavedInv
  <1>2. TypeInv /\ SavedInv /\ [Next]_vars => SavedInv'
    BY SavedStep, NextType DEF TypedStep
  <1> QED
    BY <1>1, <1>2, InitType, NextType, PTL DEF Spec

\* The variable boot_watchdog takes its last target from names the OS that
\* runs, through power failures, failed loads and battery states of any kind,
\* as long as the variable store works.
THEOREM LastTargetSafe ==
  ASSUME "nv" \notin Faults
  PROVE  Spec => []LastIsRunning
  <1>1. TypeInv /\ SavedInv => LastIsRunning
    BY DEF SavedInv, LastIsRunning
  <1> QED
    BY <1>1, SavedAlways, PTL

\* A one-shot request never survives into the OS it started, nor into any
\* other: it is honoured at most once.
THEOREM OneShotAtMostOnce ==
  ASSUME "nv" \notin Faults
  PROVE  Spec => OneShotConsumed
  <1>1. TypeInv /\ SavedInv /\ [Next]_vars
          => [pc = "load" /\ pc' = "os" => nv'.oneshot = "none"]_vars
    <2> SUFFICES ASSUME TypeInv, SavedInv, Next, pc = "load", pc' = "os"
                 PROVE  nv'.oneshot = "none"
      BY DEF vars
    <2>1. CommitStep
      BY CommitSteps DEF CommitPcs
    <2>2. LoadTarget
      BY <2>1 DEF CommitStep, EmFallback, SaveTargetMode, SetEntryLast,
                  OsRequestTarget, OsWriteBcb
    <2> QED
      BY <2>2 DEF LoadTarget, SavedInv
  <1> QED
    BY <1>1, SavedAlways, PTL DEF Spec, OneShotConsumed

-----------------------------------------------------------------------------
(***************************************************************************)
(* NoRetry: the targets tried in a boot are above the current one on the   *)
(* ladder BOOT/CHARGING > RECOVERY > FASTBOOT > DNX, and before the loop   *)
(* none has been tried.                                                    *)
(***************************************************************************)
LadderRank(t) ==
    CASE t = "RECOVERY" -> 1
      [] t = "FASTBOOT" -> 2
      [] t = "DNX"      -> 3
      [] OTHER          -> 0

LoopPcs == {"loop", "save_del", "save_last", "load"}

RetryInv ==
    /\ pc \in LoopPcs =>
          \/ h.tried = {}
          \/ /\ LadderRank(target) > 0
             /\ \A t \in h.tried : LadderRank(t) < LadderRank(target)
    /\ pc \notin LoopPcs \cup {"os", "exit", "rescue_reset", "rescue"} => h.tried = {}

LEMMA LadderDescends ==
  ASSUME NEW t, fallback_target(t) # "UNKNOWN"
  PROVE  LadderRank(t) < LadderRank(fallback_target(t))
  BY DEF fallback_target, LadderRank

LEMMA EmKeepsLadder ==
  ASSUME NEW t, NEW level, NEW charger, LadderRank(t) > 0
  PROVE  em_fallback_target(t, level, charger) = t
  BY DEF em_fallback_target, LadderRank

LEMMA ForgetTried ==
  /\ Forget.tried = {}
  /\ \A r, n, a : Ended(r, n, a).tried = {}
  BY DEF Forget, Ended

LEMMA RetryStep == TypedStep /\ RetryInv => RetryInv'
  <1> SUFFICES ASSUME TypedStep, RetryInv, Next
               PROVE  RetryInv'
    BY DEF TypedStep, RetryInv, vars
  <1> USE DEF TypedStep, TypeInv, TypeOK, LoopPcs
  \* Before the loop, nothing touches the history but its flags.
  <1>1. CASE \/ Begin \/ BatteryNotOk \/ ReadWakeSource
             \/ ForcedShutdownRtc \/ ForcedShutdownWdt \/ TargetFromOff
    BY <1>1 DEF Begin, BatteryNotOk, ReadWakeSource, ForcedShutdownRtc,
           ForcedShutdownWdt, TargetFromOff, Decide, Goto, RetryInv
  <1>2. CASE \/ GetResetSource \/ DeleteSavedResetSource \/ TargetFromInputs
             \/ HookBootlogicEnd \/ HookDeleteSaved \/ TargetFromReset
    BY <1>2 DEF GetResetSource, DeleteSavedResetSource, TargetFromInputs,
           HookBootlogicEnd, HookDeleteSaved, TargetFromReset, Decide, Goto,
           RetryInv
  <1>3. CASE \/ BootWatchdog \/ WdClearFlag \/ WdSaveTargetMode
             \/ WdSaveResetSource \/ WdSetFlag
    BY <1>3 DEF BootWatchdog, WdClearFlag, WdSaveTargetMode, SetEntryLast,
           WdSaveResetSource, WdSetFlag, Goto, RetryInv
  <1>4. CASE WdCount
    <2>1. h'.tried = h.tried
      BY <1>4 DEF WdCount, HistType
    <2> QED
      BY <1>4, <2>1 DEF WdCount, WdReturn, Decide, Goto, RetryInv
  <1>5. CASE WdColdReset
    <2>1. h'.tried = h.tried
      BY <1>5 DEF WdColdReset, HistType
    <2> QED
      BY <1>5, <2>1 DEF WdColdReset, Firmware, RetryInv
  \* The loop.
  <1>6. CASE EmFallback
    <2>1. PICK level \in get_battery_level, charger \in is_charger_present :
            \/ pc' = "off" /\ h' = Forget
            \/ /\ target' = em_fallback_target(target, level, charger)
               /\ pc' = "save_del"
               /\ h' = [h EXCEPT !.low = level = "BOOT_CHARGING"]
      BY <1>6 DEF EmFallback, PowerOff, Goto
    <2>2. CASE pc' = "off" /\ h' = Forget
      BY <2>2, ForgetTried DEF RetryInv
    <2>3. CASE /\ target' = em_fallback_target(target, level, charger)
               /\ pc' = "save_del"
               /\ h' = [h EXCEPT !.low = level = "BOOT_CHARGING"]
      <3>1. h'.tried = h.tried
        BY <2>3 DEF HistType
      <3>2. pc = "loop"
        BY <1>6 DEF EmFallback
      <3> QED
        BY <2>3, <3>1, <3>2, EmKeepsLadder DEF RetryInv
    <2> QED
      BY <2>1, <2>2, <2>3
  <1>7. CASE SaveTargetMode
    BY <1>7 DEF SaveTargetMode, SetEntryLast, Goto, RetryInv, local
  <1>8. CASE LoadTarget
    BY <1>8 DEF LoadTarget, Goto, RetryInv
  <1>9. CASE GoToRescueMode \/ RescueReset
    <2>1. pc' = "rescue_reset" \/ pc' = "rescue"
      BY <1>9 DEF GoToRescueMode, RescueReset, Goto, Firmware
    <2> QED
      BY <2>1 DEF RetryInv
  <1>10. CASE LoadFails
    <2>1. h'.tried = h.tried \cup {target}
      BY <1>10 DEF LoadFails, HistType
    <2>2. CASE pc' = "exit"
      BY <2>2 DEF RetryInv
    <2>3. CASE pc' # "exit"
      <3>1. /\ pc = "load" /\ pc' = "loop"
            /\ target' = fallback_target(target)
            /\ target' # "UNKNOWN"
        BY <1>10, <2>3 DEF LoadFails, Goto
      <3>2. LadderRank(target) < LadderRank(target')
        BY <3>1, LadderDescends
      <3>3. \A t : LadderRank(t) \in 0 .. 3
        BY DEF LadderRank
      <3>4. \A t \in h.tried : LadderRank(t) < LadderRank(target')
        BY <3>1, <3>2, <3>3 DEF RetryInv
      <3> QED
        BY <2>1, <3>1, <3>2, <3>3, <3>4 DEF RetryInv
    <2> QED
      BY <2>2, <2>3
  \* The environment: every end of a boot forgets what was tried.
  <1>11. CASE PowerOn
    BY <1>11 DEF PowerOn, Firmware, RetryInv
  <1>12. CASE PowerLoss \/ OsShutdown \/ UserPowersOff
    BY <1>12, ForgetTried DEF PowerLoss, OsShutdown, UserPowersOff, PowerOff, RetryInv
  <1>13. CASE OsReset \/ OsWatchdog
    <2>1. h'.tried = {} /\ pc' \in {"begin", "rescue"}
      BY <1>13, ForgetTried DEF OsReset, OsWatchdog, Firmware
    <2> QED
      BY <2>1 DEF RetryInv
  <1>14. CASE OsRequestTarget \/ OsWriteBcb
    BY <1>14 DEF OsRequestTarget, OsWriteBcb, RetryInv
  <1> QED
    BY <1>1, <1>2, <1>3, <1>4, <1>5, <1>6, <1>7, <1>8, <1>9, <1>10, <1>11,
       <1>12, <1>13, <1>14
    DEF Next, Loader, Environment

\* No boot attempts an image twice: the loop of launch_or_fallback, with the
\* energy fallback at its top, only ever goes down the ladder.
THEOREM NoRetrySafe == Spec => []NoRetry
  <1>1. Init => RetryInv
    BY DEF Init, RetryInv, LoopPcs
  <1>2. TypeInv /\ RetryInv /\ [Next]_vars => RetryInv'
    BY RetryStep, NextType DEF TypedStep
  <1>3. RetryInv => NoRetry
    <2> SUFFICES ASSUME RetryInv, pc = "load", target \in h.tried
                 PROVE  FALSE
      BY DEF NoRetry
    <2>1. LadderRank(target) < LadderRank(target)
      BY DEF RetryInv, LoopPcs
    <2> QED
      BY <2>1 DEF LadderRank
  <1> QED
    BY <1>1, <1>2, <1>3, InitType, NextType, PTL DEF Spec
-----------------------------------------------------------------------------
(***************************************************************************)
(* The reset source.  A watchdog reset and the loader's own cold reset     *)
(* after it are two boots, and WDColdReset and SavedResetSource carry the  *)
(* source from the first to the second.  The firmware's table must be      *)
(* readable, and in a build that cold-resets nothing may come between the  *)
(* two boots: no power failure, no refusing battery, no failing variable   *)
(* store.                                                                  *)
(***************************************************************************)
PlatformKeepsSource ==
    /\ "acpi" \notin Faults
    /\ do_cold_reset_after_wd => Faults \subseteq {"disk"}

PreDispatch == {"begin", "inputs", "get_rs", "del_saved", "dispatch"}
WdPcs ==
    {"wd", "wd_clear", "wd_del", "wd_last", "wd_rs", "wd_flag", "wd_reset", "wd_count"}

\* What the loader has found out of the cause of its boot, and where.
SourceInv ==
    /\ nv.osind => pc \in {"rescue_reset", "off"}
    /\ pc = "off" => h.cause = "NOT_APPLICABLE"
    /\ rs # "ERROR" => rs = h.cause
    /\ pc \in {"del_saved", "cases", "hook_del"} \cup WdPcs => rs # "ERROR"
    /\ pc \in LoopPcs \cup {"os"} => vol.reset = h.cause
    /\ pc \notin {"off", "rescue"} =>
          rsci.reset = h.cause \/ (pc \in PreDispatch /\ wd_cold_reset_done)
    /\ pc \in WdPcs => h.cause \in Watchdogs

\* The flag WDColdReset is set only from the cold reset to the boot after it,
\* and then SavedResetSource holds the source; a boot caused by a watchdog
\* gets no further than that reset.
ColdInv ==
    /\ wd_cold_reset_done =>
          /\ h.cause \in Watchdogs
          /\ \/ pc = "wd_reset"
             \/ pc \in PreDispatch \cup {"wd", "wd_clear"} /\ h.coldreset
          /\ pc \in {"begin", "inputs", "get_rs"} => nv.saved = h.cause
    /\ pc \in WdPcs \ {"wd", "wd_count"} => do_cold_reset_after_wd
    /\ pc \in {"wd_flag", "wd_reset"} => nv.saved = h.cause
    /\ pc = "wd_reset" => wd_cold_reset_done
    /\ do_cold_reset_after_wd /\ h.cause \in Watchdogs =>
          /\ pc \in {"begin", "inputs"} => rsci.wake = "NOT_APPLICABLE"
          /\ ~h.coldreset => pc \in PreDispatch \cup (WdPcs \ {"wd_clear", "wd_count"})

\* A platform reset that is no rescue request keeps the variables and reports
\* the firmware's table.
LEMMA FirmwareKeeps ==
  ASSUME nv \in NvType, ~nv.osind, "acpi" \notin Faults, NEW table, Firmware(nv, table)
  PROVE  nv' = nv /\ pc' = "begin" /\ rsci' = table /\ rs' = "ERROR"
  <1>1. [nv EXCEPT !.osind = FALSE] = nv
    BY DEF NvType
  <1> QED
    BY <1>1 DEF Firmware

\* One NV write leaves the other variables alone.
LEMMA WrittenKeeps ==
  ASSUME nv \in NvType, NEW f \in {"oneshot", "last", "wdt", "wdcold", "saved", "rtc"},
         NEW v, nv' \in Written([nv EXCEPT ![f] = v])
  PROVE  /\ \A g \in {"oneshot", "last", "wdt", "wdcold", "saved", "rtc", "osind", "bcb"} \ {f} :
               nv'[g] = nv[g]
         /\ "nv" \notin Faults => nv'[f] = v
  BY DEF Written, NvType

LEMMA SourceStep ==
  ASSUME PlatformKeepsSource
  PROVE  TypedStep /\ SourceInv /\ ColdInv => SourceInv' /\ ColdInv'
  <1> SUFFICES ASSUME TypedStep, SourceInv, ColdInv, Next
               PROVE  SourceInv' /\ ColdInv'
    BY DEF TypedStep, SourceInv, ColdInv, vars, wd_cold_reset_done
  <1> USE DEF TypedStep, TypeInv, TypeOK, PreDispatch, WdPcs, LoopPcs, RsKnownPcs,
              wd_cold_reset_done, Goto, PlatformKeepsSource
  <1>1. CASE \/ Begin \/ BatteryNotOk \/ ReadWakeSource
             \/ ForcedShutdownRtc \/ ForcedShutdownWdt \/ TargetFromOff
    <2>1. CASE Begin
      BY <2>1 DEF Begin, SourceInv, ColdInv, local
    <2>2. CASE BatteryNotOk
      <3>1. ~do_cold_reset_after_wd
        BY <2>2 DEF BatteryNotOk, is_battery_ok
      <3> QED
        BY <2>2, <3>1 DEF BatteryNotOk, Decide, OrElse, SourceInv, ColdInv
    <2>3. CASE ReadWakeSource
      BY <2>3 DEF ReadWakeSource, SourceInv, ColdInv, local
    <2>4. CASE ForcedShutdownRtc
      BY <2>4, WrittenKeeps DEF ForcedShutdownRtc, SourceInv, ColdInv, local
    <2>5. CASE ForcedShutdownWdt
      BY <2>5, WrittenKeeps DEF ForcedShutdownWdt, SourceInv, ColdInv, local
    <2>6. CASE TargetFromOff
      BY <2>6 DEF TargetFromOff, Decide, SourceInv, ColdInv
    <2> QED
      BY <1>1, <2>1, <2>2, <2>3, <2>4, <2>5, <2>6
  <1>2. CASE \/ GetResetSource \/ DeleteSavedResetSource \/ TargetFromInputs
             \/ TargetFromReset \/ HookBootlogicEnd \/ HookDeleteSaved
    <2>1. CASE GetResetSource
      <3>1. rs' = h.cause /\ h.cause # "ERROR"
        BY <2>1 DEF GetResetSource, read_reset_source, SourceInv, ColdInv, HistType,
                    ResetSources, Watchdogs
      <3> QED
        BY <2>1, <3>1 DEF GetResetSource, SourceInv, ColdInv
    <2>2. CASE DeleteSavedResetSource
      BY <2>2, WrittenKeeps DEF DeleteSavedResetSource, Decide, SourceInv, ColdInv
    <2>3. CASE TargetFromInputs
      <3>1. rs = h.cause
        BY <2>3 DEF TargetFromInputs, SourceInv
      <3>2. rsci' \in RsciType /\ rsci'.reset = h.cause
        BY <2>3, <3>1 DEF TargetFromInputs, set_reset_source, SourceInv, RsciType
      <3> QED
        BY <2>3, <3>1, <3>2 DEF TargetFromInputs, Decide, SourceInv, ColdInv, Watchdogs
    <2>4. CASE TargetFromReset
      BY <2>4 DEF TargetFromReset, Decide, SourceInv, ColdInv
    <2>5. CASE HookBootlogicEnd
      <3>1. CASE rs # "ERROR"
        <4>1. vol'.reset = h.cause
          BY <2>5, <3>1 DEF HookBootlogicEnd, SourceInv, VolType
        <4> QED
          BY <2>5, <3>1, <4>1 DEF HookBootlogicEnd, SourceInv, ColdInv
      <3>2. CASE rs = "ERROR"
        <4>1. rs' = h.cause /\ h.cause # "ERROR"
          BY <2>5, <3>2 DEF HookBootlogicEnd, read_reset_source, SourceInv, ColdInv,
                            HistType, ResetSources, Watchdogs
        <4> QED
          BY <2>5, <3>2, <4>1 DEF HookBootlogicEnd, SourceInv, ColdInv
      <3> QED
        BY <3>1, <3>2
    <2>6. CASE HookDeleteSaved
      <3>1. vol'.reset = rs
        BY <2>6 DEF HookDeleteSaved, VolType
      <3> QED
        BY <2>6, <3>1, WrittenKeeps DEF HookDeleteSaved, SourceInv, ColdInv, local
    <2> QED
      BY <1>2, <2>1, <2>2, <2>3, <2>4, <2>5, <2>6
  <1>3. CASE \/ BootWatchdog \/ WdClearFlag \/ WdSaveTargetMode \/ WdSaveResetSource
             \/ WdSetFlag \/ WdColdReset \/ WdCount
    <2>1. CASE BootWatchdog
      BY <2>1 DEF BootWatchdog, SourceInv, ColdInv
    <2>2. CASE WdClearFlag
      <3>1. nv'.wdcold # 1
        BY <2>2, WrittenKeeps DEF WdClearFlag, uefi_set_wd_cold_reset, ColdInv
      <3> QED
        BY <2>2, <3>1, WrittenKeeps DEF WdClearFlag, uefi_set_wd_cold_reset,
                                        SourceInv, ColdInv, local
    <2>3. CASE WdSaveTargetMode
      <3>1. nv'.wdcold = nv.wdcold /\ nv'.osind = nv.osind
        BY <2>3, WrittenKeeps DEF WdSaveTargetMode, SetEntryLast, delete_oneshot, write_last
      <3> QED
        BY <2>3, <3>1 DEF WdSaveTargetMode, SetEntryLast, SourceInv, ColdInv, local
    <2>4. CASE WdSaveResetSource
      <3>1. /\ nv'.wdcold = nv.wdcold /\ nv'.osind = nv.osind
            /\ nv'.saved = rs
        BY <2>4, WrittenKeeps DEF WdSaveResetSource, ColdInv
      <3> QED
        BY <2>4, <3>1 DEF WdSaveResetSource, SourceInv, ColdInv, local
    <2>5. CASE WdSetFlag
      <3>1. nv'.saved = nv.saved /\ nv'.osind = nv.osind /\ nv'.wdcold = 1
        BY <2>5, WrittenKeeps DEF WdSetFlag, uefi_set_wd_cold_reset, ColdInv
      <3> QED
        BY <2>5, <3>1 DEF WdSetFlag, SourceInv, ColdInv, local
    <2>6. CASE WdColdReset
      <3>1. PICK r \in ColdResetSeen : Firmware(nv, ResetTable(r))
        BY <2>6 DEF WdColdReset
      <3>2. /\ nv' = nv /\ pc' = "begin" /\ rs' = "ERROR"
            /\ rsci'.wake = "NOT_APPLICABLE"
        BY <2>6, <3>1, FirmwareKeeps DEF WdColdReset, SourceInv, ResetTable
      <3>3. h'.coldreset /\ h'.cause = h.cause
        BY <2>6 DEF WdColdReset, HistType
      <3> QED
        BY <2>6, <3>2, <3>3 DEF WdColdReset, SourceInv, ColdInv
    <2>7. CASE WdCount
      <3>1. nv'.wdcold = nv.wdcold /\ nv'.osind = nv.osind
        BY <2>7, WrittenKeeps DEF WdCount
      <3>2. h'.cause = h.cause /\ h'.coldreset = h.coldreset
        BY <2>7 DEF WdCount, HistType
      <3> QED
        BY <2>7, <3>1, <3>2 DEF WdCount, WdReturn, Decide, SourceInv, ColdInv
    <2> QED
      BY <1>3, <2>1, <2>2, <2>3, <2>4, <2>5, <2>6, <2>7
  <1>4. CASE \/ EmFallback \/ SaveTargetMode \/ LoadTarget
             \/ GoToRescueMode \/ RescueReset \/ LoadFails
    <2>1. CASE EmFallback
      <3>1. CASE PowerOff /\ h' = Forget
        BY <2>1, <3>1 DEF EmFallback, PowerOff, Forget, Ended, SourceInv, ColdInv, Watchdogs
      <3>2. CASE /\ pc' = "save_del" /\ UNCHANGED <<rsci, vol, rs>>
                 /\ \E b : h' = [h EXCEPT !.low = b]
        <4>1. h'.cause = h.cause /\ h'.coldreset = h.coldreset
          BY <3>2 DEF HistType
        <4> QED
          BY <2>1, <3>2, <4>1 DEF EmFallback, SourceInv, ColdInv
      <3> QED
        BY <2>1, <3>1, <3>2 DEF EmFallback
    <2>2. CASE SaveTargetMode
      <3>1. nv'.wdcold = nv.wdcold /\ nv'.osind = nv.osind
        BY <2>2, WrittenKeeps DEF SaveTargetMode, SetEntryLast, delete_oneshot, write_last
      <3> QED
        BY <2>2, <3>1 DEF SaveTargetMode, SetEntryLast, SourceInv, ColdInv, local
    <2>3. CASE LoadTarget
      <3>1. h'.cause = h.cause /\ h'.coldreset = h.coldreset
        BY <2>3 DEF LoadTarget, HistType
      <3> QED
        BY <2>3, <3>1 DEF LoadTarget, SourceInv, ColdInv, local
    <2>4. CASE GoToRescueMode
      <3>1. nv'.wdcold = nv.wdcold
        BY <2>4 DEF GoToRescueMode, NvType
      <3> QED
        BY <2>4, <3>1 DEF GoToRescueMode, SourceInv, ColdInv, local
    <2>5. CASE RescueReset
      <3>1. /\ pc' = "rescue" /\ rs' = "ERROR" /\ ~nv'.osind
            /\ nv'.wdcold = nv.wdcold /\ h' = h
        BY <2>5 DEF RescueReset, Firmware, NvType
      <3> QED
        BY <2>5, <3>1 DEF RescueReset, SourceInv, ColdInv
    <2>6. CASE LoadFails
      <3>1. h'.cause = h.cause /\ h'.coldreset = h.coldreset
        BY <2>6 DEF LoadFails, HistType
      <3> QED
        BY <2>6, <3>1 DEF LoadFails, SourceInv, ColdInv
    <2> QED
      BY <1>4, <2>1, <2>2, <2>3, <2>4, <2>5, <2>6
  <1>5. CASE PowerOn
    <2>1. PICK ws \in WakeSeen, sd \in Shutdowns :
            Firmware(nv, [wake |-> ws, reset |-> "NOT_APPLICABLE", shutdown |-> sd])
      BY <1>5 DEF PowerOn
    <2>2. CASE ~nv.osind
      <3>1. /\ nv' = nv /\ pc' = "begin" /\ rs' = "ERROR"
            /\ rsci'.reset = "NOT_APPLICABLE"
        BY <2>1, <2>2, FirmwareKeeps
      <3> QED
        BY <1>5, <2>2, <3>1 DEF PowerOn, SourceInv, ColdInv, Watchdogs
    \* The power went between the write of the rescue bit and the reset.
    <2>3. CASE nv.osind
      <3>1. /\ pc' = "rescue" /\ rs' = "ERROR" /\ ~nv'.osind
            /\ nv'.wdcold = nv.wdcold
        BY <2>1, <2>3 DEF Firmware, NvType
      <3> QED
        BY <1>5, <3>1 DEF PowerOn, SourceInv, ColdInv, Watchdogs
    <2> QED
      BY <2>2, <2>3
  <1>6. CASE PowerLoss \/ OsShutdown \/ UserPowersOff
    <2>1. nv' = nv /\ pc' = "off" /\ rs' = "ERROR" /\ h'.cause = "NOT_APPLICABLE"
      BY <1>6 DEF PowerLoss, OsShutdown, UserPowersOff, PowerOff, Forget, Ended
    <2>2. ~wd_cold_reset_done
      BY <1>6 DEF PowerLoss, OsShutdown, UserPowersOff, ColdInv
    <2> QED
      BY <2>1, <2>2 DEF SourceInv, ColdInv, Watchdogs
  <1>7. CASE OsReset \/ OsWatchdog
    <2>1. PICK r \in ResetSources :
            /\ Firmware(nv, ResetTable(r))
            /\ h'.cause = r
      BY <1>7, EnvAssumption DEF OsReset, OsWatchdog, Ended, ResetSources
    <2>2. ~nv.osind
      BY <1>7 DEF OsReset, OsWatchdog, SourceInv
    <2>3. /\ nv' = nv /\ pc' = "begin" /\ rs' = "ERROR"
          /\ rsci'.reset = r /\ rsci'.wake = "NOT_APPLICABLE"
      BY <2>1, <2>2, FirmwareKeeps DEF ResetTable
    <2>4. ~wd_cold_reset_done
      BY <1>7 DEF OsReset, OsWatchdog, ColdInv
    <2> QED
      BY <2>1, <2>2, <2>3, <2>4 DEF SourceInv, ColdInv
  <1>8. CASE OsRequestTarget \/ OsWriteBcb
    <2>1. nv'.wdcold = nv.wdcold /\ nv'.osind = nv.osind
      BY <1>8 DEF OsRequestTarget, OsWriteBcb, NvType
    <2> QED
      BY <1>8, <2>1 DEF OsRequestTarget, OsWriteBcb, SourceInv, ColdInv, local
  <1> QED
    BY <1>1, <1>2, <1>3, <1>4, <1>5, <1>6, <1>7, <1>8
    DEF Next, Loader, Environment

LEMMA SourceAlways ==
  ASSUME PlatformKeepsSource
  PROVE  Spec => [](TypeInv /\ SourceInv /\ ColdInv)
  <1>1. Init => SourceInv /\ ColdInv
    BY DEF Init, SourceInv, ColdInv, wd_cold_reset_done, LoopPcs, WdPcs, PreDispatch, Watchdogs
  <1>2. TypeInv /\ SourceInv /\ ColdInv /\ [Next]_vars => SourceInv' /\ ColdInv'
    BY SourceStep, NextType DEF TypedStep
  <1> QED
    BY <1>1, <1>2, InitType, NextType, PTL DEF Spec

\* The OS is told why it was booted, in the variable ResetSource and in the
\* firmware's table, although boot_watchdog may have reset the platform once
\* more on the way.
THEOREM ResetSourceSafe ==
  ASSUME PlatformKeepsSource
  PROVE  Spec => []ResetSourceReported
  <1>1. TypeInv /\ SourceInv /\ ColdInv => ResetSourceReported
    BY DEF SourceInv, ResetSourceReported, LoopPcs, PreDispatch
  <1> QED
    BY <1>1, SourceAlways, PTL

\* In a build with do_cold_reset_after_wd, no OS starts after a watchdog
\* reset before the platform has been cold-reset.
THEOREM ColdResetSafe ==
  ASSUME PlatformKeepsSource
  PROVE  Spec => []ColdResetAfterWatchdog
  <1>1. TypeInv /\ SourceInv /\ ColdInv => ColdResetAfterWatchdog
    BY DEF ColdInv, ColdResetAfterWatchdog, PreDispatch, WdPcs
  <1> QED
    BY <1>1, SourceAlways, PTL
-----------------------------------------------------------------------------
(***************************************************************************)
(* The watchdog counter.  A boot that a watchdog caused finds the image    *)
(* that hung in LoaderEntryLast, counts before it launches anything, and   *)
(* at the limit goes down the ladder from that image: the counter never    *)
(* lags behind the watchdog resets in a row of the image that runs.        *)
(***************************************************************************)
Ladder == {"BOOT", "CHARGING", "RECOVERY", "FASTBOOT", "DNX"}
Launchable == EntryTargets \ {"DNX"}

\* From t, no fallback of launch_or_fallback leads to r.
Leaves(t, r) == t \in Ladder /\ (r \in Ladder => LadderRank(r) < LadderRank(t))

DecidedPcs == {"hook_end", "hook_del"} \cup LoopPcs
FromOffPcs == {"forced_rtc", "forced_wdt", "from_off"}

\* Before the count, the image that hung is known.
HungKnown ==
    h.cause \in Watchdogs /\ pc \in PreDispatch \cup WdPcs =>
        /\ h.running \in Launchable
        /\ nv.last = target_to_name(h.running)
        /\ ~h.escalated
        /\ h.hangs <= wdt_counter + 1
        /\ pc \in {"begin", "inputs"} => rsci.wake = "NOT_APPLICABLE"
        /\ pc \in WdPcs \ {"wd"} => lastT = h.running

\* After it, the count includes the last hang, or the limit was reached and
\* the boot leaves that image.
HungCounted ==
    /\ h.cause \in Watchdogs /\ pc = "cases" =>
          h.escalated /\ h.running \in Launchable \ Ladder
    /\ h.cause \in Watchdogs /\ pc \in DecidedPcs =>
          \/ target = "COLD_OFF"
          \/ ~h.escalated /\ h.hangs <= wdt_counter
          \/ h.escalated /\ Leaves(target, h.running)

CountInv ==
    /\ h.cause \in Watchdogs => pc \notin FromOffPcs \cup {"off"}
    /\ h.cause \notin Watchdogs => h.hangs = 0 /\ ~h.escalated
    /\ h.hangs <= 3
    /\ pc = "os" => h.running \in Launchable /\ h.hangs <= wdt_counter
    /\ HungKnown
    /\ HungCounted

LEMMA CounterRange == nv \in NvType => wdt_counter \in 0 .. 2
  BY DEF NvType, wdt_counter

LEMMA LadderRankRange == \A t : LadderRank(t) \in 0 .. 3
  BY DEF LadderRank

\* The limit leaves every image that can have hung.
LEMMA LimitLeaves ==
  ASSUME NEW r \in Launchable
  PROVE  \/ fallback_target(r) = "UNKNOWN" /\ r \notin Ladder
         \/ fallback_target(r) # "UNKNOWN" /\ Leaves(fallback_target(r), r)
  BY DEF Launchable, EntryTargets, FactoryTargets, fallback_target, Leaves, Ladder, LadderRank

\* Neither the energy fallback nor the ladder leads back to it.
LEMMA EmLeaves ==
  ASSUME NEW t, NEW r, Leaves(t, r), NEW level, NEW charger
  PROVE  \/ em_fallback_target(t, level, charger) = "COLD_OFF"
         \/ Leaves(em_fallback_target(t, level, charger), r)
  BY DEF Leaves, Ladder, LadderRank, em_fallback_target

LEMMA FallbackLeaves ==
  ASSUME NEW t, NEW r, Leaves(t, r), fallback_target(t) # "UNKNOWN"
  PROVE  Leaves(fallback_target(t), r)
  BY DEF Leaves, Ladder, LadderRank, fallback_target

LEMMA LeavesIsStrict == \A r : ~Leaves(r, r)
  <1> SUFFICES ASSUME NEW r, Leaves(r, r) PROVE FALSE
    OBVIOUS
  <1>1. LadderRank(r) < LadderRank(r)
    BY DEF Leaves
  <1> QED
    BY <1>1, LadderRankRange

\* From the end of a boot's decision to the launch only the energy fallback
\* and the ladder choose the target.
LEMMA DecidedStep ==
  ASSUME "nv" \notin Faults
  PROVE  TypedStep /\ HungCounted /\ pc \in DecidedPcs /\ pc' \in DecidedPcs /\ Next
           => HungCounted'
  <1> SUFFICES ASSUME TypedStep, HungCounted, pc \in DecidedPcs, pc' \in DecidedPcs, Next
               PROVE  HungCounted'
    OBVIOUS
  <1> USE DEF TypedStep, TypeInv, TypeOK, DecidedPcs, LoopPcs, Goto
  <1>1. CASE HookBootlogicEnd
    BY <1>1 DEF HookBootlogicEnd, HungCounted, wdt_counter
  <1>2. CASE HookDeleteSaved
    <2>1. nv'.wdt = nv.wdt
      BY <1>2, WrittenKeeps DEF HookDeleteSaved
    <2> QED
      BY <1>2, <2>1 DEF HookDeleteSaved, HungCounted, wdt_counter, local
  <1>3. CASE EmFallback
    <2>1. PICK level \in get_battery_level, charger \in is_charger_present :
            /\ target' = em_fallback_target(target, level, charger)
            /\ target' # "COLD_OFF"
            /\ pc' = "save_del"
            /\ h' = [h EXCEPT !.low = level = "BOOT_CHARGING"]
      BY <1>3 DEF EmFallback, PowerOff
    <2>2. UNCHANGED nv /\ target # "COLD_OFF"
      BY <1>3, <2>1 DEF EmFallback, em_fallback_target
    <2>3. /\ h'.cause = h.cause /\ h'.escalated = h.escalated
          /\ h'.hangs = h.hangs /\ h'.running = h.running
      BY <2>1 DEF HistType
    <2> QED
      BY <1>3, <2>1, <2>2, <2>3, EmLeaves DEF EmFallback, HungCounted, wdt_counter
  <1>4. CASE SaveTargetMode
    <2>1. nv'.wdt = nv.wdt
      BY <1>4, WrittenKeeps DEF SaveTargetMode, SetEntryLast, delete_oneshot, write_last
    <2> QED
      BY <1>4, <2>1 DEF SaveTargetMode, SetEntryLast, HungCounted, wdt_counter, local
  <1>5. CASE LoadFails
    <2>1. /\ UNCHANGED nv /\ pc = "load" /\ target' = fallback_target(target)
          /\ fallback_target(target) # "UNKNOWN"
      BY <1>5 DEF LoadFails
    <2>2. /\ h'.cause = h.cause /\ h'.escalated = h.escalated
          /\ h'.hangs = h.hangs /\ h'.running = h.running
      BY <1>5 DEF LoadFails, HistType
    <2>3. target # "COLD_OFF"
      BY <2>1 DEF fallback_target
    <2> QED
      BY <2>1, <2>2, <2>3, FallbackLeaves DEF HungCounted, wdt_counter
  <1>6. ~(\/ Begin \/ BatteryNotOk \/ ReadWakeSource
          \/ ForcedShutdownRtc \/ ForcedShutdownWdt \/ TargetFromOff
          \/ GetResetSource \/ DeleteSavedResetSource \/ TargetFromInputs
          \/ TargetFromReset \/ BootWatchdog \/ WdClearFlag \/ WdSaveTargetMode
          \/ WdSaveResetSource \/ WdSetFlag \/ WdColdReset \/ WdCount)
    BY DEF Begin, BatteryNotOk, ReadWakeSource, ForcedShutdownRtc,
           ForcedShutdownWdt, TargetFromOff, GetResetSource, DeleteSavedResetSource,
           TargetFromInputs, TargetFromReset, BootWatchdog, WdClearFlag,
           WdSaveTargetMode, SetEntryLast, WdSaveResetSource, WdSetFlag, WdColdReset,
           WdCount
  <1>7. ~(\/ LoadTarget \/ GoToRescueMode \/ RescueReset \/ PowerOn \/ PowerLoss
          \/ OsRequestTarget \/ OsWriteBcb \/ OsReset \/ OsWatchdog \/ OsShutdown
          \/ UserPowersOff)
    BY DEF LoadTarget, GoToRescueMode, RescueReset, Firmware, PowerOn, PowerLoss, PowerOff,
           OsRequestTarget, OsWriteBcb, OsReset, OsWatchdog, OsShutdown, UserPowersOff
  <1> QED
    BY <1>1, <1>2, <1>3, <1>4, <1>5, <1>6, <1>7 DEF Next, Loader, Environment

LEMMA CountStep ==
  ASSUME PlatformKeepsSource, "nv" \notin Faults
  PROVE  TypedStep /\ SourceInv /\ ColdInv /\ SavedInv /\ CountInv => CountInv'
  <1> SUFFICES ASSUME TypedStep, SourceInv, ColdInv, SavedInv, CountInv, Next
               PROVE  CountInv'
    BY DEF TypedStep, CountInv, HungKnown, HungCounted, vars, wdt_counter
  <1> USE DEF TypedStep, TypeInv, TypeOK, PreDispatch, WdPcs, LoopPcs, DecidedPcs,
              FromOffPcs, Goto, PlatformKeepsSource
  <1>c. wdt_counter \in 0 .. 2 /\ h.hangs \in 0 .. 4
    BY CounterRange DEF HistType
  \* Up to the dispatch.
  <1>1. CASE \/ Begin \/ BatteryNotOk \/ ReadWakeSource
             \/ ForcedShutdownRtc \/ ForcedShutdownWdt \/ TargetFromOff
    <2>1. CASE Begin
      BY <2>1 DEF Begin, CountInv, HungKnown, HungCounted, wdt_counter, local
    <2>2. CASE BatteryNotOk
      BY <2>2 DEF BatteryNotOk, Decide, OrElse, CountInv, HungKnown, HungCounted, wdt_counter
    <2>3. CASE ReadWakeSource
      BY <2>3 DEF ReadWakeSource, CountInv, HungKnown, HungCounted, wdt_counter, local
    <2>4. CASE ForcedShutdownRtc
      <3>1. nv'.wdt = nv.wdt
        BY <2>4, WrittenKeeps DEF ForcedShutdownRtc
      <3> QED
        BY <2>4, <3>1 DEF ForcedShutdownRtc, CountInv, HungKnown, HungCounted, wdt_counter, local
    <2>5. CASE ForcedShutdownWdt
      BY <2>5 DEF ForcedShutdownWdt, CountInv, HungKnown, HungCounted, local
    <2>6. CASE TargetFromOff
      BY <2>6 DEF TargetFromOff, Decide, CountInv, HungKnown, HungCounted
    <2> QED
      BY <1>1, <2>1, <2>2, <2>3, <2>4, <2>5, <2>6
  <1>2. CASE GetResetSource \/ DeleteSavedResetSource \/ TargetFromInputs
    <2>1. CASE GetResetSource
      BY <2>1 DEF GetResetSource, CountInv, HungKnown, HungCounted, wdt_counter
    <2>2. CASE DeleteSavedResetSource
      <3>1. nv'.wdt = nv.wdt /\ nv'.last = nv.last
        BY <2>2, WrittenKeeps DEF DeleteSavedResetSource
      <3> QED
        BY <2>2, <3>1 DEF DeleteSavedResetSource, SourceInv, CountInv, HungKnown,
                          HungCounted, wdt_counter
    <2>3. CASE TargetFromInputs
      <3>1. rs = h.cause
        BY <2>3 DEF TargetFromInputs, SourceInv, RsKnownPcs
      <3> QED
        BY <2>3, <3>1 DEF TargetFromInputs, Decide, CountInv, HungKnown, HungCounted,
                          wdt_counter, Watchdogs
    <2> QED
      BY <1>2, <2>1, <2>2, <2>3
  \* boot_watchdog.
  <1>3. CASE \/ BootWatchdog \/ WdClearFlag \/ WdSaveTargetMode \/ WdSaveResetSource
             \/ WdSetFlag \/ WdColdReset
    <2>1. CASE BootWatchdog
      <3>1. h.cause \in Watchdogs
        BY <2>1 DEF BootWatchdog, SourceInv
      <3>2. get_entry_last = h.running
        BY <2>1, <3>1, NameRoundTrip
        DEF BootWatchdog, CountInv, HungKnown, Launchable, get_entry_last
      <3> QED
        BY <2>1, <3>1, <3>2 DEF BootWatchdog, CountInv, HungKnown, HungCounted, wdt_counter
    <2>2. CASE WdClearFlag
      <3>1. nv'.wdt = nv.wdt /\ nv'.last = nv.last
        BY <2>2, WrittenKeeps DEF WdClearFlag, uefi_set_wd_cold_reset
      <3> QED
        BY <2>2, <3>1 DEF WdClearFlag, CountInv, HungKnown, HungCounted, wdt_counter, local
    <2>3. CASE WdSaveTargetMode
      <3>1. nv'.wdt = nv.wdt
        BY <2>3, WrittenKeeps DEF WdSaveTargetMode, SetEntryLast, delete_oneshot, write_last
      <3>2. h.cause \in Watchdogs
        BY <2>3 DEF WdSaveTargetMode, SetEntryLast, SourceInv
      <3>3. nv'.last = nv.last \/ nv'.last = target_to_name(lastT)
        BY <2>3, WrittenKeeps DEF WdSaveTargetMode, SetEntryLast, delete_oneshot, write_last
      <3>4. nv'.last = target_to_name(h.running)
        BY <2>3, <3>2, <3>3 DEF WdSaveTargetMode, SetEntryLast, CountInv, HungKnown
      <3> QED
        BY <2>3, <3>1, <3>2, <3>4
        DEF WdSaveTargetMode, SetEntryLast, CountInv, HungKnown, HungCounted, wdt_counter, local
    <2>4. CASE WdSaveResetSource
      <3>1. nv'.wdt = nv.wdt /\ nv'.last = nv.last
        BY <2>4, WrittenKeeps DEF WdSaveResetSource
      <3> QED
        BY <2>4, <3>1 DEF WdSaveResetSource, CountInv, HungKnown, HungCounted, wdt_counter, local
    <2>5. CASE WdSetFlag
      <3>1. nv'.wdt = nv.wdt /\ nv'.last = nv.last
        BY <2>5, WrittenKeeps DEF WdSetFlag, uefi_set_wd_cold_reset
      <3> QED
        BY <2>5, <3>1 DEF WdSetFlag, CountInv, HungKnown, HungCounted, wdt_counter, local
    <2>6. CASE WdColdReset
      <3>1. PICK r \in ColdResetSeen : Firmware(nv, ResetTable(r))
        BY <2>6 DEF WdColdReset
      <3>2. nv' = nv /\ pc' = "begin" /\ rsci'.wake = "NOT_APPLICABLE"
        BY <2>6, <3>1, FirmwareKeeps DEF WdColdReset, SourceInv, ResetTable
      <3>3. /\ h'.cause = h.cause /\ h'.escalated = h.escalated
            /\ h'.hangs = h.hangs /\ h'.running = h.running
        BY <2>6 DEF WdColdReset, HistType
      <3> QED
        BY <2>6, <3>2, <3>3 DEF WdColdReset, CountInv, HungKnown, HungCounted, wdt_counter
    <2> QED
      BY <1>3, <2>1, <2>2, <2>3, <2>4, <2>5, <2>6
  <1>4. CASE WdCount
    <2>1. /\ h.cause \in Watchdogs /\ h.running \in Launchable
          /\ lastT = h.running /\ h.hangs <= wdt_counter + 1 /\ ~h.escalated
      BY <1>4 DEF WdCount, SourceInv, CountInv, HungKnown
    <2>2. h'.cause = h.cause /\ h'.hangs = h.hangs /\ h'.running = h.running
      BY <1>4 DEF WdCount, HistType
    <2>3. CASE wdt_counter + 1 >= WDT_LIMIT
      <3>1. WdReturn(fallback_target(h.running)) /\ h'.escalated
        BY <1>4, <2>1, <2>3 DEF WdCount, LimitTarget, HistType
      <3>2. CASE fallback_target(h.running) = "UNKNOWN" /\ h.running \notin Ladder
        BY <1>4, <2>1, <2>2, <3>1, <3>2
        DEF WdCount, WdReturn, CountInv, HungKnown, HungCounted
      <3>3. CASE /\ fallback_target(h.running) # "UNKNOWN"
                 /\ Leaves(fallback_target(h.running), h.running)
        BY <1>4, <2>1, <2>2, <3>1, <3>3
        DEF WdCount, WdReturn, Decide, OrElse, CountInv, HungKnown, HungCounted
      <3> QED
        BY <2>1, <3>2, <3>3, LimitLeaves
    <2>4. CASE ~(wdt_counter + 1 >= WDT_LIMIT)
      <3>1. WdReturn(h.running) /\ h' = h
        BY <1>4, <2>1, <2>4 DEF WdCount
      <3>2. nv'.wdt = wdt_counter + 1
        BY <1>4, <2>4, WrittenKeeps DEF WdCount
      <3>3. wdt_counter' = wdt_counter + 1
        BY <1>c, <3>2 DEF wdt_counter
      <3>4. h.running # "UNKNOWN"
        BY <2>1 DEF Launchable, EntryTargets, FactoryTargets
      <3> QED
        BY <1>4, <1>c, <2>1, <3>1, <3>3, <3>4
        DEF WdCount, WdReturn, Decide, CountInv, HungKnown, HungCounted
    <2> QED
      BY <2>3, <2>4
  <1>5. CASE TargetFromReset
    <2>1. UNCHANGED <<nv, h>> /\ pc = "cases" /\ pc' = "hook_end"
      BY <1>5 DEF TargetFromReset, Decide
    <2>2. ASSUME h.cause \in Watchdogs
          PROVE  target' \in {"BOOT", "RECOVERY"} /\ h.running \notin Ladder /\ h.escalated
      <3>1. h.running \notin Ladder /\ h.escalated
        BY <2>1, <2>2 DEF CountInv, HungCounted
      <3>2. rs \in {"ERROR"} \cup Watchdogs
        BY <2>2 DEF SourceInv
      <3>3. boot_fw_update = "UNKNOWN" /\ boot_reset = "UNKNOWN"
        BY <3>2 DEF boot_fw_update, boot_reset, Watchdogs
      <3>4. \A readable : boot_bcb(readable) \in {"RECOVERY", "UNKNOWN"}
        BY DEF boot_bcb
      <3> QED
        BY <1>5, <3>1, <3>3, <3>4 DEF TargetFromReset, Decide, OrElse
    <2> QED
      BY <2>1, <2>2 DEF CountInv, HungKnown, HungCounted, Leaves, Ladder
  \* From the decision to the launch.
  <1>6. CASE /\ HookBootlogicEnd \/ HookDeleteSaved \/ EmFallback \/ SaveTargetMode \/ LoadFails
             /\ pc' \in DecidedPcs
    <2>1. pc \in DecidedPcs
      BY <1>6 DEF HookBootlogicEnd, HookDeleteSaved, EmFallback, SaveTargetMode,
                  SetEntryLast, LoadFails
    <2>2. HungCounted'
      BY <1>6, <2>1, DecidedStep DEF CountInv
    <2>3. /\ h'.cause = h.cause /\ h'.escalated = h.escalated
          /\ h'.hangs = h.hangs /\ h'.running = h.running
      BY <1>6 DEF HookBootlogicEnd, HookDeleteSaved, EmFallback, PowerOff, SaveTargetMode,
                  LoadFails, HistType
    <2> QED
      BY <1>6, <2>2, <2>3 DEF CountInv, HungKnown
  <1>7. CASE LoadTarget
    <2>1. /\ UNCHANGED nv /\ pc = "load" /\ pc' = "os" /\ target \in Launchable
      BY <1>7 DEF LoadTarget, Launchable
    <2>2. /\ h'.cause = h.cause /\ h'.escalated = h.escalated /\ h'.running = target
          /\ h'.hangs = IF h.running = target THEN h.hangs ELSE 0
      BY <1>7 DEF LoadTarget, HistType
    <2>3. target # "COLD_OFF"
      BY <2>1 DEF Launchable, EntryTargets, FactoryTargets
    <2>4. h.running = target => h.hangs <= wdt_counter
      <3>1. CASE h.cause \in Watchdogs
        BY <2>1, <2>3, <3>1, LeavesIsStrict DEF CountInv, HungCounted
      <3>2. CASE h.cause \notin Watchdogs
        BY <1>c, <3>2 DEF CountInv
      <3> QED
        BY <3>1, <3>2
    <2>5. h'.hangs <= wdt_counter' /\ h'.hangs <= 3 /\ h'.hangs <= h.hangs
      BY <1>c, <2>1, <2>2, <2>4 DEF wdt_counter
    <2> QED
      BY <1>c, <2>1, <2>2, <2>5 DEF CountInv, HungKnown, HungCounted
  \* Ends of a boot.
  <1>8. CASE EmFallback /\ pc' \notin DecidedPcs
    BY <1>8 DEF EmFallback, PowerOff, Forget, Ended, CountInv, HungKnown, HungCounted, Watchdogs
  <1>9. CASE LoadFails /\ pc' \notin DecidedPcs
    <2>1. /\ h'.cause = h.cause /\ h'.escalated = h.escalated
          /\ h'.hangs = h.hangs /\ pc' = "exit"
      BY <1>9 DEF LoadFails, HistType
    <2> QED
      BY <2>1 DEF CountInv, HungKnown, HungCounted
  <1>10. CASE GoToRescueMode \/ RescueReset
    <2>1. pc' \in {"rescue_reset", "rescue"} /\ h' = h
      BY <1>10 DEF GoToRescueMode, RescueReset, Firmware
    <2> QED
      BY <2>1 DEF CountInv, HungKnown, HungCounted
  <1>11. CASE PowerLoss \/ OsShutdown \/ UserPowersOff
    <2>1. pc' = "off" /\ h' = Forget
      BY <1>11 DEF PowerLoss, OsShutdown, UserPowersOff, PowerOff
    <2> QED
      BY <2>1 DEF Forget, Ended, CountInv, HungKnown, HungCounted, Watchdogs
  \* The next boot.
  <1>12. CASE PowerOn
    <2>1. h' = h /\ h.cause \notin Watchdogs
      BY <1>12 DEF PowerOn, CountInv
    <2>2. pc' # "os"
      BY <1>12 DEF PowerOn, Firmware
    <2> QED
      BY <2>1, <2>2 DEF CountInv, HungKnown, HungCounted
  <1>13. CASE OsReset
    <2>1. PICK r \in OsResets :
            Firmware(nv, ResetTable(r)) /\ h' = Ended(r, 0, nv.oneshot)
      BY <1>13 DEF OsReset
    <2>2. h'.cause \notin Watchdogs /\ h'.hangs = 0 /\ ~h'.escalated /\ pc' # "os"
      BY <2>1, EnvAssumption DEF Ended, Firmware
    <2> QED
      BY <2>2 DEF CountInv, HungKnown, HungCounted
  <1>14. CASE OsWatchdog
    <2>1. PICK r \in OsWatchdogs :
            /\ Firmware(nv, ResetTable(r))
            /\ h' = Ended(r, IF h.hangs < HangBound THEN h.hangs + 1 ELSE HangBound,
                          "none")
      BY <1>14 DEF OsWatchdog
    <2>2. /\ h.hangs <= wdt_counter /\ h.running \in Launchable
          /\ nv.last = target_to_name(h.running)
      BY <1>14 DEF OsWatchdog, CountInv, SavedInv
    <2>3. nv' = nv /\ pc' = "begin" /\ rsci'.wake = "NOT_APPLICABLE"
      BY <1>14, <2>1, FirmwareKeeps DEF OsWatchdog, SourceInv, ResetTable
    <2>4. h'.hangs = h.hangs + 1 /\ h'.hangs <= 3
      BY <1>c, <2>1, <2>2 DEF Ended, HangBound
    <2>5. h'.running = h.running /\ h'.cause \in Watchdogs /\ ~h'.escalated
      BY <2>1, EnvAssumption DEF Ended
    <2>6. wdt_counter' = wdt_counter
      BY <2>3 DEF wdt_counter
    <2> QED
      BY <1>c, <2>2, <2>3, <2>4, <2>5, <2>6 DEF CountInv, HungKnown, HungCounted
  <1>15. CASE OsRequestTarget \/ OsWriteBcb
    <2>1. nv'.wdt = nv.wdt
      BY <1>15 DEF OsRequestTarget, OsWriteBcb, NvType
    <2> QED
      BY <1>15, <2>1 DEF OsRequestTarget, OsWriteBcb, CountInv, HungKnown, HungCounted,
                         wdt_counter, local
  <1>16. /\ HookBootlogicEnd \/ HookDeleteSaved => pc' \in DecidedPcs
         /\ SaveTargetMode => pc' \in DecidedPcs
    BY DEF HookBootlogicEnd, HookDeleteSaved, SaveTargetMode, SetEntryLast
  <1> QED
    BY <1>1, <1>2, <1>3, <1>4, <1>5, <1>6, <1>7, <1>8, <1>9, <1>10, <1>11,
       <1>12, <1>13, <1>14, <1>15, <1>16
    DEF Next, Loader, Environment

LEMMA CountAlways ==
  ASSUME PlatformKeepsSource, "nv" \notin Faults
  PROVE  Spec => [](TypeInv /\ CountInv)
  <1>1. Init => CountInv
    BY DEF Init, CountInv, HungKnown, HungCounted, Watchdogs
  <1>2. TypeInv /\ SourceInv /\ ColdInv /\ SavedInv /\ CountInv /\ [Next]_vars => CountInv'
    BY CountStep, NextType DEF TypedStep
  <1>3. Spec => [](SourceInv /\ ColdInv)
    BY SourceAlways, PTL
  <1>4. Spec => []SavedInv
    BY SavedAlways, PTL
  <1> QED
    BY <1>1, <1>2, <1>3, <1>4, InitType, NextType, PTL DEF Spec

\* The watchdog resets the same image at most three times in a row, as long
\* as the variable store works and, in a build that cold-resets, nothing
\* comes between the watchdog reset and the boot after the cold reset.
THEOREM HangsBoundedSafe ==
  ASSUME PlatformKeepsSource, "nv" \notin Faults
  PROVE  Spec => []HangsBounded
  <1>1. TypeInv /\ CountInv => HangsBounded
    BY DEF CountInv, HangsBounded
  <1> QED
    BY <1>1, CountAlways, PTL

\* Where an OS starts: a step from the load to the OS is a launch.
LEMMA LaunchStep ==
  ASSUME TypeInv, Next, pc = "load", pc' = "os"
  PROVE  LoadTarget
  <1>1. CommitStep
    BY CommitSteps DEF CommitPcs
  <1> QED
    BY <1>1 DEF CommitStep, EmFallback, SaveTargetMode, SetEntryLast,
                OsRequestTarget, OsWriteBcb

\* The boot that reaches the watchdog limit starts another image than the one
\* that hung, however many images of the ladder fail to load in it.
THEOREM EscalationSafe ==
  ASSUME PlatformKeepsSource, "nv" \notin Faults
  PROVE  Spec => EscalationLeavesHungTarget
  <1>1. TypeInv /\ CountInv /\ [Next]_vars
          => [pc = "load" /\ pc' = "os" /\ h.escalated => h'.running # h.running]_vars
    <2> SUFFICES ASSUME TypeInv, CountInv, Next, pc = "load", pc' = "os", h.escalated,
                        h'.running = h.running
                 PROVE  FALSE
      BY DEF vars
    <2>1. LoadTarget
      BY LaunchStep
    <2>2. target \in EntryTargets /\ h'.running = target
      BY <2>1 DEF LoadTarget, TypeInv, TypeOK, HistType
    <2>3. Leaves(target, h.running)
      BY <2>2 DEF CountInv, HungCounted, DecidedPcs, LoopPcs, EntryTargets, FactoryTargets
    <2> QED
      BY <2>2, <2>3, LeavesIsStrict
  <1> QED
    BY <1>1, CountAlways, PTL DEF Spec, EscalationLeavesHungTarget

-----------------------------------------------------------------------------
(***************************************************************************)
(* The one-shot request, from the reset the OS asked for to the launch.    *)
(***************************************************************************)
OsAsked == h.cause \in {"OS_INITIATED", "FORCED"}

AskedInv ==
    OsAsked =>
        /\ pc \notin FromOffPcs \cup {"off"}
        /\ pc \in PreDispatch \cup {"cases"} => nv.oneshot = h.asked
        /\ pc \in {"begin", "inputs"} => rsci.wake = "NOT_APPLICABLE"
        /\ /\ pc \in DecidedPcs
           /\ h.tried = {} /\ ~nv.bcb
           /\ name_to_target(h.asked) # "UNKNOWN"
           => \/ target = name_to_target(h.asked)
              \/ target = "COLD_OFF"
              \/ pc \in LoopPcs \ {"loop"} /\ h.low

LEMMA AskedStep ==
  ASSUME PlatformKeepsSource
  PROVE  TypedStep /\ SourceInv /\ ColdInv /\ AskedInv => AskedInv'
  <1> SUFFICES ASSUME TypedStep, SourceInv, ColdInv, AskedInv, Next
               PROVE  AskedInv'
    BY DEF TypedStep, AskedInv, OsAsked, vars
  <1> USE DEF TypedStep, TypeInv, TypeOK, PreDispatch, LoopPcs, DecidedPcs, FromOffPcs,
              Goto, PlatformKeepsSource
  \* No boot the OS asked for passes through these.
  <1>1. CASE \/ ForcedShutdownRtc \/ ForcedShutdownWdt \/ TargetFromOff
             \/ BootWatchdog \/ WdClearFlag \/ WdSaveTargetMode \/ WdSaveResetSource
             \/ WdSetFlag \/ WdColdReset \/ WdCount
    <2>1. h'.cause = h.cause
      BY <1>1 DEF ForcedShutdownRtc, ForcedShutdownWdt, TargetFromOff, BootWatchdog,
                  WdClearFlag, WdSaveTargetMode, WdSaveResetSource, WdSetFlag,
                  WdColdReset, WdCount, HistType
    <2>2. pc \in FromOffPcs \cup WdPcs
      BY <1>1 DEF ForcedShutdownRtc, ForcedShutdownWdt, TargetFromOff, BootWatchdog,
                  WdClearFlag, WdSaveTargetMode, SetEntryLast, WdSaveResetSource,
                  WdSetFlag, WdColdReset, WdCount, WdPcs
    <2>3. ~OsAsked
      BY <2>2 DEF AskedInv, SourceInv, OsAsked, Watchdogs
    <2> QED
      BY <2>1, <2>3 DEF AskedInv, OsAsked
  <1>2. CASE Begin \/ BatteryNotOk \/ ReadWakeSource
    BY <1>2 DEF Begin, BatteryNotOk, ReadWakeSource, Decide, OrElse, AskedInv, OsAsked, local
  <1>3. CASE GetResetSource
    BY <1>3 DEF GetResetSource, AskedInv, OsAsked
  <1>4. CASE DeleteSavedResetSource
    <2>1. nv'.oneshot = nv.oneshot
      BY <1>4, WrittenKeeps DEF DeleteSavedResetSource
    <2> QED
      BY <1>4, <2>1 DEF DeleteSavedResetSource, SourceInv, AskedInv, OsAsked
  <1>5. CASE TargetFromInputs
    <2>1. rs = h.cause
      BY <1>5 DEF TargetFromInputs, SourceInv, RsKnownPcs
    <2> QED
      BY <1>5, <2>1 DEF TargetFromInputs, Decide, AskedInv, OsAsked, Watchdogs
  <1>6. CASE TargetFromReset
    <2>1. UNCHANGED <<nv, h>> /\ pc = "cases" /\ pc' = "hook_end"
      BY <1>6 DEF TargetFromReset, Decide
    <2>2. ASSUME OsAsked, ~nv.bcb, name_to_target(h.asked) # "UNKNOWN"
          PROVE  target' = name_to_target(h.asked)
      <3>1. rs = h.cause
        BY <1>6 DEF TargetFromReset, SourceInv
      <3> QED
        BY <1>6, <2>2, <3>1 DEF TargetFromReset, Decide, OrElse, boot_bcb, boot_fw_update,
           boot_reset, get_entry_oneshot, AskedInv, OsAsked
    <2> QED
      BY <2>1, <2>2 DEF AskedInv, OsAsked
  <1>7. CASE HookBootlogicEnd
    BY <1>7 DEF HookBootlogicEnd, AskedInv, OsAsked
  <1>8. CASE HookDeleteSaved
    <2>1. nv'.bcb = nv.bcb
      BY <1>8, WrittenKeeps DEF HookDeleteSaved
    <2> QED
      BY <1>8, <2>1 DEF HookDeleteSaved, AskedInv, OsAsked, local
  <1>9. CASE EmFallback
    <2>1. CASE h' = Forget
      BY <2>1 DEF Forget, Ended, AskedInv, OsAsked
    <2>2. CASE h' # Forget
      <3>1. PICK level \in get_battery_level, charger \in is_charger_present :
              /\ target' = em_fallback_target(target, level, charger)
              /\ target' # "COLD_OFF"
              /\ pc' = "save_del"
              /\ h' = [h EXCEPT !.low = level = "BOOT_CHARGING"]
        BY <1>9, <2>2 DEF EmFallback
      <3>2. UNCHANGED nv /\ pc = "loop"
        BY <1>9 DEF EmFallback
      <3>3. /\ h'.cause = h.cause /\ h'.asked = h.asked /\ h'.tried = h.tried
            /\ h'.low = (level = "BOOT_CHARGING")
        BY <3>1 DEF HistType
      <3>4. h'.low \/ target' = target
        BY <3>1, <3>3 DEF em_fallback_target
      <3> QED
        BY <3>1, <3>2, <3>3, <3>4 DEF AskedInv, OsAsked
    <2> QED
      BY <2>1, <2>2
  <1>10. CASE SaveTargetMode
    <2>1. nv'.bcb = nv.bcb
      BY <1>10, WrittenKeeps DEF SaveTargetMode, SetEntryLast, delete_oneshot, write_last
    <2> QED
      BY <1>10, <2>1 DEF SaveTargetMode, SetEntryLast, AskedInv, OsAsked, local
  <1>11. CASE LoadTarget
    <2>1. h'.cause = h.cause /\ pc' = "os"
      BY <1>11 DEF LoadTarget, HistType
    <2> QED
      BY <2>1 DEF AskedInv, OsAsked
  <1>12. CASE LoadFails
    <2>1. h'.cause = h.cause /\ h'.tried # {} /\ pc' \in {"exit", "loop"}
      BY <1>12 DEF LoadFails, HistType
    <2> QED
      BY <2>1 DEF AskedInv, OsAsked
  <1>13. CASE GoToRescueMode \/ RescueReset
    <2>1. pc' \in {"rescue_reset", "rescue"} /\ h' = h
      BY <1>13 DEF GoToRescueMode, RescueReset, Firmware
    <2> QED
      BY <2>1 DEF AskedInv, OsAsked
  <1>14. CASE PowerOn
    BY <1>14 DEF PowerOn, SourceInv, AskedInv, OsAsked
  <1>15. CASE PowerLoss \/ OsShutdown \/ UserPowersOff
    BY <1>15 DEF PowerLoss, OsShutdown, UserPowersOff, Forget, Ended, AskedInv, OsAsked
  <1>16. CASE OsReset
    <2>1. PICK r \in OsResets :
            Firmware(nv, ResetTable(r)) /\ h' = Ended(r, 0, nv.oneshot)
      BY <1>16 DEF OsReset
    <2>2. nv' = nv /\ pc' = "begin" /\ rsci'.wake = "NOT_APPLICABLE"
      BY <1>16, <2>1, FirmwareKeeps DEF OsReset, SourceInv, ResetTable
    <2> QED
      BY <2>1, <2>2 DEF Ended, AskedInv, OsAsked
  <1>17. CASE OsWatchdog
    <2>1. h'.cause \in Watchdogs
      BY <1>17, EnvAssumption DEF OsWatchdog, Ended
    <2> QED
      BY <2>1 DEF AskedInv, OsAsked, Watchdogs
  <1>18. CASE OsRequestTarget \/ OsWriteBcb
    BY <1>18 DEF OsRequestTarget, OsWriteBcb, AskedInv, OsAsked
  <1> QED
    BY <1>1, <1>2, <1>3, <1>4, <1>5, <1>6, <1>7, <1>8, <1>9, <1>10, <1>11,
       <1>12, <1>13, <1>14, <1>15, <1>16, <1>17, <1>18
    DEF Next, Loader, Environment

\* The image that a resetting OS named is the one that starts, unless a BCB
\* request, a low battery or an image that does not load comes in between.
THEOREM OneShotHonouredSafe ==
  ASSUME PlatformKeepsSource
  PROVE  Spec => OneShotHonoured
  <1>1. Init => AskedInv
    BY DEF Init, AskedInv, OsAsked
  <1>2. TypeInv /\ SourceInv /\ ColdInv /\ AskedInv /\ [Next]_vars => AskedInv'
    BY AskedStep, NextType DEF TypedStep
  <1>3. TypeInv /\ AskedInv /\ [Next]_vars =>
          [/\ pc = "load" /\ pc' = "os"
           /\ h.cause \in {"OS_INITIATED", "FORCED"}
           /\ name_to_target(h.asked) # "UNKNOWN"
           /\ ~nv.bcb /\ ~h.low /\ h.tried = {}
           => h'.running = name_to_target(h.asked)]_vars
    <2> SUFFICES ASSUME TypeInv, AskedInv, Next, pc = "load", pc' = "os",
                        h.cause \in {"OS_INITIATED", "FORCED"},
                        name_to_target(h.asked) # "UNKNOWN",
                        ~nv.bcb, ~h.low, h.tried = {}
                 PROVE  h'.running = name_to_target(h.asked)
      BY DEF vars
    <2>1. LoadTarget
      BY LaunchStep
    <2>2. target \in EntryTargets /\ h'.running = target
      BY <2>1 DEF LoadTarget, TypeInv, TypeOK, HistType
    <2>3. target # "COLD_OFF"
      BY <2>2 DEF EntryTargets, FactoryTargets
    <2> QED
      BY <2>2, <2>3 DEF AskedInv, OsAsked, DecidedPcs, LoopPcs
  <1> QED
    BY <1>1, <1>2, <1>3, SourceAlways, InitType, NextType, PTL
    DEF Spec, OneShotHonoured
=============================================================================
