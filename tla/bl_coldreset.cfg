CONSTANTS
  do_cold_reset_after_wd = TRUE
  CONFIG_ENABLE_FACTORY_MODES = FALSE
  OsNames = {"android", "recovery", "factory"}
  OsEvents = {"oneshot", "bcb", "reset", "watchdog", "shutdown"}
  OsResets = {"OS_INITIATED", "FORCED"}
  OsWatchdogs = {"KERNEL_WATCHDOG", "PMC_WATCHDOG"}
  WakeSeen = {"NOT_APPLICABLE", "POWER_BUTTON_PRESSED", "RTC_TIMER", "ACDC_CHARGER_INSERTED"}
  Shutdowns = {"NOT_APPLICABLE", "POWER_BUTTON_OVERRIDE"}
  ColdResetSeen = {"OS_INITIATED", "NOT_APPLICABLE"}
  Faults = {"disk"}
SPECIFICATION Spec
INVARIANTS
  ResetSourceReported
  ColdResetAfterWatchdog
