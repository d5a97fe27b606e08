CONSTANTS
  do_cold_reset_after_wd = TRUE
  CONFIG_ENABLE_FACTORY_MODES = FALSE
  OsNames = {"android"}
  OsEvents = {"watchdog"}
  OsResets = {"OS_INITIATED"}
  OsWatchdogs = {"KERNEL_WATCHDOG", "PLATFORM_WATCHDOG"}
  WakeSeen = {"POWER_BUTTON_PRESSED", "RTC_TIMER"}
  Shutdowns = {"NOT_APPLICABLE", "POWER_BUTTON_OVERRIDE"}
  ColdResetSeen = {"OS_INITIATED", "NOT_APPLICABLE"}
  Faults = {"disk"}
SPECIFICATION StormSpec
PROPERTIES
  StormReachesRescue
