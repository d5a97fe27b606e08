CONSTANTS
  do_cold_reset_after_wd = TRUE
  CONFIG_ENABLE_FACTORY_MODES = FALSE
  OsNames = {"recovery"}
  OsEvents = {"reset", "watchdog"}
  OsResets = {"OS_INITIATED"}
  OsWatchdogs = {"KERNEL_WATCHDOG"}
  WakeSeen = {"POWER_BUTTON_PRESSED"}
  Shutdowns = {"POWER_BUTTON_OVERRIDE"}
  ColdResetSeen = {"NOT_APPLICABLE"}
  Faults = {"nv", "disk", "acpi"}
SPECIFICATION FairSpec
PROPERTIES
  BootEnds
