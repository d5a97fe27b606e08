CONSTANTS
  do_cold_reset_after_wd = FALSE
  CONFIG_ENABLE_FACTORY_MODES = TRUE
  OsNames = {"android", "bootloader", "charging", "factory", "bogus"}
  OsEvents = {"oneshot", "bcb", "reset", "watchdog", "shutdown"}
  OsResets = {"OS_INITIATED", "FW_UPDATE"}
  OsWatchdogs = {"KERNEL_WATCHDOG"}
  WakeSeen = {"NOT_APPLICABLE", "POWER_BUTTON_PRESSED", "BATTERY_INSERTED", "USB_CHARGER_INSERTED"}
  Shutdowns = {"NOT_APPLICABLE", "POWER_BUTTON_OVERRIDE"}
  ColdResetSeen = {"OS_INITIATED", "NOT_APPLICABLE"}
  Faults = {"power", "battery", "disk"}
SPECIFICATION Spec
INVARIANTS
  TypeOK
  LastIsRunning
  NoRetry
  LowBatteryStartsNoMainOs
  HangsBounded
PROPERTIES
  OneShotHonoured
  EscalationLeavesHungTarget
  OneShotConsumed
