CONSTANTS
  Crashes = 3
  Faults = {"disk", "heap", "nv", "power"}
SPECIFICATION Spec
INVARIANTS
  CrashLogReachesOs
  NothingLeftOver
PROPERTIES
  KeptUntilInjected
CHECK_DEADLOCK FALSE
