CONSTANTS
  InitPages = 4
  KernelPages = 3
  CmdlinePages = 1
  CmdlineBytes = 6
  NVolumes = 2
  MaxAttempts = 2
  Faults = {"heap", "pages", "map", "disk", "image", "exit", "platform"}
SPECIFICATION Spec
INVARIANTS
  EfreeWholeAllocation
CHECK_DEADLOCK FALSE
