CONSTANTS
  Sizes = {1, 2, 3}
  MAX_DOWNLOAD_SIZE = 2
  HeapSize = 3
  MaxDownloads = 3
  NVars = 3
  Commands = {"getvar", "getvar_all", "download", "flash", "erase", "boot", "reboot", "other"}
  Faults = {"unplug", "short", "boot", "exit", "media"}
SPECIFICATION FairSpec
INVARIANTS
  TypeOK
  ReadMatchesState
  RxConsistent
  NoStaleResponse
PROPERTIES
  ImageComplete
  EveryCommandAnswered
