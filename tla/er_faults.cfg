CONSTANTS
  Lbas <- MCLbas
  Partitions <- MCPartitions
  LastLba = 10
  erase_grp_size = 4
  N_BLOCK = 3
  Faults = {"label", "sdio", "media", "card"}
SPECIFICATION Spec
INVARIANTS
  TypeOK
  WholeGroupsErased
PROPERTIES
  ImplementsPartUpdate
