SPECIFICATION AllSpec
CONSTANTS
    DeviceLists <- MCDeviceLists
    Labels = {"boot", "data", "other", ""}
    Types = {"null", "linux"}
    Null = "null"
    Unnamed = ""
    MaxFaults = 3
    MaxCalls = 3
    Page = 2
    Megabyte = 6
    UintnMod = 64
    PhysMod = 64
    RegionTypes = {"Conventional", "LoaderData", "RuntimeServicesData", "Persistent"}
    MaxRegions = 3
    MaxPages = 4
    MaxGap = 1
    Sizes = {1, 2, 3, 4, 7}
    Aligns = {1, 4, 8}
    MaxWidth = 10
    MaxHeight = 3
    Depths = {1, 4, 8, 16, 24}
    ProductMod = 128
    Screens <- MCScreens
    VoltMod = 8
    CapMod = 8
    Voltages = {0, 1, 3, 4, 6}
    Capacities = {0, 1, 2, 3, 6}
    Oem1Tables <- MCOem1Tables
INVARIANTS
    CacheOK
    PublishedIsTarget
    EmallocFits
    E820SameMemory
    PixelsRight
    NoTableNoOs
PROPERTIES
    ImplementsTable
CHECK_DEADLOCK FALSE
