\* Every part of the power-on self test, on small machines.  Memory is counted in
\* units of 2 KB and the like; each part ends, so does a behaviour.
SPECIFICATION PostSpec
CONSTANTS
    Parts = {"memory", "smp", "roms", "boot", "pci", "tables", "host", "ports", "bell"}
    KB = 4  MinAlign = 2  PageSize = 4  InfoSize = 3  StackAddr = 12
    EbdaMinimum = 24  LowramEnd = 40  BiosAddr = 48  BiosSize = 8
    TableSpace = 50  MaxBiosTable = 4  MaxHighTable = 8
    FlashSize = 4  KvmSize = 2  FourG = 128  MaxE820 = 14
    RamSizes = {56, 90}  HighSizes = {8}  Sizes = {2, 6}  MaxAllocs = 2  MaxSteals = 1
    CfgLists <- MCCfgLists
    Aps = {a1, a2}  Apics = {TRUE, FALSE}  VCounts = {0, 1, 8}  TableSize = 16  MaxCpus = {0, 8}
    RomStart = 0  BiosStart = 48  MaxRom = 40  Wrap = 256  RomAlign = 4  Half = 8
    MaxRoms = 3  TableMax = 2  RomKinds <- MCRomKinds
    BootDrives <- MCDrives  Floppies = 2  BcvMax = 4  ExternalBcvs = 2  Bevs = 1  Cds = 2
    Nibbles = {0, 1, 2, 4, 5}  MaxBoots = 6
    BusSize = 32  IoStart = 16  MemStart = 32  LegacyPorts <- MCLegacyPorts  PciLayouts <- MCLayouts
    Low640K = 5  HighStart = 8  FourGig = 32  MaxAcpiTables = 10  DeviceMax = 24  SmbiosTemp = 300
    Platforms <- MCPlatforms
    Machines <- MCMachines  EhciPorts = {1, 2, 3}  PortKinds = {"none", "low", "full", "high"}
    EPipes = {1, 2, 3}  MaxRings = 4
INVARIANTS
    MapIsExact MemoryKept ProbeComplete   PciSetUp  
CHECK_DEADLOCK FALSE
