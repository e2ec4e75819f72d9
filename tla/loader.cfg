SPECIFICATION Spec
CONSTANTS
    Configs <- MCConfigs
    Tables <- MCTables
    Directories <- MCDirectories
    Chains <- MCChains
    FileSizes = {1, 4, 5, 7, 8, 9}
    SectorSize = 2
    TicksPerSecond = 3
    sectors_per_cluster = 2
    FatOffset = 2
    DataOffset = 600
    DiskSectors = 200000
    BitOr <- MCBitOr
INVARIANTS TypeOK StartedRight
PROPERTIES HighlightStays UnattendedBoots
CHECK_DEADLOCK FALSE
