SPECIFICATION Spec
CONSTANTS
    File = {"a", "b"}
    FatSectors = 2
    PerSector = 4
    Sector = 2
    SecPerClstr = 1
    Word = 32
    MaxCount = 4
PROPERTY AllocatesFree
