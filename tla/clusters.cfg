SPECIFICATION Spec
CONSTANTS
    File = {a, b}
    FatSectors = 1
    PerSector = 6
    Sector = 2
    SecPerClstr = 2
    Word = 32
    MaxCount = 4
SYMMETRY Symmetry
INVARIANTS TypeOK ChainsApart NoneLost Covered
PROPERTY AllocatesFree
