SPECIFICATION Spec
CONSTANTS
    PAGE_SIZE = 4096
    TABLE = 8
    KTABLES = 3
    S = 8
    MaxProcess = 2
    MaxFrame = 24
    MaxTable = 11
    MaxHeap = 3
    MaxCalls = 7
    Sizes = {40, 2047, 4090, 8192}
    KernelSizes = {512}
    Freed = {40, 512, 2047, 4090, 8192}
    Counts = {4097, 4100}
    Offsets = {0, 4}
    Locals = {4000}
    Images = {100}
    BootImages = {4200}
INVARIANTS BlocksDisjoint RecordsApart BlocksBacked FramesApart
PROPERTIES BlocksStay 
CHECK_DEADLOCK FALSE
