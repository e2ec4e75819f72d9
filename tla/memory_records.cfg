SPECIFICATION Spec
CONSTANTS
    PAGE_SIZE = 4096
    TABLE = 8
    KTABLES = 3
    S = 8
    MaxProcess = 1
    MaxFrame = 24
    MaxTable = 11
    MaxHeap = 5
    MaxCalls = 5
    Sizes = {40, 8192}
    KernelSizes = {512}
    Freed = {8192}
    Counts = {4100}
    Offsets = {4}
    Locals = {4000}
    Images = {}
    BootImages = {4200}
INVARIANTS NeverFaults
CHECK_DEADLOCK FALSE
