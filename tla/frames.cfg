SPECIFICATION Spec
CONSTANTS
    Bits = 2
    BITMAP_SIZE = 6
    RESERVED_ALLOCATION_START = 2
    RESERVED_FRAMES = 6
    STACK_SIZE = 2
INVARIANTS OwnedOnce RegionsKept
