SPECIFICATION Spec
CONSTANTS
    Disks <- MCDisks
    Bits = 4
    LastLetter = 2
    MaxCount = 3
INVARIANTS CachesApart ReachesOwnDrive ScanComplete
CHECK_DEADLOCK FALSE
