SPECIFICATION Spec
CONSTANTS
    MaxPid = 3
    MaxSectors = 2
    MaxKeys = 2
    Machines = {"emulated", "reading"}
    ErrorCodes = {}
INVARIANTS TypeOK NoHang FlagsNameWaiters ParentsWait ReadsAnswered
PROPERTIES UsesScheduler ReadsEnd KeysAreSeen ParentsResume
