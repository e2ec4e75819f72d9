SPECIFICATION Spec
CONSTANTS
    MaxPid = 1
    MaxSectors = 2
    MaxKeys = 1
    Machines = {"real"}
    ErrorCodes = {}
INVARIANT DataReady
CHECK_DEADLOCK FALSE
