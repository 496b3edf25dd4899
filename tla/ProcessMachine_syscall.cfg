SPECIFICATION GateSpec
CONSTANTS
    GateUsers = {u1, u2}
    MaxEntries = 2
    Pids = {0, 1}
    RegisterSize = 256
    BufferLength = 7
    WordBytes = 2
    SmallMax = 2
    ErmsThreshold = 5
    MaxCopies = 1
INVARIANT SyscallsReturn
CHECK_DEADLOCK FALSE
