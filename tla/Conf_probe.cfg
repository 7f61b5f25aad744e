CONSTANTS
    NParts = 1
    PortMax = 1
    MaxRanges = 1
    MaxRemotes = 1
    MaxAddrs = 1
SPECIFICATION Spec
CHECK_DEADLOCK FALSE
INVARIANT FlagsHeeded
