CONSTANTS
    NParts = 2
    PortMax = 3
    MaxRanges = 2
    MaxRemotes = 1
    MaxAddrs = 2
SPECIFICATION Spec
CHECK_DEADLOCK FALSE
INVARIANTS Precedence DnsAsAsked LegacyPairs
