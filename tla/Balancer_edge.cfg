CONSTANTS
    MaxEntries = 5
    MaxWeight = 3
    MaxCalls = 15
    Half = 16
    MaxRemotes = 3
    MaxHash = 2
    MinReplica = 2
    RatioCap = 3
    RingEntries = 2
    RingWeight = 2
SPECIFICATION Spec
CHECK_DEADLOCK FALSE
INVARIANTS TypeOK ExactCredit TokensNameRemotes
