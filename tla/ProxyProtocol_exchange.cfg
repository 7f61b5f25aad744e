CONSTANTS
    HdrLens = {1, 3, 4}
    PayLen = 2
    PeekCap = 3
    HasTimeout = TRUE
    Versions = {1, 2, 3}
SPECIFICATION FairSpec
CHECK_DEADLOCK FALSE
INVARIANTS TypeOK PayloadIntact AbortsOnlyOnVersion TellsTheClient
PROPERTY ExchangeEnds
