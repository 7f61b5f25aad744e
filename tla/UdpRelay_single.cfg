CONSTANTS
    Clients = {c1, c2}
    MaxSocks = 2
    MaxPkts = 2
    HasTimeout = TRUE
    MultiThread = FALSE
SPECIFICATION FairSpec
CHECK_DEADLOCK FALSE
INVARIANTS TypeOK LiveIsMapped MappedIsLive NoSilentLoss
PROPERTIES BatchEnds AssociationExpires
