CONSTANTS
    Clients = {c1, c2}
    MaxSocks = 2
    MaxPkts = 1
    HasTimeout = TRUE
    MultiThread = TRUE
SPECIFICATION Spec
CHECK_DEADLOCK FALSE
INVARIANTS RemovedStaysRemoved
