CONSTANTS
    Endpoints = {e1, e2}
    Conns = {c1, c2}
    FdLimit = 3
    MaxAddrs = 1
    HasTimeout = TRUE
    ProxyOn = {}
    TransportOn = {}
    PipeFds = 0
    KeepaliveRefused = FALSE
    UseUdp = FALSE
SPECIFICATION Spec
CHECK_DEADLOCK FALSE
INVARIANTS RefsValid
