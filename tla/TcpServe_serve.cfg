CONSTANTS
    Endpoints = {e1, e2}
    Conns = {c1, c2}
    FdLimit = 8
    MaxAddrs = 3
    HasTimeout = TRUE
    ProxyOn = {e1}
    TransportOn = {e2}
    PipeFds = 4
    KeepaliveRefused = TRUE
    UseUdp = FALSE
SPECIFICATION FairSpec
CHECK_DEADLOCK FALSE
INVARIANT TypeOK
PROPERTIES ReachesRemote AcceptedSettles BacklogServed
