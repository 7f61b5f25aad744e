CONSTANTS
    HdrLen = 3
    MaxPayload = 3
SPECIFICATION FairSpec
CHECK_DEADLOCK FALSE
INVARIANTS PayloadAligned AcceptsPrefixesOnly
PROPERTY PayloadArrives
