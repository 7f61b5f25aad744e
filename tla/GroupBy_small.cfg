CONSTANTS
    Addrs = {a1, a2, a3}
    MaxN = 7
SPECIFICATION Spec
CHECK_DEADLOCK FALSE
INVARIANTS TypeOK GroupsTile OneGroupPerClient Permutes LeadGroupInOrder
