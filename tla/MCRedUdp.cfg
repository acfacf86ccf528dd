SPECIFICATION Spec
CONSTANTS
    Addrs = {a1, a2}
    Dests = {d1, d2}
    max_pktqueue = 2
    MaxPkts = 4
INVARIANTS
    RefCountsHolders
    InOrder
CHECK_DEADLOCK FALSE
