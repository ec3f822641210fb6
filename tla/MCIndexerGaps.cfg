CONSTANTS
    a1 = a1
    t1 = t1
    Addrs = {a1}
    Txs = {t1}
    MaxSlot = 4
    MaxVersion = 2
    MaxAncestryDepth = 3
    NoParent = NoParent
    NoRow = NoRow
    NoGap = NoGap
    Contents <- Empty
    Levels = {"processed", "confirmed", "finalized", "dead"}
    Statuses = {"processed", "confirmed", "finalized", "dead"}
    StartSlot = 1
    MaxBlocks = 2
    QueueMax = 1
    MaxBackfill = 1
    OmitParents = {4}
    MaxFaults = 1
SPECIFICATION ReadSpec
INVARIANTS GapsRecorded StatusComplete
CHECK_DEADLOCK FALSE
