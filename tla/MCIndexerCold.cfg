CONSTANTS
    a1 = a1
    t1 = t1
    Addrs = {a1}
    Txs = {t1}
    MaxSlot = 2
    MaxVersion = 2
    MaxAncestryDepth = 3
    NoParent = NoParent
    NoRow = NoRow
    NoGap = NoGap
    Contents <- SingleWrites
    Levels = {"processed", "finalized"}
    Statuses = {"processed", "confirmed", "finalized", "dead"}
    StartSlot = 0
    MaxBlocks = 4
    QueueMax = 1
    MaxBackfill = 2
    OmitParents = {}
    MaxFaults = 1
SPECIFICATION Spec
INVARIANTS NothingStranded
CHECK_DEADLOCK FALSE
