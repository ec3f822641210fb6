CONSTANTS
    a1 = a1
    t1 = t1
    Addrs = {a1}
    Txs = {t1}
    MaxSlot = 3
    MaxVersion = 2
    MaxAncestryDepth = 3
    NoParent = NoParent
    NoRow = NoRow
    NoGap = NoGap
    Contents <- Lifecycles
    Levels = {"processed", "finalized"}
    Statuses = {"processed", "confirmed", "finalized", "dead"}
    StartSlot = 1
    MaxBlocks = 4
    QueueMax = 1
    MaxBackfill = 1
    OmitParents = {}
    MaxFaults = 1
SPECIFICATION FairSpec
INVARIANTS TypeOK PublicIsRooted NothingStranded NewestWins FailsOnlyUndated ReadsFinalState
PROPERTIES StagedIsProjected
CHECK_DEADLOCK FALSE
