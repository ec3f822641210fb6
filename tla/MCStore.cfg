CONSTANTS
    Addrs = {a1}
    Txs = {t1}
    MaxSlot = 2
    MaxVersion = 1
    MaxAncestryDepth = 2
    NoParent = NoParent
    NoRow = NoRow
SPECIFICATION StoreSpec
INVARIANTS StagedIsPending ProjectionBacked CheckpointSound
PROPERTIES SlotsSettle
CHECK_DEADLOCK FALSE
