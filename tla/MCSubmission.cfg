SPECIFICATION FairSpec
CONSTANTS
    Genesis = "5eykt4UsLoyBJaSfb9PRppPPjqSV4kt3Kg8ndRVYMQ"
    Program = "agentbond"
    Payer = "payer"
    Plans <- PlanFiles
    Arguments <- CommandLines
    MaxAttempts = 2
    BlockhashAge = 1
    ClusterLag = 1
    MaxTime = 3
    MaxInvocations = 3
INVARIANTS
    OkMeansApplied
    SentIsChecked
    DuplicateOnlyAfterRpcError
PROPERTIES
    SendEnds
CHECK_DEADLOCK FALSE
