SPECIFICATION Spec
CONSTANTS
    Genesis = "5eykt4UsFv8P8NJdTREpY1vzqKqZKvdpKuc147dw2N9d"
    Program = "agentbond"
    Payer = "payer"
    Plans <- PlanFiles
    Arguments <- CommandLines
    MaxAttempts = 2
    BlockhashAge = 1
    ClusterLag = 1
    MaxTime = 3
    MaxInvocations = 3
INVARIANTS
    MainnetNeedsConsent
CHECK_DEADLOCK FALSE
