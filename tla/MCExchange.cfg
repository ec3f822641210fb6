CONSTANTS
    Parties = {b1, p1}
    Buyers = {b1}
    Providers = {p1}
    Nobody = Nobody
    Nonces = {n1}
    Keys = {key1}
    MaxKeys = 4
    Requests = {r1}
    ZeroHash = ZeroHash
    NoReceipt = NoReceipt
    Amounts = {1}
    MinBonds = {1}
    Durations = {1}
    Schedules <- LongSchedule
    Windows <- OneWindow
    MaxTime = 5
    InitialWallet <- BuyerRich
SPECIFICATION PlannedSpec
PROPERTIES ImplementsFairExchange  PlanForEveryInstruction
INVARIANTS PlanFits
