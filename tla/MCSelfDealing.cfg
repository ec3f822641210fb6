CONSTANTS
    Parties = {a1}
    Buyers = {a1}
    Providers = {a1}
    Nobody = Nobody
    Nonces = {n1, n2}
    Keys = {key1, key2, key3}
    MaxKeys = 2
    Requests = {r1}
    ZeroHash = ZeroHash
    NoReceipt = NoReceipt
    Amounts = {0, 1, 2}
    MinBonds = {1}
    Durations = {1}
    Schedules <- OneSchedule
    Windows <- OneWindow
    MaxTime = 4
    InitialWallet <- FourTokens
SPECIFICATION Spec
PROPERTIES ImplementsFairExchange RevocationTakesEffect
INVARIANTS KeyListSound
SYMMETRY Symm
