CONSTANTS
    Handlers = {h1, h2}
    Routes = {r1, r2}
    Inputs = {i1, i2}
    Oversized = {i2}
    Memos = {m1}
    Txs = {t1}
    Tokens = {k1, k2}
    Responses = {s1, s2}
    NoLease = NoLease
    NoBinding = NoBinding
    NoResponse = NoResponse
    NoTx = NoTx
    LeaseSecs = 1
    FailRetrySecs = 1
    ChallengeSecs = 1
    PurgeLimit = 1
    RequestTimeout = 2
    MaxTime = 2
SPECIFICATION FairSpec
INVARIANTS TypeOK SettleExclusive ServedIsPaid
PROPERTIES ImplementsSettleOnce RequestsEnd
