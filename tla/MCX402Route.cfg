CONSTANTS
    Handlers = {h1}
    Routes = {r1, r2}
    Inputs = {i1}
    Oversized = {}
    Memos = {m1}
    Txs = {t1}
    Tokens = {k1, k2, k3}
    Responses = {s1, s2}
    NoLease = NoLease
    NoBinding = NoBinding
    NoResponse = NoResponse
    NoTx = NoTx
    LeaseSecs = 1
    FailRetrySecs = 1
    ChallengeSecs = 2
    PurgeLimit = 1
    RequestTimeout = 1
    MaxTime = 3
SPECIFICATION Spec
INVARIANTS ChallengeBoundToRoute
SYMMETRY Symm
