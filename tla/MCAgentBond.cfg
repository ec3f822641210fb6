CONSTANTS
    Parties = {b1, p1}
    Buyers = {b1}
    Providers = {p1}
    Nobody = Nobody
    Nonces = {n1, n2}
    Keys = {key1}
    MaxKeys = 4
    Requests = {r1}
    ZeroHash = ZeroHash
    NoReceipt = NoReceipt
    Amounts = {0, 1}
    MinBonds = {0, 1}
    Durations = {0, 2}
    Schedules <- MCSchedules
    Windows <- MCWindows
    MaxTime = 5
    InitialWallet <- MCWallet
SPECIFICATION Spec
INVARIANTS
    TypeOK LockedBondExact BondBacked EscrowBacked ResolutionNeverFails
    ChallengeMatchesJob
    ReceiptMatchesState
PROPERTIES
    OutcomeByDeadline SlashBounded
SYMMETRY Symm
