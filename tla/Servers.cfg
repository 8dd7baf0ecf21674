SPECIFICATION MCSpec
CONSTANTS
    Hashes = {h1, h2}
    NoHash = NoHash
    MaxHeight = 1
    ServerBudgets <- MCServerBudgets
    Wallets = {w1, w2, w3}
    MaxRows = 2
    ChallengeTtl = 1
    SessionTtl = 2
    MaxTime = 3
    MaxNonce = 3
    Accounts = {a, b}
    Nobody = Nobody
    PageBudgets <- MCPageBudgets
    Controls = {fund, stop}
    Stops = {stop}
    BackupIds = {b1, b2}
    MaxBatches = 2
    ServiceBudgets <- MCServiceBudgets
INVARIANTS
    SessionsEnd
    RecordKept
    CopiesTrue
PROPERTIES
    ReportsStand
    NothingStuck
CHECK_DEADLOCK FALSE
