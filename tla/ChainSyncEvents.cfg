SPECIFICATION MCSpec
CONSTANTS
    Blocks <- MCBlocks
    NoBlock = "none"
    Parent <- MCParent
    Number <- MCNumber
    TxResult <- MCTx
    Syncers = {"s1"}
    NoOwner = "nobody"
    Trackers = {}
    Preemptible = FALSE
    DeploymentBlock = 1
    MaxBlocksPerSync = 2
    ReorgSearchLimit = 1
    SoftReadyDepth = 2
    MCSyncers = {t1, t2}
    NoValue = NoValue
    VerifiedUsers <- MCUsers
    LinkWallets = {"w1", "w2"}
    LastAccount = 3
    ChallengeLimit = 2
    RegistryBudgets <- MCRegistryBudgets
    Heads <- MCHeads
    NoHead = "none"
    HeadParent <- MCHeadParent
    HeadNumber <- MCHeadNumber
    Readers = {"r1", "r2"}
    LagAttempts = 3
    PinnedBudgets <- MCPinnedBudgets
INVARIANT EventsReplayable
