SPECIFICATION MCSpec
CONSTANTS
    Blocks <- MCBlocks
    NoBlock = "none"
    Parent <- MCParent
    Number <- MCNumber
    Accounts = {"x"}
    Outcome <- MCOutcome
    DeploymentBlock = 1
    MaxBlocks = 1
    ReorgSearch = 1
    CompletedDepth = 2
    MaxClaims = 1
    KillInRewind = FALSE
    OpIds = {1, 2, 3}
    PageLimit = 2
    PerSync = 2
    ReadyDepth = 2
    AncestryLimit = 3
    MaxHeight = 3
    M3Faults <- MCFaults
    Folders = {"f", "g", "h"}
    Home = "f"
    ChainFiles = {"c", "d", "e"}
    ChainHome = "c"
    Databases = {"market", "events"}
    Required = {"market"}
    Nothing = Nothing
    Partial = Partial
    CopyBudgets <- MCSlack
INVARIANTS
    OperationsSound
    ManifestsAreMoments
PROPERTIES
    PollersCatchUp
    MarketCoherent
    CopiesHonest
CHECK_DEADLOCK FALSE
