SPECIFICATION FairSpec
CONSTANTS
    Blocks <- MCBlocks
    NoBlock = "none"
    Parent <- MCParent
    Number <- MCNumber
    Accounts = {}
    Outcome <- MCOutcome
    DeploymentBlock = 1
    MaxBlocks = 2
    ReorgSearch = 2
    CompletedDepth = 2
    MaxClaims = 1
    KillInRewind = TRUE
PROPERTIES
    EventuallyHealthy
