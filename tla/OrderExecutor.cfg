SPECIFICATION MCSpec
CONSTANTS
    Configs <- MCConfigs
    Purposes <- MCPurposes
    Depth = 2
    PageSize = 2
    Budget = 2
    MaxOrders <- MCMaxOrders
    MaxBlocks = 3
    MaxReorgs = 1
    MaxTroubles = 1
    None = None
    Instruments <- MCInstruments
    Grants <- MCGrants
    Decisions <- MCDecisions
    Releases <- MCReleases
    Accounts <- MCAccounts
    Malformed = Malformed
    BPS = 1
    MaxTime = 4
    MaxPermits = 2
    Services = {"public", "executor"}
    ContainerBudgets <- MCRation
INVARIANTS
    JournalReopens
    PermitsSound
    VolumeSafe
PROPERTIES
    JournalCatchesUp
    ImplementsNonceBook
    StopsTogether
CHECK_DEADLOCK FALSE
