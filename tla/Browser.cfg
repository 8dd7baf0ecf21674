SPECIFICATION BrowserSpec
CONSTANTS
    Owners = {"a", "b"}
    UserJobs = {"user"}
    Budgets <- MCBudgets
    MaxSends = 1
    None = None
    Vaults = {"v", "w"}
    FirstVault = "v"
    Accounts = {"a", "b"}
    VaultOwner = "a"
    Dialogs = {"one", "two"}
    JournalLimit = 2
    M3Budgets <- MCM3Budgets
    Nobody = Nobody
INVARIANTS SendsRecorded ShownHolds
PROPERTIES SentAsChosen TransactionFollowed
CHECK_DEADLOCK FALSE
