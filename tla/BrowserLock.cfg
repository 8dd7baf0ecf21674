SPECIFICATION BrowserSpec
CONSTANTS
    Owners = {"a"}
    UserJobs = {"first", "second"}
    Budgets <- MCLockBudgets
    MaxSends = 2
    None = None
    Vaults = {"v"}
    FirstVault = "v"
    Accounts = {"a"}
    VaultOwner = "a"
    Dialogs = {"one", "two"}
    JournalLimit = 1
    M3Budgets <- MCM3Budgets
    Nobody = Nobody
INVARIANT LockHeld
CHECK_DEADLOCK FALSE
