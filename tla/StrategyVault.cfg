SPECIFICATION MCSpec
CONSTANTS
    Prices = {1, 3}
    SessionWindows <- MCWindows
    FeedMaxAge = 1
    MaxSession = 3
    MaxTime = 2
    Executors = {"e1"}
    Grants <- MCGrants
    Amounts = {1}
    Units = {2}
    OutsideAmounts = {}
    MinOuts = {1}
    Deadlines = {1}
    PassScale = 2
    StockUnit = 2
    VaultPriceAge = 1
    ReservePriceAge = 1
    MaxUint = 100
    InitialBalance <- MCBalance
    MaxVersion = 3
    MaxInFlight = 2
INVARIANTS
    BooksBalance
    Custody
    ExecutorBudget
PROPERTIES
    ProfitOnlyFromRealizedGain
    OrdersHonoured
