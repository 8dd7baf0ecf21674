SPECIFICATION ToolsSpec
CONSTANTS
    PlanLength = 2
    MaxHeight = 6
    Nil = Nil
    Tabs = {t1, t2}
    PageBudgets <- MCPageBudgets
    EngineBudgets <- MCEngineBudgets
    Cash = {1, 4}
    Prices = {3, 6}
    OrderIds = {o1}
    WithdrawalIds = {w1, w2}
    Allowance = 5
    HistoryLimit = 8
    Basket <- MCBasket
    BasketPrices = {2, 7}
    Capacities = {1, 9}
    UnitScale = 2
    BotBps = 10
    BotFee = 1
    Deviation = 1
    Interval = 2
    FrameCount = 4
    BotChoices <- MCChoices
    RunLimit = 5
    RunBudget = 1
    NoTrigger = NoTrigger
    AssetOrder <- MCOrder
    Bids = {1, 3}
    Spread = 0
    BPS = 10
    ValueScale = 2
    FeeBps = 1
    SlippageBps = 0
    InitialCash = 20
    LimitChoices <- MCLimits
    Amounts = {5, 20}
    PaperBudgets <- MCPaperBudgets
    Unset = Unset
    Viewers = {v1, v2}
    QuoteTtl = 2
    HistoryTtl = 3
    FailureTtl = 1
    EthTtl = 2
    Ahead = 1
    EthMaxAge = 2
    ServedAge = 2
    KeeperMaxAge = 2
    RegularOpen = 2
    RegularClose = 4
    ReferenceBudgets <- MCReferenceBudgets
    Selections = {"s", "t"}
    Multipliers = {1, 2}
    Unresolved = 0
    MaxQuoteAge = 1
    MaxQuoteSkew = 0
    MaxCaptureSpan = 1
    RejectionLimit = 2
    CollectBudgets <- MCCollectBudgets
INVARIANTS
    StepTakenOnce
    AccountsBalance
    PricesHonest
PROPERTIES
    OnMinedStepsOnly
    TermsKept
SYMMETRY MCSymmetry
CHECK_DEADLOCK FALSE
