SPECIFICATION MCSpec
CONSTANTS
    Users = {"u", "lp"}
    LpRecipient = "lp"
    PublicSupply = 4
    LpPass = 4
    LpUsdc = 4
    InitialShares = 4
    PassPerUsdc = 2
    FeeBps = 30
    Amounts = {2, 4}
    ShareAmounts = {1, 3}
    GiftAmounts = {1, 4}
    GiftTargets = {"launch", "pool"}
    InitialBalance <- MCBalance
    EthUnit = 2
    Prices = {1, 3}
    ConversionFee = 30
    EthAmounts = {6}
    UsdcAmounts = {8}
    Slippages = {0}
    LimitChoices <- MCLimits
    PauseChoices <- MCPauses
    InitialEth <- MCEth
    QuoteAge = 0
    DayLength = 1
    MaxNow = 1
    MaxEpoch = 2
    MaxNonce = 2
    Stocks <- MCStocks
    StockUnit = 4
    UnitScale = 1
    NavUnit = 4
    TradeBps = 4
    Share = 3
    PriceChoices <- MCPrices
    OwnerAmounts = {2, 5}
    OrderAmounts = {1, 2}
    Outputs = {1, 3}
    Grants <- MCGrants
    Bounds <- MCBounds
    MaxPriceAge = 1
    OrderLife = 1
    MinOrder = 1
    OwnerUsdc = 7
    MaxTime = 4
    MaxCalls = 6
INVARIANTS
    MarketStaysLive
    EthQuotesHonoured
    TradingSound
PROPERTIES
    ShareValueKept
    ConversionKeepsValue
    CapitalProtected
CHECK_DEADLOCK FALSE
