---------------------------- MODULE NativeMarket ----------------------------
(***************************************************************************)
(* Native ETH in the market of one PASS: the conversion reserve            *)
(* (AlphaForgeNativeReserve), the router that settles ETH trades over the  *)
(* pool of PassMarket (AlphaForgeMarketRouter), ETH subscriptions of the   *)
(* fair launch, and the backend that signs the quotes all three consume    *)
(* (LaunchMarketService.quote).                                            *)
(*                                                                         *)
(* A quote is signed in one state and runs in a later one, or is broadcast *)
(* again.  Time counts abstract ticks: QuoteAge of them are MAX_QUOTE_AGE, *)
(* DayLength a day.  Slippage tolerance is one of the caller's inputs.     *)
(***************************************************************************)
EXTENDS PassMarket, FiniteSets, FiniteSetsExt

CONSTANTS
    EthUnit,         \* 1e18: wei per ETH
    Prices,          \* AF-USDC per ETH the reference may report
    ConversionFee,   \* conversionFeeBps
    EthAmounts,      \* wei amounts used as inputs
    UsdcAmounts,     \* AF-USDC amounts the owner moves in and out of the reserve
    Slippages,       \* slippageBps a caller asks for
    LimitChoices,    \* RiskLimits the owner may set
    PauseChoices,    \* pairs (input, output) of pauses the owner may set
    InitialEth,      \* [Accounts -> Nat] at deployment
    QuoteAge,        \* MAX_QUOTE_AGE, in ticks
    DayLength,       \* 1 days, in ticks
    MaxNow,          \* bound on the clock
    MaxEpoch,        \* bound on signer rotations
    MaxNonce         \* bound on quotes signed

VARIABLES
    eth,       \* native balances
    reserve,   \* [signer, epoch, inPaused, outPaused, routers, trading, limits]
    spent,     \* accountDaySpent: account -> day -> wei
    daySpent,  \* globalDaySpent: day -> wei
    quotes,    \* quotes signed so far, each with how often it has run
    now        \* block.timestamp

nativeOnly == <<eth, reserve, spent, daySpent, quotes, now>>
nativeVars == <<marketVars, nativeOnly>>

Days == 0..(MaxNow \div DayLength)
Routers == {"router", "launch"}
Nonces == 1..MaxNonce
Ops == {"MINT", "BUY", "SELL"}

ASSUME NativeAssumption ==
    /\ IsFiniteSet(Users)
    /\ EthUnit \in Nat \ {0} /\ Prices \subseteq Nat \ {0}
    /\ ConversionFee \in 0..500
    /\ EthAmounts \subseteq Nat \ {0} /\ UsdcAmounts \subseteq Nat /\ Slippages \subseteq 0..500
    /\ \A l \in LimitChoices :
         /\ l.perTransaction \in Nat \ {0}
         /\ l.perAccountDaily \in Nat /\ l.globalDaily \in Nat /\ l.minReserve \in Nat
    /\ PauseChoices \subseteq BOOLEAN \X BOOLEAN
    /\ InitialEth \in [Accounts -> Nat]
    /\ QuoteAge \in Nat /\ DayLength \in Nat \ {0}
    /\ MaxNow \in Nat /\ MaxEpoch \in Nat \ {0} /\ MaxNonce \in Nat

Quotes ==
    [router : Routers, payer : Users, op : Ops, amountIn : Nat, usdc : Nat, minOut : Nat,
     eth : Nat, price : Prices, nonce : Nonces, issuedAt : 0..MaxNow,
     deadline : Nat, epoch : 1..MaxEpoch, runs : Nat]

NativeTypeOK ==
    /\ MarketTypeOK
    /\ eth \in [Accounts -> Nat]
    /\ reserve.epoch \in 1..MaxEpoch
    /\ reserve.routers \subseteq Routers
    /\ reserve.limits \in LimitChoices
    /\ spent \in [Users -> [Days -> Nat]]
    /\ daySpent \in [Days -> Nat]
    /\ quotes \subseteq Quotes
    /\ now \in 0..MaxNow

NativeInit ==
    /\ MarketInit
    /\ eth = InitialEth
    /\ \E l \in LimitChoices :
         reserve = [signer |-> "service", epoch |-> 1, inPaused |-> FALSE, outPaused |-> FALSE,
                    routers |-> {}, trading |-> FALSE, limits |-> l]
    /\ spent = [a \in Users |-> [d \in Days |-> 0]]
    /\ daySpent = [d \in Days |-> 0]
    /\ quotes = {}
    /\ now = 0

Tick ==
    /\ now < MaxNow
    /\ now' = now + 1
    /\ UNCHANGED <<marketVars, eth, reserve, spent, daySpent, quotes>>

----------------------------------------------------------------------------
(* Conversion, as the contract computes it *)

NativeToUsdc(amount, price) ==
    LET gross == MulDivDown(amount, price, EthUnit)
    IN gross - MulDivUp(gross, ConversionFee, Bps)

\* Mutant: the fee is forgotten and the output is rounded in the seller's favour.
UsdcToNativeMutant(amount, price) == MulDivUp(amount, EthUnit, price)

UsdcToNative(amount, price) ==
    MulDivDown(amount - MulDivUp(amount, ConversionFee, Bps), EthUnit, price)

\* ready: what openMint asks of the reserve.
Ready ==
    /\ ~reserve.inPaused /\ ~reserve.outPaused
    /\ reserve.trading
    /\ bal["usdc"]["reserve"] # 0
    /\ eth["reserve"] >= reserve.limits.minReserve + reserve.limits.perTransaction

----------------------------------------------------------------------------
(* The owner's administration of the reserve *)

Administer(next) ==
    /\ reserve' = next
    /\ UNCHANGED <<marketVars, eth, spent, daySpent, quotes, now>>

AuthorizeRouter(r) ==
    r \notin reserve.routers /\ Administer([reserve EXCEPT !.routers = @ \cup {r}])

ConfigureTradingRouter ==
    /\ ~reserve.trading
    /\ "router" \in reserve.routers
    /\ Administer([reserve EXCEPT !.trading = TRUE])

SetQuoteSigner(signer) ==
    /\ reserve.epoch < MaxEpoch
    /\ Administer([reserve EXCEPT !.signer = signer, !.epoch = @ + 1])

SetPaused(input, output) ==
    Administer([reserve EXCEPT !.inPaused = input, !.outPaused = output])

\* _setLimits
ValidLimits(l) ==
    /\ l.perTransaction # 0 /\ l.perTransaction <= l.perAccountDaily
    /\ l.perAccountDaily <= l.globalDaily /\ l.minReserve # 0

SetLimits(l) == ValidLimits(l) /\ Administer([reserve EXCEPT !.limits = l])

MoveEth(from, to, amount) == [eth EXCEPT ![from] = @ - amount, ![to] = @ + amount]

FundNative(amount) ==
    /\ eth["admin"] >= amount
    /\ eth' = MoveEth("admin", "reserve", amount)
    /\ UNCHANGED <<marketVars, reserve, spent, daySpent, quotes, now>>

FundUsdc(amount) ==
    /\ amount # 0
    /\ bal["usdc"]["admin"] >= amount
    /\ bal' = Pay(bal, "usdc", "admin", "reserve", amount)
    /\ UNCHANGED <<launch, initializer, pool, shares, nativeOnly>>

WithdrawNative(amount) ==
    /\ reserve.outPaused
    /\ eth["reserve"] >= amount + reserve.limits.minReserve
    /\ eth' = MoveEth("reserve", "admin", amount)
    /\ UNCHANGED <<marketVars, reserve, spent, daySpent, quotes, now>>

WithdrawUsdc(amount) ==
    /\ reserve.inPaused
    /\ amount # 0 /\ bal["usdc"]["reserve"] >= amount
    /\ bal' = Pay(bal, "usdc", "reserve", "admin", amount)
    /\ UNCHANGED <<launch, initializer, pool, shares, nativeOnly>>

----------------------------------------------------------------------------
(* The backend's quotes: packages/launch-market, with its own arithmetic *)

CeilDiv(a, b) == (a + b - 1) \div b
MinOutput(output, slippage) == (output * (Bps - slippage)) \div Bps

UsdcForEth(amount, price) ==
    LET gross == (amount * price) \div EthUnit IN gross - CeilDiv(gross * ConversionFee, Bps)

EthSaleOutput(usdc, price) ==
    ((usdc - CeilDiv(usdc * ConversionFee, Bps)) * EthUnit) \div price

\* A reference price is at most half a minute old.
ReferenceAges == 0..(QuoteAge \div 2)

\* What the service signs for a request; the reference was observed age ticks ago,
\* so the quote lives for what is left of its minute.
Signed(payer, op, amountIn, usdc, minOut, ethAmount, price, age) ==
    [router |-> IF op = "MINT" THEN "launch" ELSE "router", payer |-> payer, op |-> op,
     amountIn |-> amountIn, usdc |-> usdc, minOut |-> minOut, eth |-> ethAmount,
     price |-> price, nonce |-> Cardinality(quotes) + 1, issuedAt |-> now,
     deadline |-> now + QuoteAge - age, epoch |-> reserve.epoch, runs |-> 0]

Sign(quote) ==
    /\ Cardinality(quotes) < MaxNonce
    /\ reserve.signer = "service"
    /\ quotes' = quotes \cup {quote}
    /\ UNCHANGED <<marketVars, eth, reserve, spent, daySpent, now>>

\* conversion.ethMintAvailable, ethBuyAvailable, ethSellAvailable of the snapshot.
EthPathAvailable(op) ==
    /\ reserve.trading
    /\ op \in {"MINT", "BUY"} => ~reserve.inPaused
    /\ op = "BUY" => bal["usdc"]["reserve"] > 0
    /\ op = "SELL" => ~reserve.outPaused /\ eth["reserve"] > reserve.limits.minReserve

QuoteMint(payer, passAmount, price, age) ==
    LET usdc == MintCost(passAmount)
        ethAmount == CeilDiv(usdc * EthUnit, price)
    IN
    /\ MayMint(passAmount)
    /\ EthPathAvailable("MINT")
    /\ eth[payer] >= ethAmount
    /\ Sign(Signed(payer, "MINT", ethAmount, usdc, passAmount, ethAmount, price, age))

QuoteBuy(payer, ethAmount, price, slippage, age) ==
    LET usdc == UsdcForEth(ethAmount, price)
        minOut == MinOutput(BuyOutput(usdc), slippage)
    IN
    /\ EthPathAvailable("BUY")
    /\ usdc <= bal["usdc"]["reserve"]
    /\ Buyable(usdc) /\ minOut # 0
    /\ eth[payer] >= ethAmount
    /\ Sign(Signed(payer, "BUY", ethAmount, usdc, minOut, ethAmount, price, age))

QuoteSell(payer, passAmount, price, slippage, age) ==
    LET usdc == SellOutput(passAmount)
        minUsdc == MinOutput(usdc, slippage)
        minOut == EthSaleOutput(minUsdc, price)
    IN
    /\ EthPathAvailable("SELL")
    /\ Sellable(passAmount) /\ minUsdc # 0
    /\ bal["pass"][payer] >= passAmount
    /\ EthSaleOutput(usdc, price) <= eth["reserve"]
    /\ Sign(Signed(payer, "SELL", passAmount, minUsdc, minOut,
                   EthSaleOutput(usdc, price), price, age))

----------------------------------------------------------------------------
(* Settlement *)

\* Mutant: the nonce is not marked as used.
ConsumableMutant(q) ==
    /\ q.router \in reserve.routers
    /\ q.epoch = reserve.epoch
    /\ now <= q.issuedAt + QuoteAge
    /\ q.deadline >= now

\* _consume.  A nonce is used when a quote of the payer's account with it has run.
Consumable(q) ==
    /\ q.router \in reserve.routers
    /\ q.amountIn # 0 /\ q.eth # 0 /\ q.usdc # 0 /\ q.minOut # 0
    /\ q.epoch = reserve.epoch
    /\ now <= q.issuedAt + QuoteAge
    /\ q.deadline >= now
    /\ q.runs = 0

Consume(q) ==
    /\ Consumable(q)
    /\ quotes' = (quotes \ {q}) \cup {[q EXCEPT !.runs = @ + 1]}

\* subscribeEth with consumeMintQuote: the payment goes straight to the proceeds.
SubscribeEth(q) ==
    LET passAmount == q.minOut IN
    /\ q.op = "MINT"
    /\ MayMint(passAmount)
    /\ ~reserve.inPaused
    /\ q.usdc = MintCost(passAmount)
    /\ q.amountIn = q.eth /\ q.eth = MulDivUp(q.usdc, EthUnit, q.price)
    /\ Consume(q)
    /\ eth[q.payer] >= q.eth
    /\ eth' = MoveEth(q.payer, "proceeds", q.eth)
    /\ Deliver(bal, q.payer, passAmount)
    /\ UNCHANGED <<initializer, reserve, spent, daySpent, now>>

\* The AF-USDC side of convertBuy.
CanConvert(amount) == amount # 0 /\ bal["usdc"]["reserve"] >= amount

\* buyNative over convertBuy and the pool's buy: ETH to the reserve, AF-USDC from it
\* through the router into the pool, PASS to the payer.
BuyNative(q) ==
    LET usdc == NativeToUsdc(q.eth, q.price) IN
    /\ q.op = "BUY"
    /\ ~reserve.inPaused
    /\ Consume(q)
    /\ CanConvert(usdc) /\ usdc = q.usdc
    /\ eth[q.payer] >= q.eth
    /\ Buyable(usdc) /\ BuyOutput(usdc) >= q.minOut
    /\ eth' = MoveEth(q.payer, "reserve", q.eth)
    /\ pool' = PoolAfterBuy(usdc)
    /\ bal' = Pay(Pay(bal, "usdc", "reserve", "pool", usdc),
                  "pass", "pool", q.payer, BuyOutput(usdc))
    /\ UNCHANGED <<launch, initializer, shares, reserve, spent, daySpent, now>>

Today == now \div DayLength

\* _spendBudget
WithinBudget(account, amount) ==
    /\ amount <= reserve.limits.perTransaction
    /\ spent[account][Today] + amount <= reserve.limits.perAccountDaily
    /\ daySpent[Today] + amount <= reserve.limits.globalDaily
    /\ eth["reserve"] >= amount + reserve.limits.minReserve

\* sellNative over the pool's sell and convertSell.
SellNative(q) ==
    LET usdc == SellOutput(q.amountIn)
        output == UsdcToNative(usdc, q.price)
    IN
    /\ q.op = "SELL"
    /\ bal["pass"][q.payer] >= q.amountIn
    /\ Sellable(q.amountIn) /\ usdc >= q.usdc
    /\ ~reserve.outPaused
    /\ Consume(q)
    /\ output # 0 /\ output >= q.minOut
    /\ WithinBudget(q.payer, output)
    /\ spent' = [spent EXCEPT ![q.payer][Today] = @ + output]
    /\ daySpent' = [daySpent EXCEPT ![Today] = @ + output]
    /\ eth' = MoveEth("reserve", q.payer, output)
    /\ pool' = PoolAfterSell(q.amountIn)
    /\ bal' = Pay(Pay(bal, "pass", q.payer, "pool", q.amountIn),
                  "usdc", "pool", "reserve", usdc)
    /\ UNCHANGED <<launch, initializer, shares, reserve, now>>

----------------------------------------------------------------------------

NativeNext ==
    \/ MarketStep /\ UNCHANGED nativeOnly
    \/ OpenMint("launch" \in reserve.routers /\ Ready) /\ UNCHANGED nativeOnly
    \/ Tick
    \/ \E r \in Routers : AuthorizeRouter(r)
    \/ ConfigureTradingRouter
    \/ \E s \in {"service", "other"} : SetQuoteSigner(s)
    \/ \E p \in PauseChoices : SetPaused(p[1], p[2])
    \/ \E l \in LimitChoices : SetLimits(l)
    \/ \E a \in EthAmounts : FundNative(a) \/ WithdrawNative(a)
    \/ \E a \in UsdcAmounts : FundUsdc(a) \/ WithdrawUsdc(a)
    \/ \E u \in Users, p \in Prices, age \in ReferenceAges :
         \/ \E a \in Amounts : QuoteMint(u, a, p, age)
         \/ \E a \in EthAmounts, s \in Slippages : QuoteBuy(u, a, p, s, age)
         \/ \E a \in Amounts, s \in Slippages : QuoteSell(u, a, p, s, age)
    \/ \E q \in quotes : SubscribeEth(q) \/ BuyNative(q) \/ SellNative(q)

NativeSpec == NativeInit /\ [][NativeNext]_nativeVars

----------------------------------------------------------------------------
(* Properties *)

\* A signed quote runs at most once, however often it is broadcast, whichever
\* entry point it is for and whatever the signer did in between (_consume).
QuoteRunsOnce == \A q \in quotes : q.runs <= 1

\* What the backend signed, the contract's own arithmetic accepts: a purchase
\* converts to exactly the quoted AF-USDC, a subscription costs exactly the quoted
\* ETH, and a sale that meets the pool's floor also meets the ETH floor, so
\* the second check of convertSell never undoes a sale the first let through.
QuoteMathAgrees ==
    \A q \in quotes :
        /\ q.op = "BUY" => NativeToUsdc(q.eth, q.price) = q.usdc
        /\ q.op = "MINT" => MulDivUp(q.usdc, EthUnit, q.price) = q.eth
        /\ q.op = "SELL" =>
             \A extra \in 0..pool.usdc : UsdcToNative(q.usdc + extra, q.price) >= q.minOut

\* The value the reserve and the proceeds hold, in AF-USDC at a price.
ReserveValue(b, e, price) == b["usdc"]["reserve"] * EthUnit + e["reserve"] * price
ProceedsValue(b, e, price) == b["usdc"]["proceeds"] * EthUnit + e["proceeds"] * price

ConversionStep ==
    \A q \in quotes :
        [q EXCEPT !.runs = @ + 1] \in quotes' /\ q \notin quotes' =>
            /\ ReserveValue(bal', eth', q.price) >= ReserveValue(bal, eth, q.price)
            /\ ProceedsValue(bal', eth', q.price) - ProceedsValue(bal, eth, q.price)
                 >= ((launch'.sold - launch.sold) * EthUnit) \div PassPerUsdc

\* At the price of the quote no conversion costs the reserve anything, whichever
\* side rounds, and PASS sold for ETH brings in at least what it costs in AF-USDC
\* (convertBuy, convertSell, consumeMintQuote).
ConversionKeepsValue == [][ConversionStep]_nativeVars

\* The ETH the router may pay out of the reserve in a day is bounded: the accounts'
\* totals add up to the day's, and no day exceeds the most generous limit ever set
\* (_spendBudget).
DayBudgetHolds ==
    \A d \in Days :
        /\ SumFunction([a \in Users |-> spent[a][d]]) = daySpent[d]
        /\ \E l \in LimitChoices : daySpent[d] <= l.globalDaily

\* A quote is good for one use, for what the backend computed, within the day's budget
\* (_consume, LaunchMarketService.quote, _spendBudget).
EthQuotesHonoured == NativeTypeOK /\ QuoteRunsOnce /\ QuoteMathAgrees /\ DayBudgetHolds
=============================================================================
