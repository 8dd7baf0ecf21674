--------------------------- MODULE StrategyVault ---------------------------
(***************************************************************************)
(* One owner's strategy Vault (AlphaForgeStrategyVault over                *)
(* AlphaForgeVault), its PassLocker, and the AlphaForgeStockReserve it     *)
(* trades with, over the reference feed of module ReferenceFeed.           *)
(*                                                                         *)
(* A transaction is atomic: it runs whole or reverts, so each external     *)
(* function is one action whose guard is the conjunction of its requires.  *)
(* What is not atomic is the order in which transactions are included: an  *)
(* execute call is built and signed in one block (SignOrder) and included  *)
(* later, several times or never, while the owner, the reserve's operator, *)
(* the keeper and strangers act in between.                                *)
(*                                                                         *)
(* Tokens are fixed-supply OpenZeppelin ERC-20s without transfer hooks, so *)
(* the exact-transfer checks of the code can never fail; allowances are    *)
(* granted by the owner's wallet beforehand and are left out.              *)
(***************************************************************************)
EXTENDS ReferenceFeed, FiniteSets

CONSTANTS
    Executors,       \* addresses the owner may authorise
    Grants,          \* the ExecutorGrant values the owner may configure
    Amounts,         \* AF-USDC amounts used as inputs
    Units,           \* stock amounts used as inputs
    OutsideAmounts,  \* amounts the reserve's operator and strangers move
    MinOuts,         \* minimum outputs an order may carry
    Deadlines,       \* deadlines an order may carry
    PassScale,       \* PASS_SCALE: raw PASS locked per raw AF-USDC
    StockUnit,       \* 1e18: raw units of one stock
    VaultPriceAge,   \* maxPriceAge of the Vault
    ReservePriceAge, \* maxPriceAge of the stock reserve
    MaxUint,         \* type(uint256).max
    InitialBalance,  \* [Tokens -> [Accounts -> Nat]] at deployment of the Vault
    MaxVersion,      \* bound on executionVersion
    MaxInFlight      \* bound on the execute calls signed and not yet dropped

VARIABLES
    bal,                       \* balanceOf, per token and account
    principalBasis,
    trackedUsdcBalance,
    trackedPosition,           \* per stock token
    openTrackedPositionCount,
    closed,
    lockedBalance,             \* of the PassLocker
    grant,
    totalBuyUsdc,
    executionVersion,
    positionCostUsdc,
    realizedTradingPnl,
    reservePaused,
    inflight,                  \* execute calls signed and not dropped
    profitPaid,                \* history: profit paid out by withdraw
    executorSpent              \* history: buys by the executor under this grant

vaultVars == <<bal, principalBasis, trackedUsdcBalance, trackedPosition,
               openTrackedPositionCount, closed, lockedBalance, grant,
               totalBuyUsdc, executionVersion, positionCostUsdc,
               realizedTradingPnl, reservePaused, inflight, profitPaid,
               executorSpent>>

vars == <<feedVars, vaultVars>>

Owner == "owner"
Accounts == {Owner, "vault", "locker", "reserve", "others"}
Tokens == {"usdc", "pass", "target", "other", "native"}
StockTokens == {"target", "other"}
Callers == Executors \cup {Owner}

NoGrant == [executor |-> "none", expiresAt |-> 0, maxOrderUsdc |-> 0,
            maxTotalBuyUsdc |-> 0, maxSlippageBps |-> 0]

GrantType == [executor : Executors, expiresAt : Nat, maxOrderUsdc : Nat,
              maxTotalBuyUsdc : Nat, maxSlippageBps : Nat]

ASSUME VaultAssumption ==
    /\ "none" \notin Executors
    /\ Grants \subseteq GrantType
    /\ Amounts \subseteq Nat
    /\ Units \subseteq Nat
    /\ OutsideAmounts \subseteq Nat
    /\ MinOuts \subseteq Nat
    /\ Deadlines \subseteq Nat
    /\ PassScale \in Nat \ {0}
    /\ StockUnit \in Nat \ {0}
    /\ VaultPriceAge \in Nat
    /\ ReservePriceAge \in Nat
    /\ MaxUint \in Nat
    /\ InitialBalance \in [Tokens -> [Accounts -> Nat]]
    /\ MaxVersion \in Nat
    /\ MaxInFlight \in Nat

\* An execute call.  sawGrant (the grant when it was signed) and runs (how
\* often it took effect) are history.
Orders == [caller : Callers, buy : BOOLEAN, input : Nat, minOut : Nat,
           deadline : Nat, version : Nat, sawGrant : Grants \cup {NoGrant},
           runs : Nat]

TypeOK ==
    /\ FeedTypeOK
    /\ bal \in [Tokens -> [Accounts -> Nat]]
    /\ principalBasis \in Nat
    /\ trackedUsdcBalance \in Nat
    /\ trackedPosition \in [StockTokens -> Nat]
    /\ openTrackedPositionCount \in Nat
    /\ closed \in BOOLEAN
    /\ lockedBalance \in Nat
    /\ grant \in Grants \cup {NoGrant}
    /\ totalBuyUsdc \in Nat
    /\ executionVersion \in 0..MaxVersion
    /\ positionCostUsdc \in Nat
    /\ realizedTradingPnl \in Int
    /\ reservePaused \in BOOLEAN
    /\ inflight \subseteq Orders
    /\ profitPaid \in Nat
    /\ executorSpent \in Nat

Init ==
    /\ FeedInit
    /\ bal = InitialBalance
    /\ principalBasis = 0
    /\ trackedUsdcBalance = 0
    /\ trackedPosition = [t \in StockTokens |-> 0]
    /\ openTrackedPositionCount = 0
    /\ closed = FALSE
    /\ lockedBalance = 0
    /\ grant = NoGrant
    /\ totalBuyUsdc = 0
    /\ executionVersion = 0
    /\ positionCostUsdc = 0
    /\ realizedTradingPnl = 0
    /\ reservePaused = FALSE
    /\ inflight = {}
    /\ profitPaid = 0
    /\ executorSpent = 0

----------------------------------------------------------------------------
(* Arithmetic and transfers *)

\* Math.mulDiv, rounding down.
MulDiv(a, b, c) == (a * b) \div c

\* One ERC-20 transfer between two different accounts.
Move(b, from, to, amount) == [b EXCEPT ![from] = @ - amount, ![to] = @ + amount]

UsdcToPassRaw(usdcRaw) == usdcRaw * PassScale

\* Mutant: the cost of the open position counts as cash.
RealizedProfitMutant ==
    IF trackedUsdcBalance + positionCostUsdc > principalBasis
    THEN trackedUsdcBalance + positionCostUsdc - principalBasis ELSE 0

RealizedProfit ==
    IF trackedUsdcBalance > principalBasis
    THEN trackedUsdcBalance - principalBasis ELSE 0

\* _setTrackedPosition's count of assets with an open position.
OpenCountAfter(previous, amount) ==
    CASE previous = amount -> openTrackedPositionCount
      [] previous # amount /\ previous = 0 -> openTrackedPositionCount + 1
      [] previous # amount /\ previous # 0 /\ amount = 0 -> openTrackedPositionCount - 1
      [] OTHER -> openTrackedPositionCount

----------------------------------------------------------------------------
(* The PassLocker, called by its Vault only *)

\* lock: what arrived in the same transaction covers what is newly accounted.
LockerTakes(amount) ==
    /\ bal["pass"]["locker"] + amount >= lockedBalance
    /\ amount <= bal["pass"]["locker"] + amount - lockedBalance

\* unlock, called only for a nonzero amount.
LockerReturns(amount) ==
    amount # 0 => amount <= lockedBalance /\ amount <= bal["pass"]["locker"]

----------------------------------------------------------------------------
(* Owner operations of the Vault *)

Deposit(usdcAmount) ==
    LET passRaw == UsdcToPassRaw(usdcAmount) IN
    /\ ~closed
    /\ usdcAmount # 0
    /\ passRaw <= MaxUint
    /\ principalBasis + usdcAmount <= MaxUint
    /\ trackedUsdcBalance + usdcAmount <= MaxUint
    /\ bal["usdc"][Owner] >= usdcAmount
    /\ bal["pass"][Owner] >= passRaw
    /\ LockerTakes(passRaw)
    /\ principalBasis' = principalBasis + usdcAmount
    /\ trackedUsdcBalance' = trackedUsdcBalance + usdcAmount
    /\ bal' = [bal EXCEPT !["usdc"] = Move(@, Owner, "vault", usdcAmount),
                          !["pass"] = Move(@, Owner, "locker", passRaw)]
    /\ lockedBalance' = lockedBalance + passRaw
    /\ UNCHANGED <<feedVars, trackedPosition, openTrackedPositionCount, closed,
                   grant, totalBuyUsdc, executionVersion, positionCostUsdc,
                   realizedTradingPnl, reservePaused, inflight, profitPaid,
                   executorSpent>>

\* Profit first; principal only when no position is open, with its PASS.
Withdraw(usdcAmount) ==
    LET profit == RealizedProfit
        profitAmount == IF usdcAmount < profit THEN usdcAmount ELSE profit
        principalAmount == usdcAmount - profitAmount
        passRaw == UsdcToPassRaw(principalAmount)
    IN
    /\ ~closed
    /\ usdcAmount # 0
    /\ usdcAmount <= trackedUsdcBalance
    /\ principalAmount # 0 => openTrackedPositionCount = 0
    /\ passRaw <= MaxUint
    /\ principalAmount <= principalBasis
    /\ usdcAmount <= bal["usdc"]["vault"]
    /\ LockerReturns(passRaw)
    /\ trackedUsdcBalance' = trackedUsdcBalance - usdcAmount
    /\ principalBasis' = principalBasis - principalAmount
    /\ lockedBalance' = lockedBalance - passRaw
    /\ bal' = [bal EXCEPT !["usdc"] = Move(@, "vault", Owner, usdcAmount),
                          !["pass"] = Move(@, "locker", Owner, passRaw)]
    /\ profitPaid' = profitPaid + profitAmount
    /\ UNCHANGED <<feedVars, trackedPosition, openTrackedPositionCount, closed,
                   grant, totalBuyUsdc, executionVersion, positionCostUsdc,
                   realizedTradingPnl, reservePaused, inflight, executorSpent>>

\* Mutant: the tracked balance is not reset.
CloseKeepsTrackedMutant ==
    /\ ~closed
    /\ openTrackedPositionCount = 0
    /\ trackedUsdcBalance <= bal["usdc"]["vault"]
    /\ lockedBalance <= bal["pass"]["locker"]
    /\ closed' = TRUE
    /\ principalBasis' = 0
    /\ lockedBalance' = 0
    /\ bal' = [bal EXCEPT !["usdc"] = Move(@, "vault", Owner, trackedUsdcBalance),
                          !["pass"] = Move(@, "locker", Owner, lockedBalance)]
    /\ UNCHANGED <<feedVars, trackedUsdcBalance, trackedPosition,
                   openTrackedPositionCount, grant, totalBuyUsdc,
                   executionVersion, positionCostUsdc, realizedTradingPnl,
                   reservePaused, inflight, profitPaid, executorSpent>>

\* Returns every tracked coin and all locked PASS, then refuses further use.
Close ==
    /\ ~closed
    /\ openTrackedPositionCount = 0
    /\ trackedUsdcBalance <= bal["usdc"]["vault"]
    /\ lockedBalance <= bal["pass"]["locker"]
    /\ closed' = TRUE
    /\ principalBasis' = 0
    /\ trackedUsdcBalance' = 0
    /\ lockedBalance' = 0
    /\ bal' = [bal EXCEPT !["usdc"] = Move(@, "vault", Owner, trackedUsdcBalance),
                          !["pass"] = Move(@, "locker", Owner, lockedBalance)]
    /\ UNCHANGED <<feedVars, trackedPosition, openTrackedPositionCount, grant,
                   totalBuyUsdc, executionVersion, positionCostUsdc,
                   realizedTradingPnl, reservePaused, inflight, profitPaid,
                   executorSpent>>

ReservedTrackedBalance(token) ==
    CASE token = "usdc" -> trackedUsdcBalance
      [] token \in StockTokens -> trackedPosition[token]
      [] token = "pass" -> lockedBalance
      [] OTHER -> 0

ExcessOver(actual, reserved) == IF actual > reserved THEN actual - reserved ELSE 0

\* What a stranger (or the owner) sent outside the accounting, after close.
RescueUntrackedToken(token) ==
    LET reserved == ReservedTrackedBalance(token)
        lockerExcess == ExcessOver(bal["pass"]["locker"], reserved)
        vaultExcess == IF token = "pass" THEN bal[token]["vault"]
                       ELSE ExcessOver(bal[token]["vault"], reserved)
    IN
    /\ closed
    /\ token # "native"
    /\ vaultExcess + (IF token = "pass" THEN lockerExcess ELSE 0) >= 1
    /\ token = "pass" => bal["pass"]["locker"] >= lockedBalance
    /\ bal' = [bal EXCEPT ![token] =
                 Move(IF token = "pass" THEN Move(@, "locker", Owner, lockerExcess) ELSE @,
                      "vault", Owner, vaultExcess)]
    /\ UNCHANGED <<feedVars, principalBasis, trackedUsdcBalance, trackedPosition,
                   openTrackedPositionCount, closed, lockedBalance, grant,
                   totalBuyUsdc, executionVersion, positionCostUsdc,
                   realizedTradingPnl, reservePaused, inflight, profitPaid,
                   executorSpent>>

RescueNative ==
    /\ closed
    /\ bal["native"]["vault"] >= 1
    /\ bal' = [bal EXCEPT !["native"] = Move(@, "vault", Owner, bal["native"]["vault"])]
    /\ UNCHANGED <<feedVars, principalBasis, trackedUsdcBalance, trackedPosition,
                   openTrackedPositionCount, closed, lockedBalance, grant,
                   totalBuyUsdc, executionVersion, positionCostUsdc,
                   realizedTradingPnl, reservePaused, inflight, profitPaid,
                   executorSpent>>

----------------------------------------------------------------------------
(* The executor's grant *)

ConfigureExecutor(next) ==
    /\ ~closed
    /\ next.executor # Owner
    /\ next.expiresAt > now
    /\ next.maxOrderUsdc # 0
    /\ next.maxTotalBuyUsdc # 0
    /\ next.maxSlippageBps <= 500
    /\ executionVersion < MaxVersion
    /\ grant' = next
    /\ totalBuyUsdc' = 0
    /\ executionVersion' = executionVersion + 1
    /\ executorSpent' = 0
    /\ UNCHANGED <<feedVars, bal, principalBasis, trackedUsdcBalance,
                   trackedPosition, openTrackedPositionCount, closed,
                   lockedBalance, positionCostUsdc, realizedTradingPnl,
                   reservePaused, inflight, profitPaid>>

\* Mutant: revoking does not invalidate the calls in flight.
RevokeKeepsVersionMutant ==
    /\ grant' = NoGrant
    /\ executorSpent' = 0
    /\ UNCHANGED <<feedVars, bal, principalBasis, trackedUsdcBalance,
                   trackedPosition, openTrackedPositionCount, closed,
                   lockedBalance, totalBuyUsdc, executionVersion,
                   positionCostUsdc, realizedTradingPnl, reservePaused,
                   inflight, profitPaid>>

RevokeExecutor ==
    /\ executionVersion < MaxVersion
    /\ grant' = NoGrant
    /\ executionVersion' = executionVersion + 1
    /\ executorSpent' = 0
    /\ UNCHANGED <<feedVars, bal, principalBasis, trackedUsdcBalance,
                   trackedPosition, openTrackedPositionCount, closed,
                   lockedBalance, totalBuyUsdc, positionCostUsdc,
                   realizedTradingPnl, reservePaused, inflight, profitPaid>>

----------------------------------------------------------------------------
(* Orders: signed now, included later *)

\* A caller reads the chain and signs an execute call against what it read.
SignOrder(caller, buy, input, minOut, deadline) ==
    /\ ~closed
    /\ Cardinality(inflight) < MaxInFlight
    /\ inflight' = inflight \cup
         {[caller |-> caller, buy |-> buy, input |-> input, minOut |-> minOut,
           deadline |-> deadline, version |-> executionVersion,
           sawGrant |-> grant, runs |-> 0]}
    /\ UNCHANGED <<feedVars, bal, principalBasis, trackedUsdcBalance,
                   trackedPosition, openTrackedPositionCount, closed,
                   lockedBalance, grant, totalBuyUsdc, executionVersion,
                   positionCostUsdc, realizedTradingPnl, reservePaused,
                   profitPaid, executorSpent>>

\* The caller gives up on a call: it is never broadcast again.
DropOrder(o) ==
    /\ inflight' = inflight \ {o}
    /\ UNCHANGED <<feedVars, bal, principalBasis, trackedUsdcBalance,
                   trackedPosition, openTrackedPositionCount, closed,
                   lockedBalance, grant, totalBuyUsdc, executionVersion,
                   positionCostUsdc, realizedTradingPnl, reservePaused,
                   profitPaid, executorSpent>>

InToken(buy) == IF buy THEN "usdc" ELSE "target"
OutToken(buy) == IF buy THEN "target" ELSE "usdc"

\* The reserve's output, and what the Vault expects: both from the same feed.
SwapOutput(buy, input) ==
    IF buy THEN MulDiv(input, StockUnit, feed.price)
           ELSE MulDiv(input, feed.price, StockUnit)

\* AlphaForgeStockReserve.swap, called by any trader.
SwapGuard(trader, buy, input, minimum) ==
    /\ input # 0
    /\ ~reservePaused
    /\ ExecutionAllowed
    /\ PriceFresh(ReservePriceAge)
    /\ SwapOutput(buy, input) # 0
    /\ SwapOutput(buy, input) >= minimum
    /\ bal[OutToken(buy)]["reserve"] >= SwapOutput(buy, input)
    /\ bal[InToken(buy)][trader] >= input

SwapBalances(trader, buy, input) ==
    [bal EXCEPT ![InToken(buy)] = Move(@, trader, "reserve", input),
                ![OutToken(buy)] = Move(@, "reserve", trader, SwapOutput(buy, input))]

CurrentVersion(o) == o.version = executionVersion

Permitted(o) ==
    \/ o.caller = Owner
    \/ /\ o.caller = grant.executor
       /\ grant.expiresAt >= o.deadline
       /\ grant.expiresAt > now

\* Mutant: the order itself is left out of the budget check.
WithinGrantMutant(o) ==
    o.caller # Owner =>
      /\ (IF o.buy THEN o.input ELSE SwapOutput(FALSE, o.input)) <= grant.maxOrderUsdc
      /\ o.buy => totalBuyUsdc <= grant.maxTotalBuyUsdc

WithinGrant(o) ==
    o.caller # Owner =>
      /\ (IF o.buy THEN o.input ELSE SwapOutput(FALSE, o.input)) <= grant.maxOrderUsdc
      /\ o.buy => totalBuyUsdc + o.input <= grant.maxTotalBuyUsdc

\* _validateExecution, in the order of its requires, and the swap it leads to.
Executable(o) ==
    LET slippage == IF o.caller = Owner THEN 500 ELSE grant.maxSlippageBps IN
    /\ ~closed
    /\ o.input # 0
    /\ o.deadline >= now
    /\ CurrentVersion(o)
    /\ Permitted(o)
    /\ PriceFresh(VaultPriceAge)
    /\ o.minOut # 0
    /\ o.minOut >= MulDiv(SwapOutput(o.buy, o.input), 10000 - slippage, 10000)
    /\ WithinGrant(o)
    /\ o.input <= IF o.buy THEN trackedUsdcBalance ELSE trackedPosition["target"]
    /\ SwapGuard("vault", o.buy, o.input, o.minOut)
    /\ executionVersion < MaxVersion

\* The call stays with its caller, who may broadcast it again.
Ran(o) == inflight' = (inflight \ {o}) \cup {[o EXCEPT !.runs = @ + 1]}

ExecuteBuy(o) ==
    LET previous == trackedPosition["target"]
        amount == previous + SwapOutput(TRUE, o.input)
    IN
    /\ o.buy
    /\ Executable(o)
    /\ bal' = SwapBalances("vault", TRUE, o.input)
    /\ bal'["target"]["vault"] >= amount
    /\ trackedUsdcBalance' = trackedUsdcBalance - o.input
    /\ totalBuyUsdc' = totalBuyUsdc + o.input
    /\ positionCostUsdc' = positionCostUsdc + o.input
    /\ trackedPosition' = [trackedPosition EXCEPT !["target"] = amount]
    /\ openTrackedPositionCount' = OpenCountAfter(previous, amount)
    /\ executionVersion' = executionVersion + 1
    /\ executorSpent' = IF o.caller = Owner THEN executorSpent
                        ELSE executorSpent + o.input
    /\ Ran(o)
    /\ UNCHANGED <<feedVars, principalBasis, closed, lockedBalance, grant,
                   realizedTradingPnl, reservePaused, profitPaid>>

\* Mutant: a full exit is not told apart and the divisor is off by one.
ExitedCostMutant(input, previous) == MulDiv(positionCostUsdc, input, previous + 1)

\* The share of the position's cost that leaves with input units: all of it
\* when the whole position is sold.
ExitedCost(input, previous) ==
    IF input = previous THEN positionCostUsdc
    ELSE MulDiv(positionCostUsdc, input, previous)

PnlAfter(output, exitedCost) == realizedTradingPnl + output - exitedCost

ExecuteSell(o) ==
    LET previous == trackedPosition["target"]
        amount == previous - o.input
        output == SwapOutput(FALSE, o.input)
        exitedCost == ExitedCost(o.input, previous)
    IN
    /\ ~o.buy
    /\ Executable(o)
    /\ bal' = SwapBalances("vault", FALSE, o.input)
    /\ amount # 0 => bal'["target"]["vault"] >= amount
    /\ positionCostUsdc' = positionCostUsdc - exitedCost
    /\ realizedTradingPnl' = PnlAfter(output, exitedCost)
    /\ trackedUsdcBalance' = trackedUsdcBalance + output
    /\ trackedPosition' = [trackedPosition EXCEPT !["target"] = amount]
    /\ openTrackedPositionCount' = OpenCountAfter(previous, amount)
    /\ executionVersion' = executionVersion + 1
    /\ Ran(o)
    /\ UNCHANGED <<feedVars, principalBasis, closed, lockedBalance, grant,
                   totalBuyUsdc, reservePaused, profitPaid, executorSpent>>

----------------------------------------------------------------------------
(* The stock reserve's operator, its other traders, and strangers *)

OnlyBalancesChange ==
    UNCHANGED <<feedVars, principalBasis, trackedUsdcBalance, trackedPosition,
                openTrackedPositionCount, closed, lockedBalance, grant,
                totalBuyUsdc, executionVersion, positionCostUsdc,
                realizedTradingPnl, reservePaused, inflight, profitPaid,
                executorSpent>>

SetPaused(next) ==
    /\ reservePaused' = next
    /\ UNCHANGED <<feedVars, bal, principalBasis, trackedUsdcBalance,
                   trackedPosition, openTrackedPositionCount, closed,
                   lockedBalance, grant, totalBuyUsdc, executionVersion,
                   positionCostUsdc, realizedTradingPnl, inflight, profitPaid,
                   executorSpent>>

FundReserve(token, amount) ==
    /\ amount # 0
    /\ bal[token]["others"] >= amount
    /\ bal' = [bal EXCEPT ![token] = Move(@, "others", "reserve", amount)]
    /\ OnlyBalancesChange

WithdrawReserve(token, amount) ==
    /\ bal[token]["reserve"] >= amount
    /\ bal' = [bal EXCEPT ![token] = Move(@, "reserve", "others", amount)]
    /\ OnlyBalancesChange

TraderSwap(buy, input, minimum) ==
    /\ SwapGuard("others", buy, input, minimum)
    /\ bal' = SwapBalances("others", buy, input)
    /\ OnlyBalancesChange

\* A plain transfer of any asset to the Vault or its locker.
Donate(token, to, amount) ==
    /\ amount # 0
    /\ token = "native" => to = "vault"   \* only the Vault has a receive()
    /\ bal[token]["others"] >= amount
    /\ bal' = [bal EXCEPT ![token] = Move(@, "others", to, amount)]
    /\ OnlyBalancesChange

----------------------------------------------------------------------------

FeedStep == FeedNext /\ UNCHANGED vaultVars

OwnerStep ==
    \/ \E a \in Amounts : Deposit(a) \/ Withdraw(a)
    \/ Close
    \/ \E t \in Tokens : RescueUntrackedToken(t)
    \/ RescueNative
    \/ \E g \in Grants : ConfigureExecutor(g)
    \/ RevokeExecutor

OrderStep ==
    \/ \E c \in Callers, b \in BOOLEAN, m \in MinOuts, d \in Deadlines :
         \E i \in IF b THEN Amounts ELSE Units : SignOrder(c, b, i, m, d)
    \/ \E o \in inflight : DropOrder(o) \/ ExecuteBuy(o) \/ ExecuteSell(o)

EnvironmentStep ==
    \/ \E p \in BOOLEAN : SetPaused(p)
    \/ \E t \in {"usdc", "target"}, a \in OutsideAmounts :
         FundReserve(t, a) \/ WithdrawReserve(t, a)
    \/ \E b \in BOOLEAN, a \in OutsideAmounts, m \in MinOuts : TraderSwap(b, a, m)
    \/ \E t \in Tokens, to \in {"vault", "locker"}, a \in OutsideAmounts :
         Donate(t, to, a)

Next == FeedStep \/ OwnerStep \/ OrderStep \/ EnvironmentStep

Spec == Init /\ [][Next]_vars

----------------------------------------------------------------------------
(* Properties *)

\* The PASS the locker accounts for is exactly the principal's capacity, in
\* every order of deposits, partial withdrawals and close: no principal without
\* its PASS, no PASS held back (AlphaForgeVault deposit/withdraw/close).
CapacityBacked == lockedBalance = UsdcToPassRaw(principalBasis)

\* Whatever the Vault and the locker account for is in their balances, so no
\* require of withdraw, close or unlock on a balance can strand the owner.
Custody ==
    /\ bal["usdc"]["vault"] >= trackedUsdcBalance
    /\ \A t \in StockTokens : bal[t]["vault"] >= trackedPosition[t]
    /\ bal["pass"]["locker"] >= lockedBalance

\* The count of open positions that blocks principal exits counts the nonzero
\* positions, and a position has a cost exactly while it has units: rounding in
\* partial sales neither leaves cost behind nor makes a position free.
PositionBooks ==
    /\ openTrackedPositionCount = Cardinality({t \in StockTokens : trackedPosition[t] # 0})
    /\ positionCostUsdc = 0 <=> trackedPosition["target"] = 0

\* Double entry: the cash and the cost of the position are the principal plus
\* the realised result, less the profit already paid out, while the Vault lives.
LedgerIdentity ==
    ~closed => trackedUsdcBalance + positionCostUsdc
                 = principalBasis + realizedTradingPnl - profitPaid

\* The executor's own buys under a grant stay within that grant's budget, even
\* though the owner's direct buys use the same counter.
ExecutorBudget ==
    grant # NoGrant => executorSpent <= grant.maxTotalBuyUsdc

\* A signed call takes effect at most once however often it is broadcast.
OrderRunsOnce == \A o \in inflight : o.runs <= 1

\* A call takes effect only under the grant its signer saw: revoking or
\* replacing a grant kills every call in flight.
StaleOrderNeverRuns ==
    [][\A o \in inflight :
         [o EXCEPT !.runs = @ + 1] \in inflight' => o.sawGrant = grant]_vars

\* A profit withdrawal never pays out more than the trading gains realised so
\* far less the cost still invested (withdraw with open positions).
ProfitOnlyFromRealizedGain ==
    [][profitPaid' > profitPaid =>
         profitPaid' + positionCostUsdc <= realizedTradingPnl]_vars

\* The books of a Vault in one statement: capacity, positions and the double
\* entry hold together after every call.
BooksBalance == CapacityBacked /\ PositionBooks /\ LedgerIdentity

\* An execute call in flight takes effect at most once, and only under the
\* grant its signer saw, whatever is included before it.
OrdersHonoured == []OrderRunsOnce /\ StaleOrderNeverRuns
=============================================================================
