----------------------------- MODULE PassMarket -----------------------------
(***************************************************************************)
(* The market of one strategy PASS: the fair launch that sells the public  *)
(* half at a fixed price (AlphaForgeFairLaunch), the factory that creates  *)
(* the pool once (AlphaForgePassFactory) and the constant-product pool     *)
(* with its LP shares (AlphaForgePassPool).  The last subscription creates *)
(* and funds the pool in the same transaction.  A PASS without a fair      *)
(* launch has its pool created by the factory's configured wallet.         *)
(*                                                                         *)
(* Each external function is one atomic action.  A caller's own bounds     *)
(* (deadline, minimum output, maximum input) only make its call revert, so *)
(* an action here is the call whose bounds are met.  Anyone may transfer   *)
(* tokens anywhere, the pool's future address included.                    *)
(***************************************************************************)
EXTENDS Integers

CONSTANTS
    Users,           \* wallets that subscribe, trade and provide liquidity
    LpRecipient,     \* lpRecipient: receives the initial shares
    PublicSupply,    \* PUBLIC_SUPPLY
    LpPass,          \* LP_PASS
    LpUsdc,          \* LP_USDC
    InitialShares,   \* Math.sqrt(LP_PASS * LP_USDC)
    PassPerUsdc,     \* 2e12: raw PASS sold per raw AF-USDC
    FeeBps,          \* FEE_BPS of the pool
    Amounts,         \* token amounts used as inputs
    ShareAmounts,    \* LP share amounts used as inputs
    GiftAmounts,     \* amounts of plain transfers
    GiftTargets,     \* accounts plain transfers go to
    InitialBalance   \* [Tokens -> [Accounts -> Nat]] at deployment

VARIABLES
    bal,          \* balanceOf, per token and account
    launch,       \* [state, sold, lpShares] of the fair launch
    initializer,  \* factory.initializer(pass)
    pool,         \* [live, pass, usdc, supply]: initialized, reserves, totalSupply
    shares        \* balanceOf of the LP token

marketVars == <<bal, launch, initializer, pool, shares>>

Bps == 10000
People == Users \cup {"admin"}
Accounts == People \cup {"launch", "pool", "router", "reserve", "proceeds"}
Tokens == {"pass", "usdc"}

ASSUME MarketAssumption ==
    /\ Users \cap {"admin", "launch", "pool", "router", "reserve", "proceeds"} = {}
    /\ LpRecipient \in Users
    /\ PublicSupply \in Nat \ {0}
    /\ LpPass \in Nat \ {0}
    /\ LpUsdc \in Nat \ {0}
    /\ InitialShares \in Nat
    /\ InitialShares * InitialShares <= LpPass * LpUsdc
    /\ LpPass * LpUsdc < (InitialShares + 1) * (InitialShares + 1)
    /\ PassPerUsdc \in Nat \ {0}
    /\ FeeBps \in 1..Bps
    /\ Amounts \subseteq Nat
    /\ ShareAmounts \subseteq Nat
    /\ GiftAmounts \subseteq Nat
    /\ GiftTargets \subseteq Accounts
    /\ InitialBalance \in [Tokens -> [Accounts -> Nat]]

LaunchStates == {"PREPARING", "MINTING", "SOLD_OUT", "LAUNCHED"}

MarketTypeOK ==
    /\ bal \in [Tokens -> [Accounts -> Nat]]
    /\ launch \in [state : LaunchStates, sold : 0..PublicSupply, lpShares : Nat]
    /\ initializer \in {"none", "launch", "admin"}
    /\ pool \in [live : BOOLEAN, pass : Nat, usdc : Nat, supply : Nat]
    /\ shares \in [Accounts -> Nat]

MarketInit ==
    /\ bal = InitialBalance
    /\ launch = [state |-> "PREPARING", sold |-> 0, lpShares |-> 0]
    /\ initializer = "none"
    /\ pool = [live |-> FALSE, pass |-> 0, usdc |-> 0, supply |-> 0]
    /\ shares = [a \in Accounts |-> 0]

----------------------------------------------------------------------------
(* Arithmetic and transfers *)

MulDivDown(a, b, c) == (a * b) \div c
MulDivUp(a, b, c) == (a * b + c - 1) \div c

\* The balances b after one transfer.
Pay(b, token, from, to, amount) ==
    [b EXCEPT ![token][from] = @ - amount, ![token][to] = @ + amount]

----------------------------------------------------------------------------
(* Factory *)

ConfigureInitializer(launcher) ==
    /\ initializer = "none"
    /\ ~pool.live
    /\ initializer' = launcher
    /\ UNCHANGED <<bal, launch, pool, shares>>

\* createPool by msg.sender = from, over the balances b of the moment: pulls the
\* reserves in, initialises the pool and gives all shares to the recipient.
CreatePool(b, from, recipient) ==
    /\ initializer = from
    /\ ~pool.live
    /\ b["pass"][from] >= LpPass
    /\ b["usdc"][from] >= LpUsdc
    /\ InitialShares # 0
    /\ bal' = Pay(Pay(b, "pass", from, "pool", LpPass), "usdc", from, "pool", LpUsdc)
    /\ pool' = [live |-> TRUE, pass |-> LpPass, usdc |-> LpUsdc, supply |-> InitialShares]
    /\ shares' = [shares EXCEPT ![recipient] = @ + InitialShares]

\* The wallet configured for a PASS without a fair launch.
CreatePoolDirectly ==
    /\ CreatePool(bal, "admin", LpRecipient)
    /\ UNCHANGED <<launch, initializer>>

----------------------------------------------------------------------------
(* Fair launch *)

MintCost(passAmount) == passAmount \div PassPerUsdc

\* What openMint requires to be escrowed.
Prefunded ==
    /\ bal["pass"]["launch"] >= PublicSupply + LpPass
    /\ bal["usdc"]["launch"] >= LpUsdc

\* conversionReady: what openMint asks of the native reserve and its router.
OpenMint(conversionReady) ==
    /\ launch.state = "PREPARING"
    /\ initializer = "launch"
    /\ ~pool.live
    /\ Prefunded
    /\ conversionReady
    /\ launch' = [launch EXCEPT !.state = "MINTING"]
    /\ UNCHANGED <<bal, initializer, pool, shares>>

MayMint(passAmount) ==
    /\ launch.state = "MINTING"
    /\ passAmount # 0
    /\ passAmount % PassPerUsdc = 0
    /\ passAmount <= PublicSupply - launch.sold

\* _deliver, over the balances b after the payment, and _launch on the last one.
Deliver(b, buyer, passAmount) ==
    LET delivered == Pay(b, "pass", "launch", buyer, passAmount)
        sold == launch.sold + passAmount
    IN
    /\ b["pass"]["launch"] >= passAmount
    /\ \/ /\ sold # PublicSupply
          /\ bal' = delivered
          /\ launch' = [launch EXCEPT !.sold = sold]
          /\ UNCHANGED <<pool, shares>>
       \/ /\ sold = PublicSupply
          /\ CreatePool(delivered, "launch", LpRecipient)
          /\ launch' = [state |-> "LAUNCHED", sold |-> sold, lpShares |-> InitialShares]

SubscribeUsdc(buyer, passAmount) ==
    LET cost == MintCost(passAmount) IN
    /\ MayMint(passAmount)
    /\ bal["usdc"][buyer] >= cost
    /\ Deliver(Pay(bal, "usdc", buyer, "proceeds", cost), buyer, passAmount)
    /\ UNCHANGED initializer

----------------------------------------------------------------------------
(* Pool *)

Fee(amount) == MulDivUp(amount, FeeBps, Bps)

\* _quote
Output(reserveIn, reserveOut, amount) ==
    LET net == amount - Fee(amount) IN MulDivDown(reserveOut, net, reserveIn + net)

Quotable(reserveIn, reserveOut, amount) ==
    /\ pool.live
    /\ amount # 0
    /\ reserveIn # 0 /\ reserveOut # 0
    /\ Output(reserveIn, reserveOut, amount) # 0
    /\ Output(reserveIn, reserveOut, amount) < reserveOut

\* The pool's half of _validate: balances cover the reserves.
Covered ==
    /\ bal["pass"]["pool"] >= pool.pass
    /\ bal["usdc"]["pool"] >= pool.usdc

BuyOutput(amount) == Output(pool.usdc, pool.pass, amount)
SellOutput(amount) == Output(pool.pass, pool.usdc, amount)
Buyable(amount) == Covered /\ Quotable(pool.usdc, pool.pass, amount)
Sellable(amount) == Covered /\ Quotable(pool.pass, pool.usdc, amount)

PoolAfterBuy(amount) ==
    [pool EXCEPT !.usdc = @ + amount, !.pass = @ - BuyOutput(amount)]
PoolAfterSell(amount) ==
    [pool EXCEPT !.pass = @ + amount, !.usdc = @ - SellOutput(amount)]

Buy(trader, amount, recipient) ==
    /\ Buyable(amount)
    /\ bal["usdc"][trader] >= amount
    /\ pool' = PoolAfterBuy(amount)
    /\ bal' = Pay(Pay(bal, "usdc", trader, "pool", amount),
                  "pass", "pool", recipient, BuyOutput(amount))
    /\ UNCHANGED <<launch, initializer, shares>>

Sell(trader, amount, recipient) ==
    /\ Sellable(amount)
    /\ bal["pass"][trader] >= amount
    /\ pool' = PoolAfterSell(amount)
    /\ bal' = Pay(Pay(bal, "pass", trader, "pool", amount),
                  "usdc", "pool", recipient, SellOutput(amount))
    /\ UNCHANGED <<launch, initializer, shares>>

\* Mutant: the provider's side is rounded down.
DueMutant(n, reserve) == MulDivDown(n, reserve, pool.supply)

\* What n new shares cost, and what n shares are worth.
Due(n, reserve) == MulDivUp(n, reserve, pool.supply)
Worth(n, reserve) == MulDivDown(n, reserve, pool.supply)

AddLiquidity(provider, n, recipient) ==
    LET passAmount == Due(n, pool.pass)
        usdcAmount == Due(n, pool.usdc)
    IN
    /\ pool.live
    /\ Covered
    /\ n # 0 /\ pool.supply # 0
    /\ bal["pass"][provider] >= passAmount
    /\ bal["usdc"][provider] >= usdcAmount
    /\ pool' = [pool EXCEPT !.pass = @ + passAmount, !.usdc = @ + usdcAmount,
                            !.supply = @ + n]
    /\ shares' = [shares EXCEPT ![recipient] = @ + n]
    /\ bal' = Pay(Pay(bal, "pass", provider, "pool", passAmount),
                  "usdc", provider, "pool", usdcAmount)
    /\ UNCHANGED <<launch, initializer>>

\* Mutant: the last share may leave.
MayBurnMutant(n) == n # 0 /\ n <= pool.supply

\* The last share never leaves.
MayBurn(n) == n # 0 /\ n < pool.supply

RemoveLiquidity(provider, n, recipient) ==
    LET passAmount == Worth(n, pool.pass)
        usdcAmount == Worth(n, pool.usdc)
    IN
    /\ pool.live
    /\ Covered
    /\ MayBurn(n)
    /\ shares[provider] >= n
    /\ pool' = [pool EXCEPT !.pass = @ - passAmount, !.usdc = @ - usdcAmount,
                            !.supply = @ - n]
    /\ shares' = [shares EXCEPT ![provider] = @ - n]
    /\ bal' = Pay(Pay(bal, "pass", "pool", recipient, passAmount),
                  "usdc", "pool", recipient, usdcAmount)
    /\ UNCHANGED <<launch, initializer>>

----------------------------------------------------------------------------
(* Plain transfers *)

Transfer(token, from, to, amount) ==
    /\ amount # 0
    /\ bal[token][from] >= amount
    /\ bal' = Pay(bal, token, from, to, amount)
    /\ UNCHANGED <<launch, initializer, pool, shares>>

TransferShares(from, to, n) ==
    /\ n # 0
    /\ shares[from] >= n
    /\ shares' = [shares EXCEPT ![from] = @ - n, ![to] = @ + n]
    /\ UNCHANGED <<bal, launch, initializer, pool>>

----------------------------------------------------------------------------

\* Everything but the opening of the sale, which also asks the native reserve.
MarketStep ==
    \/ \E l \in {"launch", "admin"} : ConfigureInitializer(l)
    \/ CreatePoolDirectly
    \/ \E u \in Users, a \in Amounts : SubscribeUsdc(u, a)
    \/ \E u \in Users, a \in Amounts, r \in Users : Buy(u, a, r) \/ Sell(u, a, r)
    \/ \E u \in Users, n \in ShareAmounts, r \in Users :
         AddLiquidity(u, n, r) \/ RemoveLiquidity(u, n, r)
    \/ \E t \in Tokens, p \in People, to \in GiftTargets, a \in GiftAmounts :
         Transfer(t, p, to, a)
    \/ \E u, v \in Users, n \in ShareAmounts : TransferShares(u, v, n)

\* The launch and its pool alone: the native reserve is ready or it is not.
MarketNext ==
    \/ MarketStep
    \/ \E ready \in BOOLEAN : OpenMint(ready)

MarketSpec == MarketInit /\ [][MarketNext]_marketVars

----------------------------------------------------------------------------
(* Properties *)

\* While the sale is open everything the last subscription needs is in place, so
\* no order of subscriptions, transfers and factory calls can leave the sale
\* without its market (_launch runs inside that subscription).
SaleCanFinish ==
    launch.state = "MINTING" =>
        /\ launch.sold < PublicSupply
        /\ initializer = "launch"
        /\ ~pool.live
        /\ bal["pass"]["launch"] >= PublicSupply - launch.sold + LpPass
        /\ bal["usdc"]["launch"] >= LpUsdc

\* The pool's balances cover its reserves whatever is donated to it, before it
\* exists too, and no swap or removal empties a side or the share supply: the
\* deficit and liquidity checks of the pool never lock it.
PoolStaysLive ==
    pool.live => /\ Covered
                 /\ pool.pass > 0 /\ pool.usdc > 0 /\ pool.supply > 0

\* The product of the reserves per squared share does not fall, and a swap raises
\* the product.
ShareValueStep ==
    pool.live =>
      /\ pool'.pass * pool'.usdc * pool.supply * pool.supply
           >= pool.pass * pool.usdc * pool'.supply * pool'.supply
      /\ pool'.pass # pool.pass /\ pool'.supply = pool.supply =>
           pool'.pass * pool'.usdc > pool.pass * pool.usdc

\* No sequence of swaps and liquidity changes dilutes a share, whoever rounds, and
\* no swap, however small, is free for its trader (_quote, addLiquidity,
\* removeLiquidity).
ShareValueKept == [][ShareValueStep]_marketVars

\* A sale that opened ends with exactly one market: the shares minted at launch,
\* half of the PASS sold, nothing in between (SOLD_OUT is never seen).
LaunchIsAtomic ==
    /\ launch.state # "SOLD_OUT"
    /\ launch.state = "LAUNCHED" <=> launch.sold = PublicSupply
    /\ initializer = "launch" => (pool.live <=> launch.state = "LAUNCHED")

\* Sale, launch and pool never get stuck: the three together, after every call.
MarketStaysLive == SaleCanFinish /\ PoolStaysLive /\ LaunchIsAtomic
=============================================================================
