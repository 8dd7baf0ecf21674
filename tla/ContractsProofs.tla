-------------------------- MODULE ContractsProofs --------------------------
(***************************************************************************)
(* Proofs about PassMarket, about NativeMarket around it, and about        *)
(* TradingVault, for every supply, price, fee, grant and balance.          *)
(*                                                                         *)
(* The launch and the pool are proved together: that the last subscription *)
(* can create the market rests on the escrow, and that the pool is covered *)
(* from its first moment rests on how the launch and the factory fund it.  *)
(* The router trades on the pool like any wallet, for the reserve.  The    *)
(* trading Vault is on its own: its books, what custody holds against      *)
(* them, and what the executor plans from a snapshot of them.              *)
(***************************************************************************)
EXTENDS NativeMarket, TradingVault, FiniteSetTheorems, WellFoundedInduction, TLAPS

----------------------------------------------------------------------------
(* Arithmetic and balances *)

\* Rounded division of natural numbers (Math.mulDiv, both directions).
LEMMA MulDivTypes ==
    ASSUME NEW a \in Nat, NEW b \in Nat, NEW c \in Nat \ {0}
    PROVE  MulDivDown(a, b, c) \in Nat /\ MulDivUp(a, b, c) \in Nat
<1>1. a * b \in Nat
  OBVIOUS
<1> QED BY <1>1 DEF MulDivDown, MulDivUp

\* The fee, rounded up, is at most the amount it is taken from (_quote).
LEMMA FeeBound ==
    ASSUME NEW amount \in Nat
    PROVE  Fee(amount) \in Nat /\ Fee(amount) <= amount
<1> DEFINE x == amount * FeeBps + Bps - 1
<1>1. FeeBps \in Nat /\ FeeBps <= Bps /\ Bps = 10000
  BY MarketAssumption DEF Bps
<1>2. amount * FeeBps \in Nat /\ amount * FeeBps <= amount * 10000
  BY <1>1
<1>3. x \in Nat /\ x < amount * 10000 + 10000
  BY <1>1, <1>2
<1> HIDE DEF x
<1>4. x \div 10000 \in Nat /\ x \div 10000 <= amount
  BY <1>3
<1> QED BY <1>1, <1>4 DEF Fee, MulDivUp, x

\* What a quote pays out is a natural number.
LEMMA OutputType ==
    ASSUME NEW in \in Nat \ {0}, NEW out \in Nat, NEW amount \in Nat
    PROVE  Output(in, out, amount) \in Nat
<1> DEFINE net == amount - Fee(amount)
<1>1. net \in Nat
  BY FeeBound
<1> HIDE DEF net
<1>2. in + net \in Nat \ {0}
  BY <1>1
<1>3. MulDivDown(out, net, in + net) \in Nat
  BY <1>1, <1>2, MulDivTypes
<1> QED BY <1>3 DEF Output, net

\* Less than all shares are worth less than all of a nonempty reserve
\* (removeLiquidity rounds down and keeps the last share).
LEMMA WorthLeavesSome ==
    ASSUME NEW n \in Nat, NEW side \in Nat \ {0}, NEW supply \in Nat, n < supply
    PROVE  /\ MulDivDown(n, side, supply) \in Nat
           /\ MulDivDown(n, side, supply) < side
<1> DEFINE q == (n * side) \div supply
<1>1. n * side \in Nat /\ n * side < supply * side
  OBVIOUS
<1>2. q \in Nat /\ supply * q <= n * side
  BY <1>1
<1>3. ASSUME q >= side PROVE FALSE
  <2>1. supply * q >= supply * side
    BY <1>2, <1>3
  <2> QED BY <2>1, <1>1, <1>2
<1> QED BY <1>2, <1>3 DEF MulDivDown

----------------------------------------------------------------------------
(* The inductive invariant *)

\* A launched sale has its pool: what LaunchIsAtomic needs while the factory's
\* initializer is still to be configured.
LaunchedHasPool == launch.state = "LAUNCHED" => pool.live

MarketInv ==
    /\ MarketTypeOK
    /\ SaleCanFinish
    /\ LaunchIsAtomic
    /\ LaunchedHasPool
    /\ PoolStaysLive

\* The market starts in the invariant: nothing is sold and there is no pool.
LEMMA MarketInvInit == MarketInit => MarketInv
BY MarketAssumption
   DEF MarketInit, MarketInv, MarketTypeOK, SaleCanFinish, LaunchIsAtomic,
       LaunchedHasPool, PoolStaysLive, LaunchStates

\* Who is who: the contracts are accounts, and no wallet is one of them.
LEMMA AccountFacts ==
    /\ Users \subseteq Accounts /\ People \subseteq Accounts
    /\ {"admin", "launch", "pool", "proceeds", "reserve"} \subseteq Accounts
    /\ "pool" \notin People /\ "launch" \notin People
    /\ "pool" \notin Users /\ "launch" \notin Users
    /\ "reserve" \notin Users /\ "proceeds" \notin Users
    /\ LpRecipient \in Users
    /\ Tokens = {"pass", "usdc"}
BY MarketAssumption DEF Accounts, People, Tokens

\* configureInitializer happens once and before any pool, so it never changes
\* who may finish a sale that is open.
LEMMA ConfigureKeeps ==
    ASSUME MarketInv, NEW l \in {"launch", "admin"}, ConfigureInitializer(l)
    PROVE  MarketInv'
BY DEF MarketInv, MarketTypeOK, SaleCanFinish, LaunchIsAtomic, LaunchedHasPool,
       PoolStaysLive, Covered, ConfigureInitializer

\* openMint checks the escrow that SaleCanFinish promises.
LEMMA OpenMintKeeps ==
    ASSUME MarketInv, NEW ready, OpenMint(ready)
    PROVE  MarketInv'
<1>1. launch' = [launch EXCEPT !.state = "MINTING"] /\ launch'.state = "MINTING"
      /\ launch'.sold = launch.sold /\ launch.sold \in 0..PublicSupply
  BY DEF MarketInv, MarketTypeOK, OpenMint
<1>2. launch.sold < PublicSupply /\ PublicSupply \in Nat /\ LpPass \in Nat
  <2>1. launch.state = "PREPARING"
    BY DEF OpenMint
  <2>2. launch.sold # PublicSupply
    BY <2>1 DEF MarketInv, LaunchIsAtomic
  <2>3. PublicSupply \in Nat /\ LpPass \in Nat
    BY MarketAssumption
  <2> QED BY <1>1, <2>2, <2>3
<1>3. bal["pass"]["launch"] \in Nat /\ bal["usdc"]["launch"] \in Nat
  BY AccountFacts DEF MarketInv, MarketTypeOK
<1>4. SaleCanFinish'
  BY <1>1, <1>2, <1>3 DEF OpenMint, Prefunded, SaleCanFinish
<1>5. MarketTypeOK'
  BY <1>1 DEF MarketInv, MarketTypeOK, LaunchStates, OpenMint
<1> QED BY <1>1, <1>2, <1>4, <1>5
        DEF MarketInv, LaunchIsAtomic, LaunchedHasPool, PoolStaysLive, Covered,
            OpenMint

\* createPool leaves a covered pool, whoever funds it and whatever was donated to
\* its address before.
LEMMA CreatePoolFacts ==
    ASSUME MarketTypeOK, NEW b \in [Tokens -> [Accounts -> Nat]],
           NEW from \in {"launch", "admin"}, CreatePool(b, from, LpRecipient)
    PROVE  /\ bal' \in [Tokens -> [Accounts -> Nat]]
           /\ shares' \in [Accounts -> Nat]
           /\ pool' \in [live : BOOLEAN, pass : Nat, usdc : Nat, supply : Nat]
           /\ pool'.live
           /\ PoolStaysLive'
<1> DEFINE b1 == Pay(b, "pass", from, "pool", LpPass)
           b2 == Pay(b1, "usdc", from, "pool", LpUsdc)
<1>0. from \in Accounts /\ from # "pool" /\ "pool" \in Accounts
      /\ "pass" \in Tokens /\ "usdc" \in Tokens
  BY AccountFacts
<1>1. LpPass \in Nat \ {0} /\ LpUsdc \in Nat \ {0} /\ InitialShares \in Nat
  BY MarketAssumption
<1>2. b["pass"][from] \in Nat /\ b["usdc"][from] \in Nat
  BY <1>0
<1>3. LpPass <= b["pass"][from] /\ LpUsdc <= b["usdc"][from]
  BY <1>1, <1>2 DEF CreatePool
<1>7. b["pass"]["pool"] \in Nat /\ b["usdc"]["pool"] \in Nat
  BY <1>0
<1>4. /\ b1 \in [Tokens -> [Accounts -> Nat]]
      /\ b1["pass"]["pool"] = b["pass"]["pool"] + LpPass
      /\ b1["usdc"] = b["usdc"]
  <2>1. LpPass \in Nat /\ LpPass <= b["pass"][from] /\ "usdc" \in Tokens \ {"pass"}
    BY <1>0, <1>1, <1>3
  <2> QED BY <1>0, <1>7, <2>1 DEF Pay
<1> HIDE DEF b1
<1>5. /\ b2 \in [Tokens -> [Accounts -> Nat]]
      /\ b2["usdc"]["pool"] = b1["usdc"]["pool"] + LpUsdc
      /\ b2["pass"] = b1["pass"]
  <2>1. LpUsdc \in Nat /\ LpUsdc <= b1["usdc"][from] /\ "pass" \in Tokens \ {"usdc"}
    BY <1>0, <1>1, <1>3, <1>4
  <2>2. b1["usdc"]["pool"] \in Nat
    BY <1>0, <1>4
  <2> QED BY <1>0, <1>4, <2>1, <2>2 DEF Pay
<1> HIDE DEF b2
<1>6. bal' = b2
  BY DEF CreatePool, b1, b2
<1>8. bal'["pass"]["pool"] >= LpPass /\ bal'["usdc"]["pool"] >= LpUsdc
  BY <1>1, <1>4, <1>5, <1>6, <1>7
<1>9. pool' = [live |-> TRUE, pass |-> LpPass, usdc |-> LpUsdc, supply |-> InitialShares]
      /\ InitialShares # 0
  BY DEF CreatePool
<1>10. shares' \in [Accounts -> Nat]
  BY <1>1, AccountFacts DEF MarketTypeOK, CreatePool
<1> QED BY <1>1, <1>5, <1>6, <1>8, <1>9, <1>10 DEF PoolStaysLive, Covered

\* The configured wallet of a PASS without a fair launch creates the pool; no
\* sale is open then, since only the launch itself may be its initializer.
LEMMA CreateDirectlyKeeps == MarketInv /\ CreatePoolDirectly => MarketInv'
<1> SUFFICES ASSUME MarketInv, CreatePoolDirectly PROVE MarketInv'
  OBVIOUS
<1>1. CreatePool(bal, "admin", LpRecipient) /\ UNCHANGED <<launch, initializer>>
  BY DEF CreatePoolDirectly
<1>2. initializer = "admin"
  BY <1>1 DEF CreatePool
<1>3. /\ bal' \in [Tokens -> [Accounts -> Nat]]
      /\ shares' \in [Accounts -> Nat]
      /\ pool' \in [live : BOOLEAN, pass : Nat, usdc : Nat, supply : Nat]
      /\ pool'.live
      /\ PoolStaysLive'
  BY <1>1, CreatePoolFacts DEF MarketInv, MarketTypeOK
<1> QED BY <1>1, <1>2, <1>3
        DEF MarketInv, MarketTypeOK, SaleCanFinish, LaunchIsAtomic, LaunchedHasPool

\* One step of the balances that leaves the launch's own alone and covers the
\* pool's new reserves keeps the invariant: the shape of every pool operation.
LEMMA PoolStepKeeps ==
    ASSUME MarketInv, pool.live, pool'.live,
           bal' \in [Tokens -> [Accounts -> Nat]],
           shares' \in [Accounts -> Nat],
           pool' \in [live : BOOLEAN, pass : Nat, usdc : Nat, supply : Nat],
           bal'["pass"]["pool"] >= pool'.pass, bal'["usdc"]["pool"] >= pool'.usdc,
           pool'.pass > 0, pool'.usdc > 0, pool'.supply > 0,
           UNCHANGED <<launch, initializer>>
    PROVE  MarketInv'
BY DEF MarketInv, MarketTypeOK, SaleCanFinish, LaunchIsAtomic, LaunchedHasPool,
       PoolStaysLive, Covered

\* Who trades on the pool: the wallets, and the router for the reserve.
Traders == Users \cup {"reserve"}

\* buy: the output is below the reserve it leaves, and the balances follow.
LEMMA BuyKeeps ==
    ASSUME MarketInv, NEW u \in Traders, NEW a \in Nat, NEW r \in Traders, Buy(u, a, r)
    PROVE  MarketInv'
<1> DEFINE out == BuyOutput(a)
           b1 == Pay(bal, "usdc", u, "pool", a)
           b2 == Pay(b1, "pass", "pool", r, out)
<1>1. /\ u \in Accounts /\ r \in Accounts /\ "pool" \in Accounts
      /\ u # "pool" /\ r # "pool" /\ "pass" \in Tokens /\ "usdc" \in Tokens
  BY AccountFacts DEF Traders
<1>2. /\ pool.live
      /\ pool \in [live : BOOLEAN, pass : Nat, usdc : Nat, supply : Nat]
      /\ bal \in [Tokens -> [Accounts -> Nat]] /\ shares \in [Accounts -> Nat]
  BY DEF MarketInv, MarketTypeOK, Buy, Buyable, Quotable
<1>3. /\ pool.pass > 0 /\ pool.usdc > 0 /\ pool.supply > 0
      /\ bal["pass"]["pool"] >= pool.pass /\ bal["usdc"]["pool"] >= pool.usdc
  BY <1>2 DEF MarketInv, PoolStaysLive, Covered
<1>4. a \in Nat /\ a <= bal["usdc"][u]
  BY <1>1, <1>2, MarketAssumption DEF Buy
<1>5. out \in Nat /\ out < pool.pass
  <2>1. out \in Nat
    BY <1>2, <1>3, <1>4, OutputType DEF BuyOutput
  <2> QED BY <2>1 DEF Buy, Buyable, Quotable, BuyOutput
<1> HIDE DEF out
<1>6. /\ b1 \in [Tokens -> [Accounts -> Nat]]
      /\ b1["usdc"]["pool"] = bal["usdc"]["pool"] + a
      /\ b1["pass"]["pool"] = bal["pass"]["pool"]
  <2>1. /\ bal["usdc"][u] \in Nat /\ bal["usdc"]["pool"] \in Nat
        /\ bal["usdc"][u] - a \in Nat /\ bal["usdc"]["pool"] + a \in Nat
    BY <1>1, <1>2, <1>4
  <2>2. b1 \in [Tokens -> [Accounts -> Nat]]
    BY <1>1, <1>2, <2>1 DEF Pay
  <2> QED BY <1>1, <1>2, <1>4, <2>1, <2>2 DEF Pay
<1> HIDE DEF b1
<1>7. bal["pass"]["pool"] \in Nat /\ bal["usdc"]["pool"] \in Nat
  BY <1>1, <1>2
<1>8. /\ b2 \in [Tokens -> [Accounts -> Nat]]
      /\ b2["pass"]["pool"] = bal["pass"]["pool"] - out
      /\ b2["usdc"]["pool"] = bal["usdc"]["pool"] + a
  <2>1. out <= b1["pass"]["pool"]
    BY <1>2, <1>3, <1>5, <1>6, <1>7
  <2> QED BY <1>1, <1>5, <1>6, <2>1 DEF Pay
<1> HIDE DEF b2
<1>9. bal' = b2 /\ pool' = PoolAfterBuy(a) /\ UNCHANGED <<launch, initializer, shares>>
  BY DEF Buy, b1, b2, out
<1>10. /\ pool' \in [live : BOOLEAN, pass : Nat, usdc : Nat, supply : Nat]
       /\ pool'.live = pool.live /\ pool'.supply = pool.supply
       /\ pool'.pass = pool.pass - out /\ pool'.usdc = pool.usdc + a
  <2>1. pool' = [pool EXCEPT !.usdc = @ + a, !.pass = @ - out]
    BY <1>9 DEF PoolAfterBuy, out
  <2>2. pool.usdc + a \in Nat /\ pool.pass - out \in Nat
    BY <1>2, <1>4, <1>5
  <2> QED BY <1>2, <2>1, <2>2
<1>11. /\ bal'["pass"]["pool"] >= pool'.pass /\ bal'["usdc"]["pool"] >= pool'.usdc
       /\ pool'.pass > 0 /\ pool'.usdc > 0 /\ pool'.supply > 0
  BY <1>2, <1>3, <1>4, <1>5, <1>7, <1>8, <1>9, <1>10
<1> QED BY <1>2, <1>8, <1>9, <1>10, <1>11, PoolStepKeeps

\* sell: the same with the two sides exchanged.
LEMMA SellKeeps ==
    ASSUME MarketInv, NEW u \in Traders, NEW a \in Nat, NEW r \in Traders, Sell(u, a, r)
    PROVE  MarketInv'
<1> DEFINE out == SellOutput(a)
           b1 == Pay(bal, "pass", u, "pool", a)
           b2 == Pay(b1, "usdc", "pool", r, out)
<1>1. /\ u \in Accounts /\ r \in Accounts /\ "pool" \in Accounts
      /\ u # "pool" /\ r # "pool" /\ "usdc" \in Tokens /\ "pass" \in Tokens
  BY AccountFacts DEF Traders
<1>2. /\ pool.live
      /\ pool \in [live : BOOLEAN, pass : Nat, usdc : Nat, supply : Nat]
      /\ bal \in [Tokens -> [Accounts -> Nat]] /\ shares \in [Accounts -> Nat]
  BY DEF MarketInv, MarketTypeOK, Sell, Sellable, Quotable
<1>3. /\ pool.usdc > 0 /\ pool.pass > 0 /\ pool.supply > 0
      /\ bal["usdc"]["pool"] >= pool.usdc /\ bal["pass"]["pool"] >= pool.pass
  BY <1>2 DEF MarketInv, PoolStaysLive, Covered
<1>4. a \in Nat /\ a <= bal["pass"][u]
  BY <1>1, <1>2, MarketAssumption DEF Sell
<1>5. out \in Nat /\ out < pool.usdc
  <2>1. out \in Nat
    BY <1>2, <1>3, <1>4, OutputType DEF SellOutput
  <2> QED BY <2>1 DEF Sell, Sellable, Quotable, SellOutput
<1> HIDE DEF out
<1>6. /\ b1 \in [Tokens -> [Accounts -> Nat]]
      /\ b1["pass"]["pool"] = bal["pass"]["pool"] + a
      /\ b1["usdc"]["pool"] = bal["usdc"]["pool"]
  <2>1. /\ bal["pass"][u] \in Nat /\ bal["pass"]["pool"] \in Nat
        /\ bal["pass"][u] - a \in Nat /\ bal["pass"]["pool"] + a \in Nat
    BY <1>1, <1>2, <1>4
  <2>2. b1 \in [Tokens -> [Accounts -> Nat]]
    BY <1>1, <1>2, <2>1 DEF Pay
  <2> QED BY <1>1, <1>2, <1>4, <2>1, <2>2 DEF Pay
<1> HIDE DEF b1
<1>7. bal["usdc"]["pool"] \in Nat /\ bal["pass"]["pool"] \in Nat
  BY <1>1, <1>2
<1>8. /\ b2 \in [Tokens -> [Accounts -> Nat]]
      /\ b2["usdc"]["pool"] = bal["usdc"]["pool"] - out
      /\ b2["pass"]["pool"] = bal["pass"]["pool"] + a
  <2>1. out <= b1["usdc"]["pool"]
    BY <1>2, <1>3, <1>5, <1>6, <1>7
  <2> QED BY <1>1, <1>5, <1>6, <2>1 DEF Pay
<1> HIDE DEF b2
<1>9. bal' = b2 /\ pool' = PoolAfterSell(a) /\ UNCHANGED <<launch, initializer, shares>>
  BY DEF Sell, b1, b2, out
<1>10. /\ pool' \in [live : BOOLEAN, pass : Nat, usdc : Nat, supply : Nat]
       /\ pool'.live = pool.live /\ pool'.supply = pool.supply
       /\ pool'.usdc = pool.usdc - out /\ pool'.pass = pool.pass + a
  <2>1. pool' = [pool EXCEPT !.pass = @ + a, !.usdc = @ - out]
    BY <1>9 DEF PoolAfterSell, out
  <2>2. pool.pass + a \in Nat /\ pool.usdc - out \in Nat
    BY <1>2, <1>4, <1>5
  <2> QED BY <1>2, <2>1, <2>2
<1>11. /\ bal'["usdc"]["pool"] >= pool'.usdc /\ bal'["pass"]["pool"] >= pool'.pass
       /\ pool'.usdc > 0 /\ pool'.pass > 0 /\ pool'.supply > 0
  BY <1>2, <1>3, <1>4, <1>5, <1>7, <1>8, <1>9, <1>10
<1> QED BY <1>2, <1>8, <1>9, <1>10, <1>11, PoolStepKeeps

\* addLiquidity: the provider pays in what the reserves gain.
LEMMA AddKeeps ==
    ASSUME MarketInv, NEW u \in Users, NEW n \in ShareAmounts, NEW r \in Users,
           AddLiquidity(u, n, r)
    PROVE  MarketInv'
<1> DEFINE p == Due(n, pool.pass)
           d == Due(n, pool.usdc)
           b1 == Pay(bal, "pass", u, "pool", p)
           b2 == Pay(b1, "usdc", u, "pool", d)
<1>1. /\ u \in Accounts /\ r \in Accounts /\ "pool" \in Accounts
      /\ u # "pool" /\ "pass" \in Tokens /\ "usdc" \in Tokens
  BY AccountFacts
<1>2. /\ pool.live
      /\ pool \in [live : BOOLEAN, pass : Nat, usdc : Nat, supply : Nat]
      /\ bal \in [Tokens -> [Accounts -> Nat]] /\ shares \in [Accounts -> Nat]
  BY DEF MarketInv, MarketTypeOK, AddLiquidity
<1>3. /\ pool.pass > 0 /\ pool.usdc > 0 /\ pool.supply > 0
      /\ bal["pass"]["pool"] >= pool.pass /\ bal["usdc"]["pool"] >= pool.usdc
  BY <1>2 DEF MarketInv, PoolStaysLive, Covered
<1>4. n \in Nat /\ p \in Nat /\ d \in Nat
  <2>1. n \in Nat
    BY MarketAssumption
  <2> QED BY <1>2, <1>3, <2>1, MulDivTypes DEF Due
<1>5. /\ bal["pass"][u] >= p /\ bal["usdc"][u] >= d
      /\ bal' = b2
      /\ pool' = [pool EXCEPT !.pass = @ + p, !.usdc = @ + d, !.supply = @ + n]
      /\ shares' = [shares EXCEPT ![r] = @ + n]
      /\ UNCHANGED <<launch, initializer>>
  BY DEF AddLiquidity
<1> HIDE DEF p, d
<1>6. /\ b1 \in [Tokens -> [Accounts -> Nat]]
      /\ b1["pass"]["pool"] = bal["pass"]["pool"] + p
      /\ b1["usdc"] = bal["usdc"]
  BY <1>1, <1>2, <1>4, <1>5 DEF Pay
<1> HIDE DEF b1
<1>7. bal["pass"]["pool"] \in Nat /\ bal["usdc"]["pool"] \in Nat
  BY <1>1, <1>2
<1>8. /\ b2 \in [Tokens -> [Accounts -> Nat]]
      /\ b2["usdc"]["pool"] = bal["usdc"]["pool"] + d
      /\ b2["pass"]["pool"] = bal["pass"]["pool"] + p
  BY <1>1, <1>2, <1>4, <1>5, <1>6, <1>7 DEF Pay
<1> HIDE DEF b2
<1>9. /\ pool' \in [live : BOOLEAN, pass : Nat, usdc : Nat, supply : Nat]
      /\ pool'.live = pool.live /\ pool'.supply = pool.supply + n
      /\ pool'.pass = pool.pass + p /\ pool'.usdc = pool.usdc + d
  <2>1. pool.pass + p \in Nat /\ pool.usdc + d \in Nat /\ pool.supply + n \in Nat
    BY <1>2, <1>4
  <2> QED BY <1>2, <1>5, <2>1
<1>10. /\ bal'["pass"]["pool"] >= pool'.pass /\ bal'["usdc"]["pool"] >= pool'.usdc
       /\ pool'.pass > 0 /\ pool'.usdc > 0 /\ pool'.supply > 0
  BY <1>2, <1>3, <1>4, <1>5, <1>7, <1>8, <1>9
<1>11. shares' \in [Accounts -> Nat]
  BY <1>1, <1>2, <1>4, <1>5
<1> QED BY <1>2, <1>5, <1>8, <1>9, <1>10, <1>11, PoolStepKeeps

\* removeLiquidity: fewer than all shares take less than all of each reserve.
LEMMA RemoveKeeps ==
    ASSUME MarketInv, NEW u \in Users, NEW n \in ShareAmounts, NEW r \in Users,
           RemoveLiquidity(u, n, r)
    PROVE  MarketInv'
<1> DEFINE p == Worth(n, pool.pass)
           d == Worth(n, pool.usdc)
           b1 == Pay(bal, "pass", "pool", r, p)
           b2 == Pay(b1, "usdc", "pool", r, d)
<1>1. /\ u \in Accounts /\ r \in Accounts /\ "pool" \in Accounts
      /\ r # "pool" /\ "pass" \in Tokens /\ "usdc" \in Tokens
  BY AccountFacts
<1>2. /\ pool.live
      /\ pool \in [live : BOOLEAN, pass : Nat, usdc : Nat, supply : Nat]
      /\ bal \in [Tokens -> [Accounts -> Nat]] /\ shares \in [Accounts -> Nat]
  BY DEF MarketInv, MarketTypeOK, RemoveLiquidity
<1>3. /\ pool.pass > 0 /\ pool.usdc > 0 /\ pool.supply > 0
      /\ bal["pass"]["pool"] >= pool.pass /\ bal["usdc"]["pool"] >= pool.usdc
  BY <1>2 DEF MarketInv, PoolStaysLive, Covered
<1>4. n \in Nat /\ n < pool.supply
  BY MarketAssumption DEF RemoveLiquidity, MayBurn
<1>5. p \in Nat /\ d \in Nat /\ p < pool.pass /\ d < pool.usdc
  BY <1>2, <1>3, <1>4, WorthLeavesSome DEF Worth
<1>6. /\ bal' = b2
      /\ pool' = [pool EXCEPT !.pass = @ - p, !.usdc = @ - d, !.supply = @ - n]
      /\ shares' = [shares EXCEPT ![u] = @ - n] /\ shares[u] >= n
      /\ UNCHANGED <<launch, initializer>>
  BY DEF RemoveLiquidity
<1> HIDE DEF p, d
<1>7. bal["pass"]["pool"] \in Nat /\ bal["usdc"]["pool"] \in Nat
  BY <1>1, <1>2
<1>8. /\ b1 \in [Tokens -> [Accounts -> Nat]]
      /\ b1["pass"]["pool"] = bal["pass"]["pool"] - p
      /\ b1["usdc"] = bal["usdc"]
  <2>1. p <= bal["pass"]["pool"]
    BY <1>2, <1>3, <1>5, <1>7
  <2> QED BY <1>1, <1>2, <1>5, <2>1 DEF Pay
<1> HIDE DEF b1
<1>9. /\ b2 \in [Tokens -> [Accounts -> Nat]]
      /\ b2["usdc"]["pool"] = bal["usdc"]["pool"] - d
      /\ b2["pass"]["pool"] = bal["pass"]["pool"] - p
  <2>1. d <= b1["usdc"]["pool"]
    BY <1>2, <1>3, <1>5, <1>7, <1>8
  <2> QED BY <1>1, <1>5, <1>8, <2>1 DEF Pay
<1> HIDE DEF b2
<1>10. /\ pool' \in [live : BOOLEAN, pass : Nat, usdc : Nat, supply : Nat]
       /\ pool'.live = pool.live /\ pool'.supply = pool.supply - n
       /\ pool'.pass = pool.pass - p /\ pool'.usdc = pool.usdc - d
  <2>1. pool.pass - p \in Nat /\ pool.usdc - d \in Nat /\ pool.supply - n \in Nat
    BY <1>2, <1>4, <1>5
  <2> QED BY <1>2, <1>6, <2>1
<1>11. /\ bal'["pass"]["pool"] >= pool'.pass /\ bal'["usdc"]["pool"] >= pool'.usdc
       /\ pool'.pass > 0 /\ pool'.usdc > 0 /\ pool'.supply > 0
  BY <1>2, <1>3, <1>4, <1>5, <1>6, <1>7, <1>9, <1>10
<1>12. shares' \in [Accounts -> Nat]
  BY <1>1, <1>2, <1>4, <1>6
<1> QED BY <1>2, <1>6, <1>9, <1>10, <1>11, <1>12, PoolStepKeeps

\* A plain transfer takes from a wallet or the reserve, never from the launch or the
\* pool, so it can only add to what they hold.
LEMMA TransferKeeps ==
    ASSUME MarketInv, NEW t \in Tokens, NEW p \in Accounts \ {"pool", "launch"},
           NEW to \in Accounts, NEW a \in Nat, Transfer(t, p, to, a)
    PROVE  MarketInv'
<1>1. /\ p \in Accounts /\ to \in Accounts /\ p # "pool" /\ p # "launch"
      /\ "pool" \in Accounts /\ "launch" \in Accounts
      /\ "pass" \in Tokens /\ "usdc" \in Tokens
  BY AccountFacts, MarketAssumption
<1>2. a \in Nat /\ bal \in [Tokens -> [Accounts -> Nat]]
  BY MarketAssumption DEF MarketInv, MarketTypeOK
<1>3. /\ a <= bal[t][p] /\ bal' = Pay(bal, t, p, to, a)
      /\ UNCHANGED <<launch, initializer, pool, shares>>
  BY <1>1, <1>2 DEF Transfer
<1>4. bal' \in [Tokens -> [Accounts -> Nat]]
  BY <1>1, <1>2, <1>3 DEF Pay
<1>5. \A s \in Tokens : /\ bal'[s]["pool"] >= bal[s]["pool"]
                        /\ bal'[s]["launch"] >= bal[s]["launch"]
  BY <1>1, <1>2, <1>3 DEF Pay
<1>6. MarketTypeOK' /\ LaunchIsAtomic' /\ LaunchedHasPool'
  BY <1>3, <1>4 DEF MarketInv, MarketTypeOK, LaunchIsAtomic, LaunchedHasPool
<1>7. /\ bal["pass"]["pool"] \in Nat /\ bal["usdc"]["pool"] \in Nat
      /\ bal["pass"]["launch"] \in Nat /\ bal["usdc"]["launch"] \in Nat
      /\ bal'["pass"]["pool"] \in Nat /\ bal'["usdc"]["pool"] \in Nat
      /\ bal'["pass"]["launch"] \in Nat /\ bal'["usdc"]["launch"] \in Nat
  BY <1>1, <1>2, <1>4
<1>8. PublicSupply \in Nat /\ LpPass \in Nat /\ LpUsdc \in Nat
      /\ launch.sold \in Int /\ pool.pass \in Nat /\ pool.usdc \in Nat
  BY MarketAssumption DEF MarketInv, MarketTypeOK
<1>9. SaleCanFinish'
  BY <1>1, <1>3, <1>5, <1>7, <1>8 DEF MarketInv, SaleCanFinish
<1>10. PoolStaysLive'
  BY <1>1, <1>3, <1>5, <1>7, <1>8 DEF MarketInv, PoolStaysLive, Covered
<1> QED BY <1>6, <1>9, <1>10 DEF MarketInv

\* LP shares move between wallets; nothing else does.
LEMMA TransferSharesKeeps ==
    ASSUME MarketInv, NEW u \in Users, NEW w \in Users, NEW n \in ShareAmounts,
           TransferShares(u, w, n)
    PROVE  MarketInv'
<1>1. u \in Accounts /\ w \in Accounts /\ n \in Nat
  BY AccountFacts, MarketAssumption
<1>2. shares' \in [Accounts -> Nat]
  BY <1>1 DEF MarketInv, MarketTypeOK, TransferShares
<1> QED BY <1>2 DEF MarketInv, MarketTypeOK, SaleCanFinish, LaunchIsAtomic,
                    LaunchedHasPool, PoolStaysLive, Covered, TransferShares

\* _deliver: each sale lowers the escrow by what is sold, and the last one creates
\* the market out of what is left.  The payment came before, to the balances b1.
LEMMA DeliverKeeps ==
    ASSUME MarketInv, NEW u \in Users, NEW a \in Nat, MayMint(a),
           NEW b1 \in [Tokens -> [Accounts -> Nat]],
           b1["usdc"]["launch"] = bal["usdc"]["launch"], b1["pass"] = bal["pass"],
           Deliver(b1, u, a), UNCHANGED initializer
    PROVE  MarketInv'
<1> DEFINE b2 == Pay(b1, "pass", "launch", u, a)
           sold == launch.sold + a
<1>1. /\ u \in Accounts /\ u # "pool" /\ u # "launch" /\ u # "proceeds"
      /\ "pool" \in Accounts /\ "launch" \in Accounts /\ "proceeds" \in Accounts
      /\ "pass" \in Tokens /\ "usdc" \in Tokens
  BY AccountFacts, MarketAssumption
<1>2. /\ bal \in [Tokens -> [Accounts -> Nat]]
      /\ launch \in [state : LaunchStates, sold : 0..PublicSupply, lpShares : Nat]
      /\ initializer \in {"none", "launch", "admin"}
  BY DEF MarketInv, MarketTypeOK
<1>3. /\ PublicSupply \in Nat \ {0} /\ LpPass \in Nat \ {0} /\ LpUsdc \in Nat \ {0}
      /\ InitialShares \in Nat /\ a \in Nat
  BY MarketAssumption
<1>4. /\ launch.state = "MINTING" /\ a # 0 /\ a <= PublicSupply - launch.sold
      /\ Deliver(b1, u, a) /\ UNCHANGED initializer
  BY DEF MayMint
<1>6. /\ launch.sold \in Nat /\ launch.sold < PublicSupply
      /\ initializer = "launch" /\ ~pool.live
      /\ bal["pass"]["launch"] >= PublicSupply - launch.sold + LpPass
      /\ bal["usdc"]["launch"] >= LpUsdc
  BY <1>2, <1>3, <1>4 DEF MarketInv, SaleCanFinish
<1>7. /\ b1 \in [Tokens -> [Accounts -> Nat]]
      /\ b1["usdc"]["launch"] = bal["usdc"]["launch"]
      /\ b1["pass"] = bal["pass"]
  OBVIOUS
<1>8. bal["pass"]["launch"] \in Nat /\ bal["usdc"]["launch"] \in Nat
  BY <1>1, <1>2
<1>9. /\ b2 \in [Tokens -> [Accounts -> Nat]]
      /\ b2["pass"]["launch"] = bal["pass"]["launch"] - a
      /\ b2["usdc"]["launch"] = bal["usdc"]["launch"]
  <2>1. a <= b1["pass"]["launch"]
    BY <1>3, <1>4, <1>6, <1>7, <1>8
  <2> QED BY <1>1, <1>3, <1>7, <2>1 DEF Pay
<1> HIDE DEF b2
<1>10. CASE sold # PublicSupply
  <2>1. /\ bal' = b2 /\ launch' = [launch EXCEPT !.sold = sold]
        /\ UNCHANGED <<pool, shares>>
    BY <1>4, <1>10 DEF Deliver, b2
  <2>2. /\ launch' \in [state : LaunchStates, sold : 0..PublicSupply, lpShares : Nat]
        /\ launch'.state = "MINTING" /\ launch'.sold = sold /\ sold < PublicSupply
    <3>1. sold \in 0..PublicSupply /\ sold < PublicSupply
      BY <1>3, <1>4, <1>6, <1>10
    <3> QED BY <1>2, <1>4, <2>1, <3>1
  <2>3. SaleCanFinish'
    BY <1>3, <1>4, <1>6, <1>8, <1>9, <2>1, <2>2 DEF SaleCanFinish
  <2>4. MarketTypeOK'
    BY <1>2, <1>4, <1>9, <2>1, <2>2 DEF MarketInv, MarketTypeOK
  <2> QED BY <1>3, <1>4, <1>6, <2>1, <2>2, <2>3, <2>4
          DEF MarketInv, LaunchIsAtomic, LaunchedHasPool, PoolStaysLive
<1>11. CASE sold = PublicSupply
  <2>1. /\ CreatePool(b2, "launch", LpRecipient)
        /\ launch' = [state |-> "LAUNCHED", sold |-> sold, lpShares |-> InitialShares]
    BY <1>4, <1>11 DEF Deliver, b2
  <2>2. /\ bal' \in [Tokens -> [Accounts -> Nat]]
        /\ shares' \in [Accounts -> Nat]
        /\ pool' \in [live : BOOLEAN, pass : Nat, usdc : Nat, supply : Nat]
        /\ pool'.live
        /\ PoolStaysLive'
    BY <1>9, <2>1, CreatePoolFacts DEF MarketInv
  <2>3. MarketTypeOK'
    BY <1>2, <1>3, <1>4, <1>11, <2>1, <2>2 DEF MarketTypeOK, LaunchStates
  <2> QED BY <1>4, <1>11, <2>1, <2>2, <2>3
          DEF MarketInv, SaleCanFinish, LaunchIsAtomic, LaunchedHasPool
<1> QED BY <1>10, <1>11

\* subscribeUsdc: the cost goes to the proceeds, past the launch.
LEMMA SubscribeKeeps ==
    ASSUME MarketInv, NEW u \in Users, NEW a \in Amounts, SubscribeUsdc(u, a)
    PROVE  MarketInv'
<1>1. /\ u \in Accounts /\ u # "launch" /\ "proceeds" \in Accounts /\ "launch" \in Accounts
      /\ "pass" \in Tokens /\ "usdc" \in Tokens
  BY AccountFacts
<1>2. bal \in [Tokens -> [Accounts -> Nat]] /\ a \in Nat /\ PassPerUsdc \in Nat \ {0}
  BY MarketAssumption DEF MarketInv, MarketTypeOK
<1>3. PICK cost \in Nat : cost = MintCost(a)
  BY <1>2 DEF MintCost
<1>4. PICK b1 : b1 = Pay(bal, "usdc", u, "proceeds", cost)
  OBVIOUS
<1>5. MayMint(a) /\ bal["usdc"][u] >= cost /\ Deliver(b1, u, a) /\ UNCHANGED initializer
  BY <1>3, <1>4 DEF SubscribeUsdc
<1>6. bal["usdc"][u] \in Nat /\ cost <= bal["usdc"][u]
  BY <1>1, <1>2, <1>5
<1>7. /\ b1 \in [Tokens -> [Accounts -> Nat]]
      /\ b1["usdc"]["launch"] = bal["usdc"]["launch"]
      /\ b1["pass"] = bal["pass"]
  BY <1>1, <1>2, <1>4, <1>6 DEF Pay
<1> QED BY <1>2, <1>5, <1>7, DeliverKeeps

\* Every step of the market keeps the invariant.
LEMMA MarketInvStep == MarketInv /\ [MarketNext]_marketVars => MarketInv'
<1> SUFFICES ASSUME MarketInv, [MarketNext]_marketVars PROVE MarketInv'
  OBVIOUS
<1>1. CASE UNCHANGED marketVars
  BY <1>1 DEF marketVars, MarketInv, MarketTypeOK, SaleCanFinish, LaunchIsAtomic,
              LaunchedHasPool, PoolStaysLive, Covered
<1>2. /\ \A u \in Users, a \in Amounts, r \in Users : Buy(u, a, r) \/ Sell(u, a, r) => MarketInv'
      /\ \A t \in Tokens, p \in People, to \in GiftTargets, a \in GiftAmounts :
            Transfer(t, p, to, a) => MarketInv'
  <2>1. Users \subseteq Traders /\ Amounts \subseteq Nat /\ GiftAmounts \subseteq Nat
    BY MarketAssumption DEF Traders
  <2>2. People \subseteq Accounts \ {"pool", "launch"} /\ GiftTargets \subseteq Accounts
    BY AccountFacts, MarketAssumption
  <2> QED BY <2>1, <2>2, BuyKeeps, SellKeeps, TransferKeeps
<1>3. CASE MarketNext
  BY <1>2, <1>3, ConfigureKeeps, CreateDirectlyKeeps, OpenMintKeeps, SubscribeKeeps,
     AddKeeps, RemoveKeeps, TransferSharesKeeps DEF MarketNext, MarketStep
<1> QED BY <1>1, <1>3

\* The inductive invariant holds in every reachable state.
THEOREM MarketInvariant == MarketSpec => []MarketInv
BY MarketInvInit, MarketInvStep, PTL DEF MarketSpec

\* Every reachable state of launch, factory and pool has its types: no balance
\* and no reserve ever falls below zero.
THEOREM MarketTypeCorrect == MarketSpec => []MarketTypeOK
<1>1. MarketInv => MarketTypeOK
  BY DEF MarketInv
<1> QED BY <1>1, MarketInvariant, PTL

\* However the sale is subscribed, its last subscription finds what _launch needs.
THEOREM SaleFinishes == MarketSpec => []SaleCanFinish
<1>1. MarketInv => SaleCanFinish
  BY DEF MarketInv
<1> QED BY <1>1, MarketInvariant, PTL

\* SOLD_OUT is never observed, and a launched sale is one with a market.
THEOREM LaunchAtomicCorrect == MarketSpec => []LaunchIsAtomic
<1>1. MarketInv => LaunchIsAtomic
  BY DEF MarketInv
<1> QED BY <1>1, MarketInvariant, PTL

\* A pool never loses a side, its last share or the cover of its reserves.
THEOREM PoolLiveCorrect == MarketSpec => []PoolStaysLive
<1>1. MarketInv => PoolStaysLive
  BY DEF MarketInv
<1> QED BY <1>1, MarketInvariant, PTL

----------------------------------------------------------------------------
(* What a share is worth *)

\* Products of natural numbers are monotone.
LEMMA ProductMono ==
    ASSUME NEW x \in Nat, NEW y \in Nat, NEW z \in Nat, NEW w \in Nat,
           x >= y, z >= w
    PROVE  x * z >= y * w
<1>1. x * z >= y * z
  OBVIOUS
<1>2. y * z >= y * w
  OBVIOUS
<1>3. x * z \in Nat /\ y * z \in Nat /\ y * w \in Nat
  OBVIOUS
<1> QED BY <1>1, <1>2, <1>3

\* Two reserves that each keep their amount per share keep their product per
\* squared share.
LEMMA PerShare ==
    ASSUME NEW p1 \in Nat, NEW d1 \in Nat, NEW s1 \in Nat,
           NEW p \in Nat, NEW d \in Nat, NEW s \in Nat,
           p1 * s >= p * s1, d1 * s >= d * s1
    PROVE  p1 * d1 * s * s >= p * d * s1 * s1
<1>1. /\ p1 * s \in Nat /\ p * s1 \in Nat
      /\ d1 * s \in Nat /\ d * s1 \in Nat
  OBVIOUS
<1>2. (p1 * s) * (d1 * s) >= (p * s1) * (d * s1)
  BY <1>1, ProductMono
<1>3. p1 * d1 * s * s = (p1 * s) * (d1 * s)
  OBVIOUS
<1>4. p * d * s1 * s1 = (p * s1) * (d * s1)
  OBVIOUS
<1> QED BY <1>2, <1>3, <1>4

\* A nonzero amount pays a nonzero fee.
LEMMA FeePositive ==
    ASSUME NEW amount \in Nat \ {0} PROVE Fee(amount) > 0
<1>1. FeeBps \in Nat /\ FeeBps >= 1 /\ Bps = 10000
  BY MarketAssumption DEF Bps
<1>2. amount * FeeBps \in Nat /\ amount * FeeBps >= 1
  BY <1>1
<1>3. amount * FeeBps + 10000 - 1 >= 10000
  BY <1>2
<1> DEFINE x == amount * FeeBps + 10000 - 1
<1>4. x \in Nat /\ x >= 10000
  BY <1>2, <1>3
<1> HIDE DEF x
<1>5. x \div 10000 > 0
  BY <1>4
<1> QED BY <1>1, <1>5 DEF Fee, MulDivUp, x

\* A swap raises the product of the reserves: the output is rounded down and
\* computed without the fee, which stays in the pool (_quote).
LEMMA SwapRaisesProduct ==
    ASSUME NEW in \in Nat \ {0}, NEW out \in Nat, NEW amount \in Nat \ {0},
           Output(in, out, amount) < out
    PROVE  /\ Output(in, out, amount) \in Nat
           /\ (in + amount) * (out - Output(in, out, amount)) > in * out
<1> DEFINE net == amount - Fee(amount)
           q == (out * net) \div (in + net)
<1>1. net \in Nat /\ net < amount
  BY FeeBound, FeePositive
<1> HIDE DEF net
<1>2. in + net \in Nat \ {0} /\ out * net \in Nat
  BY <1>1
<1>3. q \in Nat /\ (in + net) * q <= out * net
  BY <1>2
<1>4. Output(in, out, amount) = q
  BY DEF Output, MulDivDown, net
<1> HIDE DEF q
<1>5. out - q \in Nat \ {0}
  BY <1>3, <1>4
<1>6. (in + net) * (out - q) >= in * out
  <2>1. (in + net) * (out - q) = in * out + out * net - (in + net) * q
    BY <1>1, <1>3
  <2>2. in * out \in Nat /\ (in + net) * q \in Nat
    BY <1>2, <1>3
  <2> QED BY <1>2, <1>3, <2>1, <2>2
<1>7. (in + amount) * (out - q) > (in + net) * (out - q)
  BY <1>1, <1>5
<1>8. (in + amount) * (out - q) \in Nat /\ (in + net) * (out - q) \in Nat /\ in * out \in Nat
  BY <1>1, <1>5
<1> QED BY <1>3, <1>4, <1>6, <1>7, <1>8

\* What addLiquidity asks for n shares keeps a reserve's amount per share.
LEMMA DueKeepsShare ==
    ASSUME NEW n \in Nat, NEW side \in Nat, NEW supply \in Nat \ {0}
    PROVE  (side + MulDivUp(n, side, supply)) * supply >= side * (supply + n)
<1> DEFINE x == n * side + supply - 1
           q == x \div supply
<1>1. x \in Nat /\ n * side \in Nat
  <2>1. n * side \in Nat
    OBVIOUS
  <2> QED BY <2>1
<1>2. q \in Nat /\ x < supply * q + supply
  BY <1>1
<1>3. supply * q >= n * side
  BY <1>1, <1>2
<1> HIDE DEF q
<1>4. (side + q) * supply = side * supply + supply * q
  BY <1>2
<1>5. side * (supply + n) = side * supply + n * side
  OBVIOUS
<1>6. (side + q) * supply >= side * (supply + n)
  <2>1. side * supply \in Nat /\ supply * q \in Nat
    BY <1>2
  <2> QED BY <1>1, <1>3, <1>4, <1>5, <2>1
<1>7. MulDivUp(n, side, supply) = q
  BY DEF MulDivUp, q
<1> QED BY <1>6, <1>7

\* What removeLiquidity pays for n shares keeps a reserve's amount per share.
LEMMA WorthKeepsShare ==
    ASSUME NEW n \in Nat, NEW side \in Nat, NEW supply \in Nat \ {0}, n < supply
    PROVE  (side - MulDivDown(n, side, supply)) * supply >= side * (supply - n)
<1> DEFINE q == (n * side) \div supply
<1>1. n * side \in Nat
  OBVIOUS
<1>2. q \in Nat /\ supply * q <= n * side
  BY <1>1
<1> HIDE DEF q
<1>3. (side - q) * supply = side * supply - supply * q
  BY <1>2
<1>4. side * (supply - n) = side * supply - n * side
  OBVIOUS
<1>5. (side - q) * supply >= side * (supply - n)
  <2>1. side * supply \in Nat /\ supply * q \in Nat
    BY <1>2
  <2> QED BY <1>1, <1>2, <1>3, <1>4, <2>1
<1>6. MulDivDown(n, side, supply) = q
  BY DEF MulDivDown, q
<1> QED BY <1>5, <1>6

\* buy: supply unchanged, product raised.
LEMMA BuyValue ==
    ASSUME MarketInv, NEW u \in Traders, NEW a \in Nat, NEW r \in Traders, Buy(u, a, r)
    PROVE  ShareValueStep
<1> DEFINE out == BuyOutput(a)
<1>1. /\ pool.live
      /\ pool \in [live : BOOLEAN, pass : Nat, usdc : Nat, supply : Nat]
  BY DEF MarketInv, MarketTypeOK, Buy, Buyable, Quotable
<1>2. pool.pass \in Nat \ {0} /\ pool.usdc \in Nat \ {0} /\ pool.supply \in Nat
  BY <1>1 DEF MarketInv, PoolStaysLive
<1>3. a \in Nat \ {0}
  BY MarketAssumption DEF Buy, Buyable, Quotable
<1>4. out = Output(pool.usdc, pool.pass, a) /\ out < pool.pass
  BY DEF Buy, Buyable, Quotable, BuyOutput
<1>5. out \in Nat /\ (pool.usdc + a) * (pool.pass - out) > pool.usdc * pool.pass
  BY <1>2, <1>3, <1>4, SwapRaisesProduct
<1>6. pool' = [pool EXCEPT !.usdc = @ + a, !.pass = @ - out]
  BY DEF Buy, PoolAfterBuy
<1> HIDE DEF out
<1>7. /\ pool'.usdc = pool.usdc + a /\ pool'.pass = pool.pass - out
      /\ pool'.supply = pool.supply
  BY <1>1, <1>6
<1> DEFINE k == pool.pass * pool.usdc
           k1 == pool'.pass * pool'.usdc
<1>8. pool'.pass \in Nat /\ pool'.usdc \in Nat
  BY <1>2, <1>3, <1>4, <1>5, <1>7
<1>9. k1 > k /\ k \in Nat /\ k1 \in Nat
  BY <1>2, <1>5, <1>7, <1>8
<1>10. pool.supply * pool.supply \in Nat
  BY <1>2
<1>11. k1 * (pool.supply * pool.supply) >= k * (pool.supply * pool.supply)
  <2> HIDE DEF k, k1
  <2>1. k1 >= k
    BY <1>9
  <2> QED BY <1>9, <1>10, <2>1, ProductMono
<1>12. /\ k1 * (pool.supply * pool.supply) = pool'.pass * pool'.usdc * pool.supply * pool.supply
       /\ k * (pool.supply * pool.supply) = pool.pass * pool.usdc * pool'.supply * pool'.supply
  BY <1>2, <1>7, <1>8
<1> QED BY <1>9, <1>11, <1>12 DEF ShareValueStep

\* sell: supply unchanged, product raised.
LEMMA SellValue ==
    ASSUME MarketInv, NEW u \in Traders, NEW a \in Nat, NEW r \in Traders, Sell(u, a, r)
    PROVE  ShareValueStep
<1> DEFINE out == SellOutput(a)
<1>1. /\ pool.live
      /\ pool \in [live : BOOLEAN, pass : Nat, usdc : Nat, supply : Nat]
  BY DEF MarketInv, MarketTypeOK, Sell, Sellable, Quotable
<1>2. pool.pass \in Nat \ {0} /\ pool.usdc \in Nat \ {0} /\ pool.supply \in Nat
  BY <1>1 DEF MarketInv, PoolStaysLive
<1>3. a \in Nat \ {0}
  BY MarketAssumption DEF Sell, Sellable, Quotable
<1>4. out = Output(pool.pass, pool.usdc, a) /\ out < pool.usdc
  BY DEF Sell, Sellable, Quotable, SellOutput
<1>5. out \in Nat /\ (pool.pass + a) * (pool.usdc - out) > pool.pass * pool.usdc
  BY <1>2, <1>3, <1>4, SwapRaisesProduct
<1>6. pool' = [pool EXCEPT !.pass = @ + a, !.usdc = @ - out]
  BY DEF Sell, PoolAfterSell
<1> HIDE DEF out
<1>7. /\ pool'.pass = pool.pass + a /\ pool'.usdc = pool.usdc - out
      /\ pool'.supply = pool.supply
  BY <1>1, <1>6
<1> DEFINE k == pool.pass * pool.usdc
           k1 == pool'.pass * pool'.usdc
<1>8. pool'.pass \in Nat /\ pool'.usdc \in Nat
  BY <1>2, <1>3, <1>4, <1>5, <1>7
<1>9. k1 > k /\ k \in Nat /\ k1 \in Nat
  BY <1>2, <1>5, <1>7, <1>8
<1>10. pool.supply * pool.supply \in Nat
  BY <1>2
<1>11. k1 * (pool.supply * pool.supply) >= k * (pool.supply * pool.supply)
  <2> HIDE DEF k, k1
  <2>1. k1 >= k
    BY <1>9
  <2> QED BY <1>9, <1>10, <2>1, ProductMono
<1>12. /\ k1 * (pool.supply * pool.supply) = pool'.pass * pool'.usdc * pool.supply * pool.supply
       /\ k * (pool.supply * pool.supply) = pool.pass * pool.usdc * pool'.supply * pool'.supply
  BY <1>2, <1>7, <1>8
<1> QED BY <1>9, <1>11, <1>12 DEF ShareValueStep

\* addLiquidity: each reserve keeps its amount per share.
LEMMA AddValue ==
    ASSUME MarketInv, NEW u \in Users, NEW n \in ShareAmounts, NEW r \in Users,
           AddLiquidity(u, n, r)
    PROVE  ShareValueStep
<1> DEFINE p == Due(n, pool.pass)
           d == Due(n, pool.usdc)
<1>1. /\ pool.live
      /\ pool \in [live : BOOLEAN, pass : Nat, usdc : Nat, supply : Nat]
  BY DEF MarketInv, MarketTypeOK, AddLiquidity
<1>2. pool.pass \in Nat \ {0} /\ pool.usdc \in Nat \ {0} /\ pool.supply \in Nat \ {0}
  BY <1>1 DEF MarketInv, PoolStaysLive
<1>3. n \in Nat \ {0}
  BY MarketAssumption DEF AddLiquidity
<1>4. pool' = [pool EXCEPT !.pass = @ + p, !.usdc = @ + d, !.supply = @ + n]
  BY DEF AddLiquidity
<1>5. p \in Nat /\ d \in Nat
  BY <1>2, <1>3, MulDivTypes DEF Due
<1>6. /\ (pool.pass + p) * pool.supply >= pool.pass * (pool.supply + n)
      /\ (pool.usdc + d) * pool.supply >= pool.usdc * (pool.supply + n)
  BY <1>2, <1>3, DueKeepsShare DEF Due
<1> HIDE DEF p, d
<1>7. /\ pool'.pass = pool.pass + p /\ pool'.usdc = pool.usdc + d
      /\ pool'.supply = pool.supply + n
  BY <1>1, <1>4
<1>8. pool'.pass \in Nat /\ pool'.usdc \in Nat /\ pool'.supply \in Nat
      /\ pool'.supply # pool.supply
  BY <1>2, <1>3, <1>5, <1>7
<1>9. /\ pool'.pass * pool.supply >= pool.pass * pool'.supply
      /\ pool'.usdc * pool.supply >= pool.usdc * pool'.supply
  BY <1>6, <1>7
<1>10. pool'.pass * pool'.usdc * pool.supply * pool.supply
         >= pool.pass * pool.usdc * pool'.supply * pool'.supply
  BY <1>2, <1>8, <1>9, PerShare
<1> QED BY <1>8, <1>10 DEF ShareValueStep

\* removeLiquidity: each reserve keeps its amount per share.
LEMMA RemoveValue ==
    ASSUME MarketInv, NEW u \in Users, NEW n \in ShareAmounts, NEW r \in Users,
           RemoveLiquidity(u, n, r)
    PROVE  ShareValueStep
<1> DEFINE p == Worth(n, pool.pass)
           d == Worth(n, pool.usdc)
<1>1. /\ pool.live
      /\ pool \in [live : BOOLEAN, pass : Nat, usdc : Nat, supply : Nat]
  BY DEF MarketInv, MarketTypeOK, RemoveLiquidity
<1>2. pool.pass \in Nat \ {0} /\ pool.usdc \in Nat \ {0} /\ pool.supply \in Nat \ {0}
  BY <1>1 DEF MarketInv, PoolStaysLive
<1>3. n \in Nat \ {0} /\ n < pool.supply
  BY MarketAssumption DEF RemoveLiquidity, MayBurn
<1>4. pool' = [pool EXCEPT !.pass = @ - p, !.usdc = @ - d, !.supply = @ - n]
  BY DEF RemoveLiquidity
<1>5. p \in Nat /\ d \in Nat /\ p < pool.pass /\ d < pool.usdc
  BY <1>2, <1>3, WorthLeavesSome DEF Worth
<1>6. /\ (pool.pass - p) * pool.supply >= pool.pass * (pool.supply - n)
      /\ (pool.usdc - d) * pool.supply >= pool.usdc * (pool.supply - n)
  BY <1>2, <1>3, WorthKeepsShare DEF Worth
<1> HIDE DEF p, d
<1>7. /\ pool'.pass = pool.pass - p /\ pool'.usdc = pool.usdc - d
      /\ pool'.supply = pool.supply - n
  BY <1>1, <1>4
<1>8. pool'.pass \in Nat /\ pool'.usdc \in Nat /\ pool'.supply \in Nat
      /\ pool'.supply # pool.supply
  BY <1>2, <1>3, <1>5, <1>7
<1>9. /\ pool'.pass * pool.supply >= pool.pass * pool'.supply
      /\ pool'.usdc * pool.supply >= pool.usdc * pool'.supply
  BY <1>6, <1>7
<1>10. pool'.pass * pool'.usdc * pool.supply * pool.supply
         >= pool.pass * pool.usdc * pool'.supply * pool'.supply
  BY <1>2, <1>8, <1>9, PerShare
<1> QED BY <1>8, <1>10 DEF ShareValueStep

\* A step that does not touch the pool keeps what a share is worth.
LEMMA SamePoolValue == MarketInv /\ pool' = pool => ShareValueStep
<1> SUFFICES ASSUME MarketInv, pool' = pool PROVE ShareValueStep
  OBVIOUS
<1>1. pool.pass \in Nat /\ pool.usdc \in Nat /\ pool.supply \in Nat
  BY DEF MarketInv, MarketTypeOK
<1>2. pool.pass * pool.usdc * pool.supply * pool.supply \in Nat
  <2>1. pool.pass * pool.usdc \in Nat
    BY <1>1
  <2>2. pool.pass * pool.usdc * pool.supply \in Nat
    BY <1>1, <2>1
  <2> QED BY <1>1, <2>2
<1> QED BY <1>2 DEF ShareValueStep

\* Every step of the market keeps the value of a share.
LEMMA ShareValueStepKept ==
    ASSUME MarketInv, [MarketNext]_marketVars
    PROVE  [ShareValueStep]_marketVars
<1>1. CASE UNCHANGED marketVars
  BY <1>1
<1>2. CASE CreatePoolDirectly \/ ~pool.live
  BY <1>2 DEF ShareValueStep, CreatePoolDirectly, CreatePool
<1>3. ASSUME pool.live, NEW u \in Users, NEW a \in Amounts, SubscribeUsdc(u, a)
      PROVE  FALSE
  BY <1>3 DEF SubscribeUsdc, MayMint, MarketInv, SaleCanFinish
<1>4. CASE \/ \E l \in {"launch", "admin"} : ConfigureInitializer(l)
           \/ \E ready \in BOOLEAN : OpenMint(ready)
           \/ \E t \in Tokens, p \in People, to \in GiftTargets, a \in GiftAmounts :
                Transfer(t, p, to, a)
           \/ \E u, w \in Users, n \in ShareAmounts : TransferShares(u, w, n)
  <2>1. pool' = pool
    BY <1>4 DEF ConfigureInitializer, OpenMint, Transfer, TransferShares
  <2> QED BY <2>1, SamePoolValue
<1>5. CASE \E u \in Users, a \in Amounts, r \in Users : Buy(u, a, r) \/ Sell(u, a, r)
  <2>1. Users \subseteq Traders /\ Amounts \subseteq Nat
    BY MarketAssumption DEF Traders
  <2> QED BY <1>5, <2>1, BuyValue, SellValue
<1>6. CASE \E u \in Users, n \in ShareAmounts, r \in Users :
             AddLiquidity(u, n, r) \/ RemoveLiquidity(u, n, r)
  BY <1>6, AddValue, RemoveValue
<1> QED BY <1>1, <1>2, <1>3, <1>4, <1>5, <1>6 DEF MarketNext, MarketStep

\* The value of a share never falls, for every fee, supply and amount.
THEOREM ShareValueCorrect == MarketSpec => ShareValueKept
BY ShareValueStepKept, MarketInvariant, PTL DEF MarketSpec, ShareValueKept

\* For every supply, price and fee, neither the sale, its launch nor the pool can get stuck.
THEOREM MarketLiveCorrect == MarketSpec => []MarketStaysLive
<1>1. SaleCanFinish /\ PoolStaysLive /\ LaunchIsAtomic => MarketStaysLive
  BY DEF MarketStaysLive
<1> QED BY <1>1, SaleFinishes, PoolLiveCorrect, LaunchAtomicCorrect, PTL

----------------------------------------------------------------------------
(* Native ETH: the market goes on as before *)

\* Rounding down never gives more than the exact quotient, rounding up never less.
LEMMA RoundedBelow ==
    ASSUME NEW x \in Nat, NEW c \in Nat \ {0}
    PROVE  x \div c \in Nat /\ (x \div c) * c <= x
OBVIOUS

LEMMA RoundedAbove ==
    ASSUME NEW x \in Nat, NEW c \in Nat \ {0}
    PROVE  (x + c - 1) \div c \in Nat /\ ((x + c - 1) \div c) * c >= x
<1> DEFINE y == x + c - 1
           q == y \div c
<1>1. y \in Nat
  OBVIOUS
<1>2. q \in Nat /\ y < (q + 1) * c
  <2> HIDE DEF y
  <2> QED BY <1>1
<1> HIDE DEF q
<1>3. (q + 1) * c = q * c + c
  BY <1>2
<1>4. q * c \in Nat
  BY <1>2
<1>5. q * c >= x
  BY <1>2, <1>3, <1>4
<1> QED BY <1>2, <1>5 DEF q

\* The conversion fee, rounded up, is at most what it is taken from.
LEMMA ConversionFeeBound ==
    ASSUME NEW x \in Nat
    PROVE  MulDivUp(x, ConversionFee, Bps) \in Nat /\ MulDivUp(x, ConversionFee, Bps) <= x
<1> DEFINE y == x * ConversionFee + Bps - 1
<1>1. ConversionFee \in Nat /\ ConversionFee <= Bps /\ Bps = 10000
  BY NativeAssumption DEF Bps
<1>2. x * ConversionFee \in Nat /\ x * ConversionFee <= x * 10000
  BY <1>1
<1>3. y \in Nat /\ y < x * 10000 + 10000
  BY <1>1, <1>2
<1> HIDE DEF y
<1>4. y \div 10000 \in Nat /\ y \div 10000 <= x
  BY <1>3
<1> QED BY <1>1, <1>4 DEF MulDivUp, y

\* convertBuy pays out no more AF-USDC than the ETH is worth.
LEMMA NativeToUsdcBound ==
    ASSUME NEW amount \in Nat, NEW price \in Nat \ {0}
    PROVE  /\ NativeToUsdc(amount, price) \in Nat
           /\ NativeToUsdc(amount, price) * EthUnit <= amount * price
<1>1. EthUnit \in Nat \ {0} /\ amount * price \in Nat
  BY NativeAssumption
<1>2. PICK gross \in Nat : gross = MulDivDown(amount, price, EthUnit) /\ gross * EthUnit <= amount * price
  BY <1>1, RoundedBelow DEF MulDivDown
<1>3. PICK fee \in Nat : fee = MulDivUp(gross, ConversionFee, Bps) /\ fee <= gross
  BY <1>2, ConversionFeeBound
<1>4. NativeToUsdc(amount, price) = gross - fee
  BY <1>2, <1>3 DEF NativeToUsdc
<1>5. gross - fee \in Nat /\ gross - fee <= gross
  BY <1>3
<1>6. (gross - fee) * EthUnit <= gross * EthUnit /\ (gross - fee) * EthUnit \in Nat /\ gross * EthUnit \in Nat
  BY <1>1, <1>5
<1> QED BY <1>1, <1>2, <1>4, <1>5, <1>6

\* convertSell pays out no more ETH than the AF-USDC is worth.
LEMMA UsdcToNativeBound ==
    ASSUME NEW amount \in Nat, NEW price \in Nat \ {0}
    PROVE  /\ UsdcToNative(amount, price) \in Nat
           /\ UsdcToNative(amount, price) * price <= amount * EthUnit
<1>1. EthUnit \in Nat \ {0}
  BY NativeAssumption
<1>2. PICK fee \in Nat : fee = MulDivUp(amount, ConversionFee, Bps) /\ fee <= amount
  BY ConversionFeeBound
<1>3. PICK net \in Nat : net = amount - fee /\ net <= amount
  BY <1>2
<1>4. net * EthUnit \in Nat /\ amount * EthUnit \in Nat /\ net * EthUnit <= amount * EthUnit
  BY <1>1, <1>3
<1>5. PICK out \in Nat : out = (net * EthUnit) \div price /\ out * price <= net * EthUnit
  BY <1>4, RoundedBelow
<1>6. UsdcToNative(amount, price) = out
  BY <1>2, <1>3, <1>5 DEF UsdcToNative, MulDivDown
<1>7. out * price \in Nat
  BY <1>5
<1> QED BY <1>4, <1>5, <1>6, <1>7

ReserveRecords ==
    [signer : {"service", "other"}, epoch : 1..MaxEpoch, inPaused : BOOLEAN, outPaused : BOOLEAN,
     routers : SUBSET Routers, trading : BOOLEAN, limits : LimitChoices]

\* What was signed is what the contract will compute; only the runs change, once.
QuoteSound(q) ==
    /\ q.runs \in {0, 1}
    /\ q.op = "BUY" => q.usdc = NativeToUsdc(q.eth, q.price)
    /\ q.op = "MINT" => q.eth = MulDivUp(q.usdc, EthUnit, q.price)
    /\ q.op = "SELL" => q.minOut = UsdcToNative(q.usdc, q.price)

\* The market's invariant beside the types of the reserve's books.
NativeInv ==
    /\ MarketInv
    /\ eth \in [Accounts -> Nat]
    /\ reserve \in ReserveRecords
    /\ spent \in [Users -> [Days -> Nat]] /\ daySpent \in [Days -> Nat]
    /\ quotes \subseteq Quotes /\ IsFiniteSet(quotes)
    /\ \A q \in quotes : QuoteSound(q)
    /\ now \in 0..MaxNow

LEMMA NativeStarts == NativeInit => NativeInv
<1> SUFFICES ASSUME NativeInit PROVE NativeInv
  OBVIOUS
<1>1. MarketInv
  BY MarketInvInit DEF NativeInit
<1>2. PICK l \in LimitChoices :
         reserve = [signer |-> "service", epoch |-> 1, inPaused |-> FALSE, outPaused |-> FALSE,
                    routers |-> {}, trading |-> FALSE, limits |-> l]
  BY DEF NativeInit
<1>3. reserve \in ReserveRecords
  BY <1>2, NativeAssumption DEF ReserveRecords
<1>4. quotes \subseteq Quotes /\ IsFiniteSet(quotes) /\ \A q \in quotes : QuoteSound(q)
  BY FS_EmptySet DEF NativeInit
<1> QED BY <1>1, <1>3, <1>4, NativeAssumption DEF NativeInit, NativeInv

\* ETH moves between two accounts.
LEMMA MoveEthFacts ==
    ASSUME eth \in [Accounts -> Nat], NEW from \in Accounts, NEW to \in Accounts, from # to,
           NEW amount \in Nat, eth[from] >= amount
    PROVE  /\ MoveEth(from, to, amount) \in [Accounts -> Nat]
           /\ MoveEth(from, to, amount)[from] = eth[from] - amount
           /\ MoveEth(from, to, amount)[to] = eth[to] + amount
           /\ \A a \in Accounts \ {from, to} : MoveEth(from, to, amount)[a] = eth[a]
<1>1. eth[from] \in Nat /\ eth[to] \in Nat /\ eth[from] - amount \in Nat /\ eth[to] + amount \in Nat
  OBVIOUS
<1>2. DOMAIN eth = Accounts
  OBVIOUS
<1>3. \A a \in Accounts : MoveEth(from, to, amount)[a] =
          IF a = to THEN eth[to] + amount ELSE IF a = from THEN eth[from] - amount ELSE eth[a]
  BY <1>2 DEF MoveEth
<1>4. MoveEth(from, to, amount) \in [Accounts -> Nat]
  BY <1>1, <1>2 DEF MoveEth
<1> QED BY <1>3, <1>4

\* A quote that has run is still a quote.
LEMMA ConsumeKeeps ==
    ASSUME NativeInv, NEW q \in quotes, Consume(q)
    PROVE  quotes' \subseteq Quotes /\ IsFiniteSet(quotes') /\ \A r \in quotes' : QuoteSound(r)
<1>1. q \in Quotes /\ QuoteSound(q) /\ q.runs = 0
  BY DEF NativeInv, Consume, Consumable
<1>2. PICK r : r = [q EXCEPT !.runs = @ + 1]
  OBVIOUS
<1>3. r \in Quotes /\ QuoteSound(r)
  <2>1. r \in Quotes
    BY <1>1, <1>2 DEF Quotes
  <2>2. /\ r.runs = 1 /\ r.op = q.op /\ r.usdc = q.usdc /\ r.eth = q.eth
        /\ r.price = q.price /\ r.minOut = q.minOut
    BY <1>1, <1>2 DEF Quotes
  <2> QED BY <1>1, <2>1, <2>2 DEF QuoteSound
<1>4. quotes' = (quotes \ {q}) \cup {r}
  BY <1>2 DEF Consume
<1>5. IsFiniteSet(quotes \ {q}) /\ IsFiniteSet({r})
  BY FS_RemoveElement, FS_Singleton DEF NativeInv
<1>6. IsFiniteSet((quotes \ {q}) \cup {r})
  BY <1>5, FS_Union
<1> QED BY <1>3, <1>4, <1>6 DEF NativeInv

LEMMA DivMonotone ==
    ASSUME NEW s \in Nat, NEW t \in Nat, s <= t, NEW c \in Nat \ {0}
    PROVE  s \div c <= t \div c
<1>1. PICK a \in Nat : a = s \div c /\ a * c <= s
  BY RoundedBelow
<1>2. PICK b \in Nat : b = t \div c /\ t < (b + 1) * c
  OBVIOUS
<1>3. a < b + 1
  <2> SUFFICES ASSUME a >= b + 1 PROVE FALSE
    BY <1>1, <1>2
  <2>1. a * c >= (b + 1) * c /\ a * c \in Nat /\ (b + 1) * c \in Nat
    BY <1>1, <1>2
  <2> QED BY <1>1, <1>2, <2>1
<1> QED BY <1>1, <1>2, <1>3

\* What a quote holds that the contracts compute with.
LEMMA QuoteTyped ==
    ASSUME NativeInv, NEW q \in quotes
    PROVE  /\ q.payer \in Users /\ q.amountIn \in Nat /\ q.usdc \in Nat /\ q.minOut \in Nat
           /\ q.eth \in Nat /\ q.price \in Prices /\ q.price \in Nat \ {0} /\ q.runs \in Nat
<1>1. q \in Quotes
  BY DEF NativeInv
<1> QED BY <1>1, NativeAssumption DEF Quotes

LEMMA TodayIsDay ==
    ASSUME now \in 0..MaxNow
    PROVE  Today \in Days
<1>1. MaxNow \in Nat /\ DayLength \in Nat \ {0} /\ now \in Nat /\ now <= MaxNow
  BY NativeAssumption
<1>2. now \div DayLength \in Nat /\ MaxNow \div DayLength \in Nat
  BY <1>1, RoundedBelow
<1>3. now \div DayLength <= MaxNow \div DayLength
  BY <1>1, DivMonotone
<1> QED BY <1>2, <1>3 DEF Today, Days

\* What the owner administers stays a reserve.
LEMMA AdministerKeeps ==
    ASSUME NativeInv, NEW next \in ReserveRecords, Administer(next)
    PROVE  NativeInv'
<1>1. MarketInv'
  BY MarketInvStep DEF NativeInv, Administer
<1> QED BY <1>1 DEF NativeInv, Administer

LEMMA OwnerKeeps ==
    ASSUME NativeInv,
           \/ \E r \in Routers : AuthorizeRouter(r)
           \/ ConfigureTradingRouter
           \/ \E s \in {"service", "other"} : SetQuoteSigner(s)
           \/ \E p \in PauseChoices : SetPaused(p[1], p[2])
           \/ \E l \in LimitChoices : SetLimits(l)
    PROVE  NativeInv'
<1>1. reserve \in ReserveRecords
  BY DEF NativeInv
<1>2. ASSUME NEW r \in Routers, AuthorizeRouter(r) PROVE NativeInv'
  <2>1. [reserve EXCEPT !.routers = @ \cup {r}] \in ReserveRecords
    BY <1>1 DEF ReserveRecords
  <2> QED BY <1>2, <2>1, AdministerKeeps DEF AuthorizeRouter
<1>3. ASSUME ConfigureTradingRouter PROVE NativeInv'
  <2>1. [reserve EXCEPT !.trading = TRUE] \in ReserveRecords
    BY <1>1 DEF ReserveRecords
  <2> QED BY <1>3, <2>1, AdministerKeeps DEF ConfigureTradingRouter
<1>4. ASSUME NEW s \in {"service", "other"}, SetQuoteSigner(s) PROVE NativeInv'
  <2>1. reserve.epoch + 1 \in 1..MaxEpoch
    BY <1>1, <1>4, NativeAssumption DEF ReserveRecords, SetQuoteSigner
  <2>2. [reserve EXCEPT !.signer = s, !.epoch = @ + 1] \in ReserveRecords
    BY <1>1, <2>1 DEF ReserveRecords
  <2> QED BY <1>4, <2>2, AdministerKeeps DEF SetQuoteSigner
<1>5. ASSUME NEW p \in PauseChoices, SetPaused(p[1], p[2]) PROVE NativeInv'
  <2>1. p[1] \in BOOLEAN /\ p[2] \in BOOLEAN
    BY NativeAssumption
  <2>2. [reserve EXCEPT !.inPaused = p[1], !.outPaused = p[2]] \in ReserveRecords
    BY <1>1, <2>1 DEF ReserveRecords
  <2> QED BY <1>5, <2>2, AdministerKeeps DEF SetPaused
<1>6. ASSUME NEW l \in LimitChoices, SetLimits(l) PROVE NativeInv'
  <2>1. [reserve EXCEPT !.limits = l] \in ReserveRecords
    BY <1>1 DEF ReserveRecords
  <2> QED BY <1>6, <2>1, AdministerKeeps DEF SetLimits
<1> QED BY <1>2, <1>3, <1>4, <1>5, <1>6

\* The owner moves ETH and AF-USDC in and out of the reserve.
LEMMA FundingKeeps ==
    ASSUME NativeInv,
           \/ \E a \in EthAmounts : FundNative(a) \/ WithdrawNative(a)
           \/ \E a \in UsdcAmounts : FundUsdc(a) \/ WithdrawUsdc(a)
    PROVE  NativeInv'
<1>1. "admin" \in Accounts /\ "reserve" \in Accounts /\ "usdc" \in Tokens
  BY AccountFacts
<1>2. ASSUME NEW a \in EthAmounts, FundNative(a) \/ WithdrawNative(a) PROVE NativeInv'
  <2>1. a \in Nat /\ eth \in [Accounts -> Nat] /\ reserve.limits.minReserve \in Nat
    BY NativeAssumption DEF NativeInv, ReserveRecords
  <2>2. MarketInv' /\ UNCHANGED <<reserve, spent, daySpent, quotes, now>>
    BY <1>2, MarketInvStep DEF NativeInv, FundNative, WithdrawNative
  <2>3. eth' \in [Accounts -> Nat]
    <3>1. CASE FundNative(a)
      BY <1>1, <2>1, <3>1, MoveEthFacts DEF FundNative
    <3>2. CASE WithdrawNative(a)
      <4>1. eth["reserve"] >= a
        BY <1>1, <2>1, <3>2 DEF WithdrawNative
      <4> QED BY <1>1, <2>1, <3>2, <4>1, MoveEthFacts DEF WithdrawNative
    <3> QED BY <1>2, <3>1, <3>2
  <2> QED BY <2>2, <2>3 DEF NativeInv
<1>3. ASSUME NEW a \in UsdcAmounts, FundUsdc(a) \/ WithdrawUsdc(a) PROVE NativeInv'
  <2>1. a \in Nat
    BY NativeAssumption
  <2>2. Transfer("usdc", "admin", "reserve", a) \/ Transfer("usdc", "reserve", "admin", a)
    BY <1>3 DEF FundUsdc, WithdrawUsdc, Transfer
  <2>3. MarketInv'
    BY <1>1, <2>1, <2>2, TransferKeeps DEF NativeInv
  <2> QED BY <1>3, <2>3 DEF NativeInv, FundUsdc, WithdrawUsdc, nativeOnly
<1> QED BY <1>2, <1>3

\* What is signed is a quote.
LEMMA SignKeeps ==
    ASSUME NativeInv, NEW quote \in Quotes, QuoteSound(quote), Sign(quote)
    PROVE  NativeInv'
<1>1. MarketInv'
  BY MarketInvStep DEF NativeInv, Sign
<1>2. IsFiniteSet(quotes \cup {quote})
  BY FS_AddElement DEF NativeInv
<1> QED BY <1>1, <1>2 DEF NativeInv, Sign

LEMMA SignedIsQuote ==
    ASSUME NativeInv, Cardinality(quotes) < MaxNonce, NEW payer \in Users, NEW op \in Ops,
           NEW amountIn \in Nat, NEW usdc \in Nat, NEW minOut \in Nat, NEW ethAmount \in Nat,
           NEW price \in Prices, NEW age \in ReferenceAges
    PROVE  Signed(payer, op, amountIn, usdc, minOut, ethAmount, price, age) \in Quotes
<1>1. Cardinality(quotes) + 1 \in Nonces
  BY FS_CardinalityType, NativeAssumption DEF NativeInv, Nonces
<1>2. now + QuoteAge - age \in Nat
  <2>1. QuoteAge \in Nat /\ now \in Nat /\ MaxNow \in Nat
    BY NativeAssumption DEF NativeInv
  <2>2. QuoteAge \div 2 <= QuoteAge /\ QuoteAge \div 2 \in Nat
    BY <2>1
  <2>3. age \in Nat /\ age <= QuoteAge
    BY <2>1, <2>2 DEF ReferenceAges
  <2> QED BY <2>1, <2>3
<1>3. (IF op = "MINT" THEN "launch" ELSE "router") \in Routers
  BY DEF Routers
<1>4. now \in 0..MaxNow /\ reserve.epoch \in 1..MaxEpoch
  BY DEF NativeInv, ReserveRecords
<1> QED BY <1>1, <1>2, <1>3, <1>4 DEF Signed, Quotes

\* The backend's arithmetic is the contract's.
LEMMA ServiceMath ==
    /\ \A amount, price : UsdcForEth(amount, price) = NativeToUsdc(amount, price)
    /\ \A usdc, price : EthSaleOutput(usdc, price) = UsdcToNative(usdc, price)
    /\ \A usdc, price : CeilDiv(usdc * EthUnit, price) = MulDivUp(usdc, EthUnit, price)
BY DEF UsdcForEth, NativeToUsdc, EthSaleOutput, UsdcToNative, CeilDiv, MulDivUp, MulDivDown

LEMMA MinOutputType ==
    ASSUME NEW output \in Nat, NEW slippage \in Slippages
    PROVE  MinOutput(output, slippage) \in Nat
<1>1. Bps - slippage \in Nat /\ Bps \in Nat \ {0}
  BY NativeAssumption DEF Bps
<1>2. output * (Bps - slippage) \in Nat
  BY <1>1
<1> QED BY <1>1, <1>2 DEF MinOutput

LEMMA QuotingKeeps ==
    ASSUME NativeInv, NEW u \in Users, NEW p \in Prices, NEW age \in ReferenceAges,
           \/ \E a \in Amounts : QuoteMint(u, a, p, age)
           \/ \E a \in EthAmounts, s \in Slippages : QuoteBuy(u, a, p, s, age)
           \/ \E a \in Amounts, s \in Slippages : QuoteSell(u, a, p, s, age)
    PROVE  NativeInv'
<1>1. /\ p \in Nat \ {0} /\ EthUnit \in Nat \ {0} /\ PassPerUsdc \in Nat \ {0}
      /\ Amounts \subseteq Nat /\ EthAmounts \subseteq Nat
  BY NativeAssumption, MarketAssumption
<1>2. pool.pass \in Nat /\ pool.usdc \in Nat
  BY DEF NativeInv, MarketInv, MarketTypeOK
<1>3. ASSUME NEW a \in Amounts, QuoteMint(u, a, p, age) PROVE NativeInv'
  <2>1. PICK usdc \in Nat : usdc = MintCost(a)
    BY <1>1 DEF MintCost
  <2>2. PICK e \in Nat : e = CeilDiv(usdc * EthUnit, p)
    BY <1>1, <2>1, ServiceMath, MulDivTypes
  <2>3. PICK q : q = Signed(u, "MINT", e, usdc, a, e, p, age)
    OBVIOUS
  <2>4. Sign(q)
    BY <1>3, <2>1, <2>2, <2>3 DEF QuoteMint
  <2>5. q \in Quotes
    BY <1>1, <2>3, <2>4, SignedIsQuote DEF Sign, Ops
  <2>6. QuoteSound(q)
    BY <2>2, <2>3, ServiceMath DEF QuoteSound, Signed
  <2> QED BY <2>4, <2>5, <2>6, SignKeeps
<1>4. ASSUME NEW a \in EthAmounts, NEW s \in Slippages, QuoteBuy(u, a, p, s, age) PROVE NativeInv'
  <2>1. PICK usdc \in Nat : usdc = UsdcForEth(a, p) /\ usdc = NativeToUsdc(a, p)
    BY <1>1, ServiceMath, NativeToUsdcBound
  <2>2. Buyable(usdc)
    BY <1>4, <2>1 DEF QuoteBuy
  <2>3. BuyOutput(usdc) \in Nat
    BY <1>2, <2>2, OutputType DEF Buyable, Quotable, BuyOutput
  <2>4. PICK minOut \in Nat : minOut = MinOutput(BuyOutput(usdc), s)
    BY <2>3, MinOutputType
  <2>5. PICK q : q = Signed(u, "BUY", a, usdc, minOut, a, p, age)
    OBVIOUS
  <2>6. Sign(q)
    BY <1>4, <2>1, <2>4, <2>5 DEF QuoteBuy
  <2>7. q \in Quotes
    BY <1>1, <2>5, <2>6, SignedIsQuote DEF Sign, Ops
  <2>8. QuoteSound(q)
    BY <2>1, <2>5 DEF QuoteSound, Signed
  <2> QED BY <2>6, <2>7, <2>8, SignKeeps
<1>5. ASSUME NEW a \in Amounts, NEW s \in Slippages, QuoteSell(u, a, p, s, age) PROVE NativeInv'
  <2>1. Sellable(a) /\ a \in Nat
    BY <1>1, <1>5 DEF QuoteSell
  <2>2. PICK usdc \in Nat : usdc = SellOutput(a)
    BY <1>2, <2>1, OutputType DEF Sellable, Quotable, SellOutput
  <2>3. PICK minUsdc \in Nat : minUsdc = MinOutput(usdc, s)
    BY <2>2, MinOutputType
  <2>4. PICK minOut \in Nat : minOut = EthSaleOutput(minUsdc, p) /\ minOut = UsdcToNative(minUsdc, p)
    BY <1>1, <2>3, ServiceMath, UsdcToNativeBound
  <2>5. PICK e \in Nat : e = EthSaleOutput(usdc, p)
    BY <1>1, <2>2, ServiceMath, UsdcToNativeBound
  <2>6. PICK q : q = Signed(u, "SELL", a, minUsdc, minOut, e, p, age)
    OBVIOUS
  <2>7. Sign(q)
    BY <1>5, <2>2, <2>3, <2>4, <2>5, <2>6 DEF QuoteSell
  <2>8. q \in Quotes
    BY <1>1, <2>1, <2>6, <2>7, SignedIsQuote DEF Sign, Ops
  <2>9. QuoteSound(q)
    BY <2>4, <2>6 DEF QuoteSound, Signed
  <2> QED BY <2>7, <2>8, <2>9, SignKeeps
<1> QED BY <1>3, <1>4, <1>5

\* The settlements are the market's own deliveries and swaps, the reserve on one side.
LEMMA SubscribeEthKeeps ==
    ASSUME NativeInv, NEW q \in quotes, SubscribeEth(q)
    PROVE  NativeInv'
<1>1. /\ q.payer \in Accounts /\ q.payer \in Users /\ q.payer # "proceeds" /\ "proceeds" \in Accounts
      /\ q.eth \in Nat /\ q.minOut \in Nat
  BY QuoteTyped, AccountFacts
<1>2. MarketInv'
  BY <1>1, DeliverKeeps DEF SubscribeEth, NativeInv, MarketInv, MarketTypeOK
<1>3. eth' \in [Accounts -> Nat]
  BY <1>1, MoveEthFacts DEF SubscribeEth, NativeInv
<1>4. quotes' \subseteq Quotes /\ IsFiniteSet(quotes') /\ \A r \in quotes' : QuoteSound(r)
  BY ConsumeKeeps DEF SubscribeEth
<1> QED BY <1>2, <1>3, <1>4 DEF NativeInv, SubscribeEth

LEMMA BuyNativeIsBuy ==
    ASSUME NativeInv, NEW q \in quotes, BuyNative(q)
    PROVE  /\ Buy("reserve", q.usdc, q.payer)
           /\ q.usdc \in Nat /\ q.payer \in Traders /\ "reserve" \in Traders
<1>1. q.usdc = NativeToUsdc(q.eth, q.price)
  BY DEF BuyNative
<1> QED BY <1>1, QuoteTyped DEF BuyNative, CanConvert, Buy, Traders

LEMMA SellNativeIsSell ==
    ASSUME NativeInv, NEW q \in quotes, SellNative(q)
    PROVE  /\ Sell(q.payer, q.amountIn, "reserve")
           /\ q.amountIn \in Nat /\ q.payer \in Traders /\ "reserve" \in Traders
BY QuoteTyped DEF SellNative, Sell, Traders

LEMMA BuyNativeKeeps ==
    ASSUME NativeInv, NEW q \in quotes, BuyNative(q)
    PROVE  NativeInv'
<1>1. /\ q.payer \in Accounts /\ q.payer # "reserve" /\ "reserve" \in Accounts /\ q.eth \in Nat
  BY QuoteTyped, AccountFacts
<1>2. MarketInv'
  BY BuyNativeIsBuy, BuyKeeps DEF NativeInv
<1>3. eth' \in [Accounts -> Nat]
  BY <1>1, MoveEthFacts DEF BuyNative, NativeInv
<1>4. quotes' \subseteq Quotes /\ IsFiniteSet(quotes') /\ \A r \in quotes' : QuoteSound(r)
  BY ConsumeKeeps DEF BuyNative
<1> QED BY <1>2, <1>3, <1>4 DEF NativeInv, BuyNative

\* What a sale pays in AF-USDC and in ETH.
LEMMA SaleAmounts ==
    ASSUME NativeInv, NEW q \in quotes, SellNative(q)
    PROVE  \E usdc, output \in Nat :
              /\ usdc = SellOutput(q.amountIn) /\ output = UsdcToNative(usdc, q.price)
              /\ output * q.price <= usdc * EthUnit
              /\ eth["reserve"] >= output
<1>1. pool.pass \in Nat /\ pool.usdc \in Nat
  BY DEF NativeInv, MarketInv, MarketTypeOK
<1>2. q.amountIn \in Nat /\ q.price \in Nat \ {0}
  BY QuoteTyped
<1>3. PICK usdc \in Nat : usdc = SellOutput(q.amountIn)
  BY <1>1, <1>2, OutputType DEF SellNative, Sellable, Quotable, SellOutput
<1>4. PICK output \in Nat : output = UsdcToNative(usdc, q.price) /\ output * q.price <= usdc * EthUnit
  BY <1>2, <1>3, UsdcToNativeBound
<1>5. WithinBudget(q.payer, output)
  BY <1>3, <1>4 DEF SellNative
<1>6. eth["reserve"] \in Nat /\ reserve.limits.minReserve \in Nat
  BY AccountFacts, NativeAssumption DEF NativeInv, ReserveRecords
<1>7. eth["reserve"] >= output
  BY <1>4, <1>5, <1>6 DEF WithinBudget
<1> QED BY <1>3, <1>4, <1>7

LEMMA SellNativeKeeps ==
    ASSUME NativeInv, NEW q \in quotes, SellNative(q)
    PROVE  NativeInv'
<1>1. /\ q.payer \in Accounts /\ q.payer \in Users /\ q.payer # "reserve" /\ "reserve" \in Accounts
  BY QuoteTyped, AccountFacts
<1>2. PICK usdc, output \in Nat : /\ usdc = SellOutput(q.amountIn) /\ output = UsdcToNative(usdc, q.price)
                                  /\ eth["reserve"] >= output
  BY SaleAmounts
<1>3. MarketInv'
  BY SellNativeIsSell, SellKeeps DEF NativeInv
<1>4. eth' \in [Accounts -> Nat]
  BY <1>1, <1>2, MoveEthFacts DEF SellNative, NativeInv
<1>5. quotes' \subseteq Quotes /\ IsFiniteSet(quotes') /\ \A r \in quotes' : QuoteSound(r)
  BY ConsumeKeeps DEF SellNative
<1>6. Today \in Days
  BY TodayIsDay DEF NativeInv
<1>7. /\ spent' = [spent EXCEPT ![q.payer][Today] = @ + output]
      /\ daySpent' = [daySpent EXCEPT ![Today] = @ + output]
  BY <1>2 DEF SellNative
<1>8. daySpent' \in [Days -> Nat]
  BY <1>2, <1>6, <1>7 DEF NativeInv
<1>9. spent' \in [Users -> [Days -> Nat]]
  BY <1>1, <1>2, <1>6, <1>7 DEF NativeInv
<1> QED BY <1>3, <1>4, <1>5, <1>8, <1>9 DEF NativeInv, SellNative

LEMMA NativeKeeps == NativeInv /\ [NativeNext]_nativeVars => NativeInv'
<1> SUFFICES ASSUME NativeInv, [NativeNext]_nativeVars PROVE NativeInv'
  OBVIOUS
<1>1. CASE UNCHANGED nativeVars
  <2>1. MarketInv'
    BY <1>1, MarketInvStep DEF NativeInv, nativeVars
  <2> QED BY <1>1, <2>1 DEF NativeInv, nativeVars, nativeOnly
<1>2. CASE MarketStep /\ UNCHANGED nativeOnly
  <2>1. MarketInv'
    BY <1>2, MarketInvStep DEF NativeInv, MarketNext
  <2> QED BY <1>2, <2>1 DEF NativeInv, nativeOnly
<1>3. CASE OpenMint("launch" \in reserve.routers /\ Ready) /\ UNCHANGED nativeOnly
  <2>1. MarketInv'
    BY <1>3, OpenMintKeeps DEF NativeInv
  <2> QED BY <1>3, <2>1 DEF NativeInv, nativeOnly
<1>4. CASE Tick
  <2>1. MarketInv'
    BY <1>4, MarketInvStep DEF NativeInv, Tick
  <2>2. now' \in 0..MaxNow
    BY <1>4, NativeAssumption DEF NativeInv, Tick
  <2> QED BY <1>4, <2>1, <2>2 DEF NativeInv, Tick
<1>5. ASSUME NEW q \in quotes, SubscribeEth(q) \/ BuyNative(q) \/ SellNative(q) PROVE NativeInv'
  BY <1>5, SubscribeEthKeeps, BuyNativeKeeps, SellNativeKeeps
<1> QED BY <1>1, <1>2, <1>3, <1>4, <1>5, OwnerKeeps, FundingKeeps, QuotingKeeps DEF NativeNext

\* ETH subscriptions, the router's swaps and the owner's funding never take the sale's
\* escrow or the pool's cover, and every state of the reserve has its types.
THEOREM NativeInvariant == NativeSpec => []NativeInv
BY NativeStarts, NativeKeeps, PTL DEF NativeSpec

----------------------------------------------------------------------------
(* Native ETH: what the quotes promise *)

\* A signed quote runs at most once, whatever is broadcast again.
THEOREM QuotesRunOnce == NativeSpec => []QuoteRunsOnce
<1>1. NativeInv => QuoteRunsOnce
  BY DEF NativeInv, QuoteSound, QuoteRunsOnce
<1> QED BY <1>1, NativeInvariant, PTL

\* More AF-USDC never converts to less ETH, the fee and both roundings included.
LEMMA SaleMonotone ==
    ASSUME NEW x \in Nat, NEW extra \in Nat, NEW price \in Nat \ {0}
    PROVE  UsdcToNative(x + extra, price) >= UsdcToNative(x, price)
<1>1. ConversionFee \in Nat /\ ConversionFee <= 10000 /\ Bps = 10000 /\ EthUnit \in Nat \ {0}
  BY NativeAssumption DEF Bps
<1> DEFINE y == x + extra
<1>2. PICK f \in Nat : f = MulDivUp(x, ConversionFee, Bps) /\ f <= x
  BY ConversionFeeBound
<1>3. PICK g \in Nat : g = MulDivUp(y, ConversionFee, Bps) /\ g <= y
  BY ConversionFeeBound
<1>4. g <= f + extra
  <2>1. PICK a \in Nat : a = x * ConversionFee
    BY <1>1
  <2>2. PICK b \in Nat : b = extra * ConversionFee /\ b <= extra * 10000
    BY <1>1
  <2>3. y * ConversionFee = a + b
    BY <1>1, <2>1, <2>2
  <2>4. f = (a + 10000 - 1) \div 10000 /\ g = (a + b + 10000 - 1) \div 10000
    BY <1>1, <1>2, <1>3, <2>1, <2>3 DEF MulDivUp
  <2> QED BY <1>2, <1>3, <2>1, <2>2, <2>4
<1>5. PICK n \in Nat : n = x - f
  BY <1>2
<1>6. PICK m \in Nat : m = y - g
  BY <1>3
<1>7. m >= n
  BY <1>2, <1>3, <1>4, <1>5, <1>6
<1>8. n * EthUnit \in Nat /\ m * EthUnit \in Nat /\ m * EthUnit >= n * EthUnit
  BY <1>1, <1>7
<1>9. PICK s \in Nat : s = n * EthUnit
  BY <1>8
<1>10. PICK t \in Nat : t = m * EthUnit /\ t >= s
  BY <1>8, <1>9
<1>11. t \div price >= s \div price
  BY <1>9, <1>10, DivMonotone
<1>12. UsdcToNative(x, price) = s \div price /\ UsdcToNative(y, price) = t \div price
  BY <1>2, <1>3, <1>5, <1>6, <1>9, <1>10 DEF UsdcToNative, MulDivDown
<1> QED BY <1>11, <1>12

\* The contract's arithmetic accepts what the backend signed, for every price and fee.
THEOREM QuotesAgree == NativeSpec => []QuoteMathAgrees
<1>1. NativeInv => QuoteMathAgrees
  <2> SUFFICES ASSUME NativeInv, NEW q \in quotes
               PROVE  /\ q.op = "BUY" => NativeToUsdc(q.eth, q.price) = q.usdc
                      /\ q.op = "MINT" => MulDivUp(q.usdc, EthUnit, q.price) = q.eth
                      /\ q.op = "SELL" =>
                           \A extra \in 0..pool.usdc : UsdcToNative(q.usdc + extra, q.price) >= q.minOut
    BY DEF QuoteMathAgrees
  <2>1. q.usdc \in Nat /\ q.price \in Nat \ {0} /\ QuoteSound(q)
    BY QuoteTyped DEF NativeInv
  <2>2. \A extra \in 0..pool.usdc : UsdcToNative(q.usdc + extra, q.price) >= UsdcToNative(q.usdc, q.price)
    BY <2>1, SaleMonotone DEF NativeInv, MarketInv, MarketTypeOK
  <2> QED BY <2>1, <2>2 DEF QuoteSound
<1> QED BY <1>1, NativeInvariant, PTL

----------------------------------------------------------------------------
(* Native ETH: what a conversion costs *)

\* What the reserve and the proceeds gain, in AF-USDC, in ETH, and in PASS sold.
Gain(usdc, wei, usdcProceeds, weiProceeds, sold) ==
    /\ bal'["usdc"]["reserve"] = bal["usdc"]["reserve"] + usdc
    /\ eth'["reserve"] = eth["reserve"] + wei
    /\ bal'["usdc"]["proceeds"] = bal["usdc"]["proceeds"] + usdcProceeds
    /\ eth'["proceeds"] = eth["proceeds"] + weiProceeds
    /\ launch'.sold = launch.sold + sold

LEMMA GainKeepsValue ==
    ASSUME NativeInv, NEW q \in quotes, NEW usdc \in Int, NEW wei \in Int, NEW up \in Int, NEW wp \in Int,
           NEW sold \in Nat, Gain(usdc, wei, up, wp, sold),
           usdc * EthUnit + wei * q.price >= 0,
           up * EthUnit + wp * q.price >= (sold * EthUnit) \div PassPerUsdc
    PROVE  /\ ReserveValue(bal', eth', q.price) >= ReserveValue(bal, eth, q.price)
           /\ ProceedsValue(bal', eth', q.price) - ProceedsValue(bal, eth, q.price)
                 >= ((launch'.sold - launch.sold) * EthUnit) \div PassPerUsdc
<1>1. /\ q.price \in Nat \ {0} /\ EthUnit \in Nat \ {0} /\ PassPerUsdc \in Nat \ {0}
      /\ bal["usdc"]["reserve"] \in Nat /\ eth["reserve"] \in Nat
      /\ bal["usdc"]["proceeds"] \in Nat /\ eth["proceeds"] \in Nat /\ launch.sold \in Int
  BY QuoteTyped, AccountFacts, NativeAssumption, MarketAssumption DEF NativeInv, MarketInv, MarketTypeOK
<1>2. ASSUME NEW b \in Int, NEW e \in Int, NEW x \in Int, NEW y \in Int
      PROVE  /\ (b + x) * EthUnit + (e + y) * q.price
                   = (b * EthUnit + e * q.price) + (x * EthUnit + y * q.price)
             /\ b * EthUnit + e * q.price \in Int /\ x * EthUnit + y * q.price \in Int
  BY <1>1
<1>3. launch'.sold - launch.sold = sold
  BY <1>1 DEF Gain
<1>4. /\ ReserveValue(bal', eth', q.price) = ReserveValue(bal, eth, q.price) + (usdc * EthUnit + wei * q.price)
      /\ ReserveValue(bal, eth, q.price) \in Int /\ usdc * EthUnit + wei * q.price \in Int
  BY <1>1, <1>2 DEF Gain, ReserveValue
<1>5. /\ ProceedsValue(bal', eth', q.price) = ProceedsValue(bal, eth, q.price) + (up * EthUnit + wp * q.price)
      /\ ProceedsValue(bal, eth, q.price) \in Int /\ up * EthUnit + wp * q.price \in Int
  BY <1>1, <1>2 DEF Gain, ProceedsValue
<1>6. ReserveValue(bal', eth', q.price) >= ReserveValue(bal, eth, q.price)
  <2> DEFINE g == usdc * EthUnit + wei * q.price
  <2>1. g \in Int /\ g >= 0
    BY <1>4
  <2> HIDE DEF g
  <2>2. ReserveValue(bal', eth', q.price) = ReserveValue(bal, eth, q.price) + g
    BY <1>4 DEF g
  <2> QED BY <1>4, <2>1, <2>2
<1>7. ProceedsValue(bal', eth', q.price) - ProceedsValue(bal, eth, q.price) = up * EthUnit + wp * q.price
  BY <1>5
<1> QED BY <1>3, <1>6, <1>7

\* buyNative: the reserve gives AF-USDC for ETH.
LEMMA BuyNativeKeepsValue ==
    ASSUME NativeInv, NEW q \in quotes, BuyNative(q)
    PROVE  Gain(0 - q.usdc, q.eth, 0, 0, 0) /\ (0 - q.usdc) * EthUnit + q.eth * q.price >= 0
<1>1. /\ q.payer \in Accounts /\ q.payer \in Users /\ q.payer \notin {"reserve", "proceeds", "pool"}
      /\ {"reserve", "proceeds", "pool"} \subseteq Accounts /\ "usdc" \in Tokens /\ "pass" \in Tokens
      /\ q.eth \in Nat /\ q.usdc \in Nat /\ q.price \in Nat \ {0} /\ EthUnit \in Nat \ {0}
  BY QuoteTyped, AccountFacts, NativeAssumption
<1>2. /\ bal \in [Tokens -> [Accounts -> Nat]] /\ eth \in [Accounts -> Nat]
      /\ pool.pass \in Nat /\ pool.usdc \in Nat /\ launch.sold \in Int
  BY MarketAssumption DEF NativeInv, MarketInv, MarketTypeOK
<1>3. eth'["reserve"] = eth["reserve"] + q.eth /\ eth'["proceeds"] = eth["proceeds"]
  BY <1>1, <1>2, MoveEthFacts DEF BuyNative
<1>4. Buy("reserve", q.usdc, q.payer)
  BY BuyNativeIsBuy
<1>5. PICK b : b = Pay(bal, "usdc", "reserve", "pool", q.usdc)
  OBVIOUS
<1>6. PICK out \in Nat : out = BuyOutput(q.usdc)
  BY <1>1, <1>2, <1>4, OutputType DEF Buy, Buyable, Quotable, BuyOutput
<1>7. bal' = Pay(b, "pass", "pool", q.payer, out)
  BY <1>4, <1>5, <1>6 DEF Buy
<1>8. bal'["usdc"] = b["usdc"]
  BY <1>1, <1>2, <1>5, <1>7 DEF Pay
<1>9. b["usdc"]["reserve"] = bal["usdc"]["reserve"] - q.usdc /\ b["usdc"]["proceeds"] = bal["usdc"]["proceeds"]
  BY <1>1, <1>2, <1>5 DEF Pay
<1>10. launch'.sold = launch.sold
  BY DEF BuyNative
<1>11. /\ bal["usdc"]["reserve"] \in Nat /\ bal["usdc"]["proceeds"] \in Nat /\ eth["proceeds"] \in Nat
  BY <1>1, <1>2
<1>12. Gain(0 - q.usdc, q.eth, 0, 0, 0)
  BY <1>1, <1>2, <1>3, <1>8, <1>9, <1>10, <1>11 DEF Gain
<1>13. q.usdc * EthUnit <= q.eth * q.price
  BY <1>1, NativeToUsdcBound DEF BuyNative
<1>14. q.usdc * EthUnit \in Nat /\ q.eth * q.price \in Nat /\ (0 - q.usdc) * EthUnit = 0 - q.usdc * EthUnit
  BY <1>1
<1> QED BY <1>12, <1>13, <1>14

\* sellNative: the reserve gives ETH for AF-USDC.
LEMMA SellNativeKeepsValue ==
    ASSUME NativeInv, NEW q \in quotes, SellNative(q)
    PROVE  \E usdc, wei \in Int : Gain(usdc, wei, 0, 0, 0) /\ usdc * EthUnit + wei * q.price >= 0
<1>1. /\ q.payer \in Accounts /\ q.payer \in Users /\ q.payer \notin {"reserve", "proceeds", "pool"}
      /\ {"reserve", "proceeds", "pool"} \subseteq Accounts /\ "usdc" \in Tokens /\ "pass" \in Tokens
      /\ q.amountIn \in Nat /\ q.price \in Nat \ {0} /\ EthUnit \in Nat \ {0}
  BY QuoteTyped, AccountFacts, NativeAssumption
<1>2. /\ bal \in [Tokens -> [Accounts -> Nat]] /\ eth \in [Accounts -> Nat] /\ launch.sold \in Int
  BY MarketAssumption DEF NativeInv, MarketInv, MarketTypeOK
<1>3. PICK usdc, out \in Nat : /\ usdc = SellOutput(q.amountIn) /\ out = UsdcToNative(usdc, q.price)
                               /\ out * q.price <= usdc * EthUnit
                               /\ eth["reserve"] >= out
  BY SaleAmounts
<1>4. eth'["reserve"] = eth["reserve"] - out /\ eth'["proceeds"] = eth["proceeds"]
  BY <1>1, <1>2, <1>3, MoveEthFacts DEF SellNative
<1>5. PICK b : b = Pay(bal, "pass", q.payer, "pool", q.amountIn)
  OBVIOUS
<1>6. bal' = Pay(b, "usdc", "pool", "reserve", usdc)
  BY <1>3, <1>5 DEF SellNative
<1>7. b["usdc"] = bal["usdc"] /\ DOMAIN b = Tokens
  BY <1>1, <1>2, <1>5 DEF Pay
<1>8. /\ bal["usdc"]["reserve"] \in Nat /\ bal["usdc"]["proceeds"] \in Nat /\ eth["proceeds"] \in Nat /\ eth["reserve"] \in Nat
  BY <1>1, <1>2
<1>9. bal'["usdc"]["reserve"] = bal["usdc"]["reserve"] + usdc /\ bal'["usdc"]["proceeds"] = bal["usdc"]["proceeds"]
  BY <1>1, <1>2, <1>6, <1>7 DEF Pay
<1>10. launch'.sold = launch.sold
  BY DEF SellNative
<1>11. Gain(usdc, 0 - out, 0, 0, 0)
  BY <1>2, <1>3, <1>4, <1>8, <1>9, <1>10 DEF Gain
<1>12. out * q.price \in Nat /\ usdc * EthUnit \in Nat /\ (0 - out) * q.price = 0 - out * q.price
  BY <1>1, <1>3
<1>13. usdc * EthUnit + (0 - out) * q.price >= 0
  BY <1>3, <1>12
<1>14. usdc \in Int /\ 0 - out \in Int
  BY <1>3
<1> QED BY <1>11, <1>13, <1>14

\* A multiple of the rate costs exactly its share of AF-USDC.
LEMMA ExactCost ==
    ASSUME NEW a \in Nat, a % PassPerUsdc = 0
    PROVE  MintCost(a) \in Nat /\ (a * EthUnit) \div PassPerUsdc = MintCost(a) * EthUnit
<1>1. PassPerUsdc \in Nat \ {0} /\ EthUnit \in Nat \ {0}
  BY MarketAssumption, NativeAssumption
<1>2. PICK c \in Nat : c = MintCost(a) /\ a = c * PassPerUsdc
  BY <1>1 DEF MintCost
<1>3. PICK value \in Nat : value = c * EthUnit
  BY <1>1, <1>2
<1>4. a * EthUnit = value * PassPerUsdc
  <2>1. \A x, y, z \in Nat : (x * y) * z = (x * z) * y
    OBVIOUS
  <2>2. c \in Nat /\ PassPerUsdc \in Nat /\ EthUnit \in Nat
    BY <1>1
  <2>3. (c * PassPerUsdc) * EthUnit = (c * EthUnit) * PassPerUsdc
    BY <2>1, <2>2, Zenon
  <2> QED BY <1>2, <1>3, <2>3, Zenon
<1>5. (value * PassPerUsdc) \div PassPerUsdc = value
  BY <1>1, <1>3
<1> QED BY <1>2, <1>3, <1>4, <1>5

\* subscribeEth: the proceeds get the ETH, the reserve is not touched.
LEMMA SubscribeEthKeepsValue ==
    ASSUME NativeInv, NEW q \in quotes, SubscribeEth(q)
    PROVE  /\ Gain(0, 0, 0, q.eth, q.minOut)
           /\ 0 * EthUnit + q.eth * q.price >= (q.minOut * EthUnit) \div PassPerUsdc
<1>1. /\ q.payer \in Accounts /\ q.payer \in Users /\ q.payer \notin {"reserve", "proceeds", "pool", "launch"}
      /\ {"reserve", "proceeds", "pool", "launch"} \subseteq Accounts /\ "usdc" \in Tokens /\ "pass" \in Tokens
      /\ q.eth \in Nat /\ q.usdc \in Nat /\ q.minOut \in Nat /\ q.price \in Nat \ {0}
      /\ EthUnit \in Nat \ {0}
  BY QuoteTyped, AccountFacts, NativeAssumption
<1>2. /\ bal \in [Tokens -> [Accounts -> Nat]] /\ eth \in [Accounts -> Nat]
      /\ launch \in [state : LaunchStates, sold : 0..PublicSupply, lpShares : Nat]
  BY DEF NativeInv, MarketInv, MarketTypeOK
<1>3. eth'["proceeds"] = eth["proceeds"] + q.eth /\ eth'["reserve"] = eth["reserve"]
  BY <1>1, <1>2, MoveEthFacts DEF SubscribeEth
<1>4. Deliver(bal, q.payer, q.minOut)
  BY DEF SubscribeEth
<1>5. PICK b : b = Pay(bal, "pass", "launch", q.payer, q.minOut)
  OBVIOUS
<1>6. /\ bal' = b \/ bal' = Pay(Pay(b, "pass", "launch", "pool", LpPass), "usdc", "launch", "pool", LpUsdc)
      /\ \/ launch' = [launch EXCEPT !.sold = launch.sold + q.minOut]
         \/ launch' = [state |-> "LAUNCHED", sold |-> launch.sold + q.minOut, lpShares |-> InitialShares]
  BY <1>4, <1>5 DEF Deliver, CreatePool
<1>7. launch'.sold = launch.sold + q.minOut
  BY <1>2, <1>6
<1>8. b["usdc"] = bal["usdc"] /\ DOMAIN b = Tokens
  BY <1>1, <1>2, <1>5 DEF Pay
<1>9. bal'["usdc"]["reserve"] = bal["usdc"]["reserve"] /\ bal'["usdc"]["proceeds"] = bal["usdc"]["proceeds"]
  <2>1. PICK d : d = Pay(b, "pass", "launch", "pool", LpPass)
    OBVIOUS
  <2>2. d["usdc"] = b["usdc"] /\ DOMAIN d = Tokens
    BY <1>1, <1>8, <2>1 DEF Pay
  <2>3. \A a \in {"reserve", "proceeds"} : Pay(d, "usdc", "launch", "pool", LpUsdc)["usdc"][a] = d["usdc"][a]
    BY <1>1, <1>2, <1>8, <2>2 DEF Pay
  <2> QED BY <1>6, <1>8, <2>1, <2>2, <2>3
<1>10. /\ bal["usdc"]["reserve"] \in Nat /\ bal["usdc"]["proceeds"] \in Nat /\ eth["reserve"] \in Nat
  BY <1>1, <1>2
<1>11. Gain(0, 0, 0, q.eth, q.minOut)
  BY <1>3, <1>7, <1>9, <1>10 DEF Gain
<1>12. /\ q.minOut % PassPerUsdc = 0 /\ q.usdc = MintCost(q.minOut)
       /\ q.eth = (q.usdc * EthUnit + q.price - 1) \div q.price
  BY DEF SubscribeEth, MayMint, MulDivUp
<1>13. (q.minOut * EthUnit) \div PassPerUsdc = q.usdc * EthUnit
  BY <1>1, <1>12, ExactCost
<1>14. PICK value \in Nat : value = q.usdc * EthUnit
  BY <1>1
<1>15. q.eth * q.price >= value
  BY <1>1, <1>12, <1>14, RoundedAbove
<1>16. 0 * EthUnit + q.eth * q.price = q.eth * q.price
  BY <1>1
<1> QED BY <1>11, <1>13, <1>14, <1>15, <1>16

\* At the quoted price no conversion costs the reserve anything, and PASS sold for ETH
\* brings in what it costs, for every price, fee and unit.
THEOREM ConversionsKeepValue == NativeSpec => ConversionKeepsValue
<1>1. ASSUME NativeInv, NativeNext PROVE ConversionStep
  <2> SUFFICES ASSUME NEW q \in quotes, [q EXCEPT !.runs = @ + 1] \in quotes', q \notin quotes'
               PROVE  /\ ReserveValue(bal', eth', q.price) >= ReserveValue(bal, eth, q.price)
                      /\ ProceedsValue(bal', eth', q.price) - ProceedsValue(bal, eth, q.price)
                           >= ((launch'.sold - launch.sold) * EthUnit) \div PassPerUsdc
    BY DEF ConversionStep
  <2>1. \E p \in quotes : SubscribeEth(p) \/ BuyNative(p) \/ SellNative(p)
    <3>1. quotes' # quotes /\ ~(quotes \subseteq quotes')
      OBVIOUS
    <3>2. ASSUME NEW new, Sign(new) PROVE FALSE
      BY <3>1, <3>2 DEF Sign
    <3>3. ASSUME NEW next, Administer(next) PROVE FALSE
      BY <3>1, <3>3 DEF Administer
    <3>4. ~UNCHANGED nativeOnly /\ ~Tick
      BY <3>1 DEF nativeOnly, Tick
    <3>5. ASSUME NEW a, FundNative(a) \/ WithdrawNative(a) \/ FundUsdc(a) \/ WithdrawUsdc(a) PROVE FALSE
      BY <3>1, <3>5 DEF FundNative, WithdrawNative, FundUsdc, WithdrawUsdc, nativeOnly
    <3>6. ASSUME NEW u, NEW a, NEW pr, NEW s, NEW age, QuoteMint(u, a, pr, age) \/ QuoteBuy(u, a, pr, s, age)
                                                     \/ QuoteSell(u, a, pr, s, age)
          PROVE  FALSE
      BY <3>2, <3>6, Zenon DEF QuoteMint, QuoteBuy, QuoteSell
    <3>7. ASSUME NEW r, NEW x, NEW y, \/ AuthorizeRouter(r) \/ ConfigureTradingRouter \/ SetQuoteSigner(r)
                                     \/ SetPaused(x, y) \/ SetLimits(r)
          PROVE  FALSE
      BY <3>3, <3>7, Zenon DEF AuthorizeRouter, ConfigureTradingRouter, SetQuoteSigner, SetPaused, SetLimits
    <3> QED BY <1>1, <3>4, <3>5, <3>6, <3>7, Zenon DEF NativeNext
  <2>2. PICK p \in quotes : SubscribeEth(p) \/ BuyNative(p) \/ SellNative(p)
    BY <2>1
  <2>3. quotes \ {p} \subseteq quotes'
    BY <2>2 DEF SubscribeEth, BuyNative, SellNative, Consume
  <2>4. q = p
    BY <2>3
  <2>5. /\ EthUnit \in Nat \ {0} /\ PassPerUsdc \in Nat \ {0} /\ q.price \in Nat
        /\ q.usdc \in Nat /\ q.eth \in Nat /\ q.minOut \in Nat
    BY <1>1, QuoteTyped, NativeAssumption, MarketAssumption
  <2>6. /\ 0 * EthUnit + 0 * q.price >= (0 * EthUnit) \div PassPerUsdc /\ 0 * EthUnit + 0 * q.price >= 0
        /\ 0 \in Int /\ 0 \in Nat /\ q.eth \in Int
    BY <2>5
  <2>7. CASE BuyNative(q)
    <3>1. PICK d \in Int : d = 0 - q.usdc
      BY <2>5
    <3>2. Gain(d, q.eth, 0, 0, 0) /\ d * EthUnit + q.eth * q.price >= 0
      BY <1>1, <2>7, <3>1, BuyNativeKeepsValue
    <3> QED BY <1>1, <2>6, <3>2, GainKeepsValue, Zenon
  <2>8. CASE SellNative(q)
    <3>1. PICK usdc \in Int, wei \in Int : Gain(usdc, wei, 0, 0, 0) /\ usdc * EthUnit + wei * q.price >= 0
      BY <1>1, <2>8, SellNativeKeepsValue
    <3> QED BY <1>1, <2>6, <3>1, GainKeepsValue, Zenon
  <2>9. CASE SubscribeEth(q)
    BY <1>1, <2>5, <2>6, <2>9, SubscribeEthKeepsValue, GainKeepsValue, Zenon
  <2> QED BY <2>2, <2>4, <2>7, <2>8, <2>9
<1>2. NativeInv /\ [NativeNext]_nativeVars => [ConversionStep]_nativeVars
  BY <1>1
<1> QED BY <1>2, NativeInvariant, PTL DEF NativeSpec, ConversionKeepsValue

----------------------------------------------------------------------------
(* Sums over a finite set *)

\* Induction over numbers, with the set of those for which it holds.
LEMMA NumberInduction ==
    ASSUME NEW T \in SUBSET Nat, 0 \in T, \A n \in T : n + 1 \in T
    PROVE  T = Nat
<1> SUFFICES ASSUME Nat \ T # {} PROVE FALSE
  OBVIOUS
<1> DEFINE R == OpToRel(<, Nat)
<1>1. IsWellFoundedOn(R, Nat)
  BY NatLessThanWellFounded
<1>2. \A x, y \in Nat : x < y => <<x, y>> \in R
  BY DEF OpToRel
<1> HIDE DEF R
<1>3. \E x \in Nat \ T : \A y \in Nat \ T : ~(<<y, x>> \in R)
  BY <1>1, WFMin
<1>4. PICK n \in Nat \ T : \A y \in Nat \ T : ~(<<y, n>> \in R)
  BY <1>3
<1>5. n - 1 \in Nat /\ n - 1 < n /\ n = (n - 1) + 1
  BY <1>4
<1>6. n - 1 \in T
  BY <1>2, <1>4, <1>5
<1> QED BY <1>4, <1>5, <1>6

\* The element a fold takes next, and the function it computes.
Pick(s) == CHOOSE x \in s : TRUE
Unfolded(g, h, s) == IF s = {} THEN 0 ELSE h[Pick(s)] + g[s \ {Pick(s)}]
Unfolds(g, h, S) == g = [s \in SUBSET S |-> Unfolded(g, h, s)]
Fold(h, S) == CHOOSE g : Unfolds(g, h, S)

\* The sum of the library is that function at the whole set.
LEMMA SumIsFold ==
    ASSUME NEW h
    PROVE  SumFunction(h) = Fold(h, DOMAIN h)[DOMAIN h]
BY Zenon DEF SumFunction, SumFunctionOnSet, FoldFunctionOnSet, MapThenFoldSet, Fold, Unfolds, Unfolded, Pick

\* A part of a finite set, one element less.
LEMMA OneLess ==
    ASSUME NEW S, IsFiniteSet(S), NEW s \in SUBSET S, s # {}
    PROVE  /\ Pick(s) \in s /\ Pick(s) \in S /\ s \ {Pick(s)} \in SUBSET S
           /\ Cardinality(s) \in Nat /\ Cardinality(s \ {Pick(s)}) \in Nat
           /\ Cardinality(s) = Cardinality(s \ {Pick(s)}) + 1
<1>1. Pick(s) \in s
  BY DEF Pick
<1>2. IsFiniteSet(s)
  BY FS_Subset
<1>3. IsFiniteSet(s \ {Pick(s)}) /\ Cardinality(s \ {Pick(s)}) = Cardinality(s) - 1
  BY <1>1, <1>2, FS_RemoveElement
<1>4. Cardinality(s) \in Nat /\ Cardinality(s \ {Pick(s)}) \in Nat
  BY <1>2, <1>3, FS_CardinalityType
<1> QED BY <1>1, <1>3, <1>4

\* What holds of the empty set, and of a set when of one element less, holds of every part of S.
LEMMA PartInduction ==
    ASSUME NEW S, IsFiniteSet(S), NEW P \in SUBSET (SUBSET S), {} \in P,
           \A s \in SUBSET S : s # {} /\ s \ {Pick(s)} \in P => s \in P
    PROVE  P = SUBSET S
<1> DEFINE T == {n \in Nat : \A s \in SUBSET S : Cardinality(s) = n => s \in P}
<1>1. \A s \in SUBSET S : IsFiniteSet(s) /\ Cardinality(s) \in Nat
  BY FS_Subset, FS_CardinalityType
<1>2. 0 \in T
  BY <1>1, FS_EmptySet
<1>3. ASSUME NEW n \in T PROVE n + 1 \in T
  <2> SUFFICES ASSUME NEW s \in SUBSET S, Cardinality(s) = n + 1 PROVE s \in P
    OBVIOUS
  <2>1. s # {}
    BY <1>3, FS_EmptySet
  <2>2. s \ {Pick(s)} \in SUBSET S /\ Cardinality(s \ {Pick(s)}) = n
    BY <1>3, <2>1, OneLess
  <2>3. s \ {Pick(s)} \in P
    BY <1>3, <2>2
  <2> QED BY <2>1, <2>3
<1>4. T = Nat
  <2>1. T \in SUBSET Nat
    OBVIOUS
  <2> HIDE DEF T
  <2> QED BY <1>2, <1>3, <2>1, NumberInduction
<1> QED BY <1>1, <1>4

\* The fold over a finite set is well defined.
LEMMA FoldUnfolds ==
    ASSUME NEW S, IsFiniteSet(S), NEW h, \A x \in S : h[x] \in Int
    PROVE  Unfolds(Fold(h, S), h, S)
<1> DEFINE Good(g, n) == \A s \in SUBSET S : Cardinality(s) <= n => g[s] = Unfolded(g, h, s)
           T == {n \in Nat : \E g \in [SUBSET S -> Int] : Good(g, n)}
<1>1. \A s \in SUBSET S : IsFiniteSet(s) /\ Cardinality(s) \in Nat
  BY FS_Subset, FS_CardinalityType
<1>2. 0 \in T
  <2>1. PICK g : g = [s \in SUBSET S |-> 0]
    OBVIOUS
  <2>2. g \in [SUBSET S -> Int]
    BY <2>1
  <2>3. ASSUME NEW s \in SUBSET S, Cardinality(s) <= 0 PROVE g[s] = Unfolded(g, h, s)
    <3>1. s = {}
      BY <1>1, <2>3, FS_EmptySet
    <3> QED BY <2>1, <3>1 DEF Unfolded
  <2> QED BY <2>2, <2>3
<1>3. ASSUME NEW n \in T PROVE n + 1 \in T
  <2>1. PICK g \in [SUBSET S -> Int] : Good(g, n)
    OBVIOUS
  <2>2. PICK k : k = [s \in SUBSET S |-> Unfolded(g, h, s)]
    OBVIOUS
  <2>3. ASSUME NEW s \in SUBSET S PROVE Unfolded(g, h, s) \in Int
    <3>1. CASE s = {}
      BY <3>1 DEF Unfolded
    <3>2. CASE s # {}
      <4>1. Pick(s) \in S /\ s \ {Pick(s)} \in SUBSET S
        BY <3>2, OneLess
      <4>2. h[Pick(s)] \in Int /\ g[s \ {Pick(s)}] \in Int
        BY <2>1, <4>1
      <4> QED BY <3>2, <4>2 DEF Unfolded
    <3> QED BY <3>1, <3>2
  <2>4. k \in [SUBSET S -> Int]
    BY <2>2, <2>3
  <2>5. ASSUME NEW s \in SUBSET S, Cardinality(s) <= n + 1 PROVE k[s] = Unfolded(k, h, s)
    <3>1. CASE s = {}
      BY <2>2, <3>1 DEF Unfolded
    <3>2. CASE s # {}
      <4>1. s \ {Pick(s)} \in SUBSET S /\ Cardinality(s \ {Pick(s)}) <= n
        BY <1>3, <2>5, <3>2, OneLess
      <4>2. g[s \ {Pick(s)}] = Unfolded(g, h, s \ {Pick(s)})
        BY <2>1, <4>1
      <4>3. k[s \ {Pick(s)}] = g[s \ {Pick(s)}]
        BY <2>2, <4>1, <4>2
      <4>4. k[s] = Unfolded(g, h, s)
        BY <2>2
      <4> QED BY <3>2, <4>3, <4>4 DEF Unfolded
    <3> QED BY <3>1, <3>2
  <2> QED BY <1>3, <2>4, <2>5
<1>4. T = Nat
  <2>1. T \in SUBSET Nat
    OBVIOUS
  <2> HIDE DEF T
  <2> QED BY <1>2, <1>3, <2>1, NumberInduction
<1>5. PICK g \in [SUBSET S -> Int] : Good(g, Cardinality(S))
  BY <1>1, <1>4
<1>6. \A s \in SUBSET S : Cardinality(s) <= Cardinality(S)
  BY FS_Subset
<1>7. Unfolds(g, h, S)
  <2>1. g = [s \in SUBSET S |-> g[s]]
    BY <1>5
  <2>2. \A s \in SUBSET S : g[s] = Unfolded(g, h, s)
    BY <1>5, <1>6
  <2> QED BY <2>1, <2>2 DEF Unfolds
<1> QED BY <1>7 DEF Fold

\* One entry grows by an amount, and so does every sum it is part of.
Grown(h, k, S, x, amount) ==
    /\ \A y \in S : h[y] \in Int
    /\ \A y \in S : k[y] = IF y = x THEN h[y] + amount ELSE h[y]

LEMMA FoldGrows ==
    ASSUME NEW S, IsFiniteSet(S), NEW h, NEW k, NEW x \in S, NEW amount \in Int,
           Grown(h, k, S, x, amount)
    PROVE  Fold(h, S)[S] \in Int /\ Fold(k, S)[S] = Fold(h, S)[S] + amount
<1>1. (\A y \in S : h[y] \in Int) /\ (\A y \in S : k[y] \in Int)
  BY DEF Grown
<1>2. PICK f : f = Fold(h, S) /\ Unfolds(f, h, S)
  BY <1>1, FoldUnfolds
<1>3. PICK g : g = Fold(k, S) /\ Unfolds(g, k, S)
  BY <1>1, FoldUnfolds
<1> DEFINE P == {s \in SUBSET S : f[s] \in Int /\ g[s] = f[s] + (IF x \in s THEN amount ELSE 0)}
<1>4. \A s \in SUBSET S : f[s] = Unfolded(f, h, s) /\ g[s] = Unfolded(g, k, s)
  BY <1>2, <1>3 DEF Unfolds
<1>5. {} \in P
  <2>1. f[{}] = 0 /\ g[{}] = 0
    BY <1>4 DEF Unfolded
  <2>2. 0 = 0 + (IF x \in {} THEN amount ELSE 0)
    OBVIOUS
  <2> QED BY <2>1, <2>2
<1>6. ASSUME NEW s \in SUBSET S, s # {}, s \ {Pick(s)} \in P PROVE s \in P
  <2>1. PICK y \in S : y = Pick(s) /\ y \in s
    BY <1>6, OneLess
  <2>2. PICK t \in SUBSET S : t = s \ {y}
    BY <2>1
  <2>3. f[t] \in Int /\ g[t] = f[t] + (IF x \in t THEN amount ELSE 0)
    BY <1>6, <2>1, <2>2
  <2>4. f[s] = h[y] + f[t] /\ g[s] = k[y] + g[t]
    BY <1>4, <1>6, <2>1, <2>2 DEF Unfolded
  <2>5. h[y] \in Int /\ k[y] = IF y = x THEN h[y] + amount ELSE h[y]
    BY DEF Grown
  <2>6. x \in s <=> x = y \/ x \in t
    BY <2>1, <2>2
  <2>7. x = y => x \notin t
    BY <2>2
  <2> QED BY <2>3, <2>4, <2>5, <2>6, <2>7
<1>7. P = SUBSET S
  <2>1. P \in SUBSET (SUBSET S)
    OBVIOUS
  <2> HIDE DEF P
  <2> QED BY <1>5, <1>6, <2>1, PartInduction
<1> QED BY <1>2, <1>3, <1>7

\* A sum of zeros is zero.
LEMMA FoldOfZeros ==
    ASSUME NEW S, IsFiniteSet(S), NEW h, \A y \in S : h[y] = 0
    PROVE  Fold(h, S)[S] = 0
<1>1. PICK f : f = Fold(h, S) /\ Unfolds(f, h, S)
  BY FoldUnfolds
<1> DEFINE P == {s \in SUBSET S : f[s] = 0}
<1>2. \A s \in SUBSET S : f[s] = Unfolded(f, h, s)
  BY <1>1 DEF Unfolds
<1>3. {} \in P
  BY <1>2 DEF Unfolded
<1>4. ASSUME NEW s \in SUBSET S, s # {}, s \ {Pick(s)} \in P PROVE s \in P
  <2>1. Pick(s) \in S /\ s \ {Pick(s)} \in SUBSET S
    BY <1>4, OneLess
  <2> QED BY <1>2, <1>4, <2>1 DEF Unfolded
<1>5. P = SUBSET S
  <2>1. P \in SUBSET (SUBSET S)
    OBVIOUS
  <2> HIDE DEF P
  <2> QED BY <1>3, <1>4, <2>1, PartInduction
<1> QED BY <1>1, <1>5

\* A sum of natural numbers is one.
LEMMA FoldOfNaturals ==
    ASSUME NEW S, IsFiniteSet(S), NEW h, \A y \in S : h[y] \in Nat
    PROVE  Fold(h, S)[S] \in Nat
<1>1. PICK f : f = Fold(h, S) /\ Unfolds(f, h, S)
  BY FoldUnfolds
<1> DEFINE P == {s \in SUBSET S : f[s] \in Nat}
<1>2. \A s \in SUBSET S : f[s] = Unfolded(f, h, s)
  BY <1>1 DEF Unfolds
<1>3. {} \in P
  BY <1>2 DEF Unfolded
<1>4. ASSUME NEW s \in SUBSET S, s # {}, s \ {Pick(s)} \in P PROVE s \in P
  <2>1. Pick(s) \in S /\ s \ {Pick(s)} \in SUBSET S
    BY <1>4, OneLess
  <2>2. f[s] = h[Pick(s)] + f[s \ {Pick(s)}]
    BY <1>2, <1>4 DEF Unfolded
  <2>3. h[Pick(s)] \in Nat /\ f[s \ {Pick(s)}] \in Nat
    BY <1>4, <2>1
  <2> QED BY <2>2, <2>3
<1>5. P = SUBSET S
  <2>1. P \in SUBSET (SUBSET S)
    OBVIOUS
  <2> HIDE DEF P
  <2> QED BY <1>3, <1>4, <2>1, PartInduction
<1> QED BY <1>1, <1>5

\* The same, of the library's sum of a function.
LEMMA SumOfZeros ==
    ASSUME NEW S, IsFiniteSet(S), NEW h, h = [y \in S |-> 0]
    PROVE  SumFunction(h) = 0
<1>1. DOMAIN h = S /\ \A y \in S : h[y] = 0
  OBVIOUS
<1> QED BY <1>1, FoldOfZeros, SumIsFold

LEMMA SumOfNaturals ==
    ASSUME NEW S, IsFiniteSet(S), NEW h \in [S -> Nat]
    PROVE  SumFunction(h) \in Nat
<1>1. DOMAIN h = S /\ \A y \in S : h[y] \in Nat
  OBVIOUS
<1> QED BY <1>1, FoldOfNaturals, SumIsFold

LEMMA SumGrows ==
    ASSUME NEW S, IsFiniteSet(S), NEW h \in [S -> Int], NEW k \in [S -> Int], NEW x \in S, NEW amount \in Int,
           Grown(h, k, S, x, amount)
    PROVE  SumFunction(h) \in Int /\ SumFunction(k) = SumFunction(h) + amount
<1>1. DOMAIN h = S /\ DOMAIN k = S
  OBVIOUS
<1>2. IsFiniteSet(S) /\ x \in S /\ amount \in Int /\ Grown(h, k, S, x, amount)
  OBVIOUS
<1>3. Fold(h, S)[S] \in Int /\ Fold(k, S)[S] = Fold(h, S)[S] + amount
  BY <1>2, FoldGrows
<1> QED BY <1>1, <1>3, SumIsFold

----------------------------------------------------------------------------
(* Native ETH: the day's budget *)

\* The accounts' totals add up to the day's, within a limit that was set.
DayAddsUp(d) ==
    /\ SumFunction([a \in Users |-> spent[a][d]]) = daySpent[d]
    /\ \E l \in LimitChoices : daySpent[d] <= l.globalDaily

BudgetInv == \A d \in Days : DayAddsUp(d)

LEMMA BudgetStarts == NativeInit => BudgetInv
<1> SUFFICES ASSUME NativeInit, NEW d \in Days PROVE DayAddsUp(d)
  BY DEF BudgetInv
<1>1. [a \in Users |-> spent[a][d]] = [a \in Users |-> 0]
  BY DEF NativeInit
<1>2. SumFunction([a \in Users |-> spent[a][d]]) = 0
  BY <1>1, SumOfZeros, NativeAssumption
<1>3. daySpent[d] = 0
  BY DEF NativeInit
<1>4. \E l \in LimitChoices : 0 <= l.globalDaily
  BY NativeAssumption DEF NativeInit
<1> QED BY <1>2, <1>3, <1>4 DEF DayAddsUp

\* Only a sale spends of the day's budget.
LEMMA OnlySalesSpend ==
    ASSUME [NativeNext]_nativeVars
    PROVE  UNCHANGED <<spent, daySpent>> \/ \E q \in quotes : SellNative(q)
<1> DEFINE Kept == UNCHANGED <<spent, daySpent>>
<1>1. ASSUME NEW new, Sign(new) PROVE Kept
  BY <1>1 DEF Sign
<1>2. ASSUME NEW next, Administer(next) PROVE Kept
  BY <1>2 DEF Administer
<1>3. UNCHANGED nativeOnly \/ UNCHANGED nativeVars \/ Tick => Kept
  BY DEF nativeOnly, nativeVars, Tick
<1>4. ASSUME NEW a, FundNative(a) \/ WithdrawNative(a) \/ FundUsdc(a) \/ WithdrawUsdc(a) PROVE Kept
  BY <1>4 DEF FundNative, WithdrawNative, FundUsdc, WithdrawUsdc, nativeOnly
<1>5. ASSUME NEW q, SubscribeEth(q) \/ BuyNative(q) PROVE Kept
  BY <1>5 DEF SubscribeEth, BuyNative
<1> HIDE DEF Kept
<1>6. ASSUME NEW u, NEW a, NEW p, NEW s, NEW age,
             QuoteMint(u, a, p, age) \/ QuoteBuy(u, a, p, s, age) \/ QuoteSell(u, a, p, s, age)
      PROVE  Kept
  BY <1>1, <1>6, Zenon DEF QuoteMint, QuoteBuy, QuoteSell
<1>7. ASSUME NEW r, NEW x, NEW y, \/ AuthorizeRouter(r) \/ ConfigureTradingRouter \/ SetQuoteSigner(r)
                                 \/ SetPaused(x, y) \/ SetLimits(r)
      PROVE  Kept
  BY <1>2, <1>7, Zenon DEF AuthorizeRouter, ConfigureTradingRouter, SetQuoteSigner, SetPaused, SetLimits
<1>8. Kept \/ \E q \in quotes : SellNative(q)
  BY <1>3, <1>4, <1>5, <1>6, <1>7, Zenon DEF NativeNext
<1> QED BY <1>8 DEF Kept

\* A sale adds to one account's total what it adds to the day's.
LEMMA SaleAddsUp ==
    ASSUME NativeInv, BudgetInv, NEW q \in quotes, SellNative(q)
    PROVE  BudgetInv'
<1>1. q.payer \in Users /\ Today \in Days
  BY QuoteTyped, TodayIsDay DEF NativeInv
<1>2. PICK out \in Nat : out = UsdcToNative(SellOutput(q.amountIn), q.price)
  BY SaleAmounts
<1>3. /\ spent' = [spent EXCEPT ![q.payer][Today] = @ + out]
      /\ daySpent' = [daySpent EXCEPT ![Today] = @ + out]
      /\ daySpent[Today] + out <= reserve.limits.globalDaily
  BY <1>2 DEF SellNative, WithinBudget
<1>4. /\ spent \in [Users -> [Days -> Nat]] /\ daySpent \in [Days -> Nat]
      /\ reserve.limits \in LimitChoices /\ IsFiniteSet(Users)
  BY NativeAssumption DEF NativeInv, ReserveRecords
<1> SUFFICES ASSUME NEW d \in Days
             PROVE  /\ SumFunction([a \in Users |-> spent'[a][d]]) = daySpent'[d]
                    /\ \E l \in LimitChoices : daySpent'[d] <= l.globalDaily
  BY DEF BudgetInv, DayAddsUp
<1>5. PICK h : h = [a \in Users |-> spent[a][d]]
  OBVIOUS
<1>6. SumFunction(h) = daySpent[d] /\ \E l \in LimitChoices : daySpent[d] <= l.globalDaily
  BY <1>5 DEF BudgetInv, DayAddsUp
<1>7. PICK k : k = [a \in Users |-> spent'[a][d]]
  OBVIOUS
<1>8. PICK amount \in Int : amount = IF d = Today THEN out ELSE 0
  BY <1>2
<1>9. daySpent'[d] = daySpent[d] + amount /\ daySpent[d] \in Int
  BY <1>3, <1>4, <1>8
<1>10. h \in [Users -> Int]
  BY <1>4, <1>5
<1>11. \A y \in Users : k[y] = IF y = q.payer THEN h[y] + amount ELSE h[y]
  BY <1>1, <1>3, <1>4, <1>5, <1>7, <1>8
<1>12. k \in [Users -> Int]
  BY <1>7, <1>10, <1>11
<1>13. SumFunction(k) = SumFunction(h) + amount
  <2>1. PICK x \in Users : x = q.payer
    BY <1>1
  <2>2. Grown(h, k, Users, x, amount)
    BY <1>10, <1>11, <2>1 DEF Grown
  <2> QED BY <1>4, <1>10, <1>12, <2>2, SumGrows
<1>14. \E l \in LimitChoices : daySpent'[d] <= l.globalDaily
  <2>1. CASE d = Today
    BY <1>2, <1>3, <1>4, <1>8, <1>9, <2>1
  <2>2. CASE d # Today
    BY <1>6, <1>8, <1>9, <2>2
  <2> QED BY <2>1, <2>2
<1> QED BY <1>6, <1>7, <1>9, <1>13, <1>14

\* The ETH quotes for every price, fee, limit and number of accounts: each runs once, the
\* contract's arithmetic accepts what the backend signed, and the accounts' totals add up to the
\* day's, within a limit the owner has set.
THEOREM EthQuotesCorrect == NativeSpec => []EthQuotesHonoured
<1>1. NativeInv /\ BudgetInv /\ [NativeNext]_nativeVars => BudgetInv'
  <2> SUFFICES ASSUME NativeInv, BudgetInv, [NativeNext]_nativeVars PROVE BudgetInv'
    OBVIOUS
  <2>1. CASE UNCHANGED <<spent, daySpent>>
    BY <2>1 DEF BudgetInv, DayAddsUp
  <2> QED BY <2>1, OnlySalesSpend, SaleAddsUp
<1>2. BudgetInv => DayBudgetHolds
  BY DEF BudgetInv, DayAddsUp, DayBudgetHolds
<1>3. NativeInv => NativeTypeOK
  BY DEF NativeInv, NativeTypeOK, MarketInv, ReserveRecords
<1> QED BY <1>1, <1>2, <1>3, BudgetStarts, NativeInvariant, QuotesRunOnce, QuotesAgree, PTL
        DEF NativeSpec, EthQuotesHonoured

----------------------------------------------------------------------------
(* Native ETH: the router is one more trader *)

\* Whatever arrives in ETH, neither the sale, its launch nor the pool can get stuck.
THEOREM NativeMarketLive == NativeSpec => []MarketStaysLive
<1>1. NativeInv => MarketStaysLive
  BY DEF NativeInv, MarketInv, MarketStaysLive
<1> QED BY <1>1, NativeInvariant, PTL

\* Nor does the value of a share fall when the router trades for the reserve.
THEOREM NativeShareValue == NativeSpec => ShareValueKept
<1>1. ASSUME NativeInv, [NativeNext]_nativeVars PROVE [ShareValueStep]_marketVars
  <2> DEFINE Kept == [ShareValueStep]_marketVars
  <2>1. MarketInv
    BY <1>1 DEF NativeInv
  <2>2. ASSUME [MarketNext]_marketVars PROVE Kept
    BY <2>1, <2>2, ShareValueStepKept
  <2>3. ASSUME NEW ready \in BOOLEAN, OpenMint(ready) PROVE Kept
    BY <2>2, <2>3 DEF MarketNext
  <2>4. pool' = pool => Kept
    BY <2>1, SamePoolValue
  <2>5. ASSUME NEW new, Sign(new) PROVE Kept
    BY <2>4, <2>5 DEF Sign, marketVars
  <2>6. ASSUME NEW next, Administer(next) PROVE Kept
    BY <2>4, <2>6 DEF Administer, marketVars
  <2>7. UNCHANGED nativeVars \/ Tick => Kept
    BY <2>4 DEF nativeVars, Tick, marketVars
  <2>8. ASSUME NEW a, FundNative(a) \/ WithdrawNative(a) \/ FundUsdc(a) \/ WithdrawUsdc(a) PROVE Kept
    BY <2>4, <2>8 DEF FundNative, WithdrawNative, FundUsdc, WithdrawUsdc, marketVars
  <2>9. ASSUME NEW q \in quotes, SubscribeEth(q) \/ BuyNative(q) \/ SellNative(q) PROVE Kept
    <3>1. CASE SubscribeEth(q)
      <4>1. ~pool.live
        BY <2>1, <3>1 DEF SubscribeEth, MayMint, MarketInv, SaleCanFinish
      <4> QED BY <4>1 DEF ShareValueStep
    <3>2. CASE BuyNative(q)
      BY <1>1, <2>1, <3>2, BuyNativeIsBuy, BuyValue
    <3>3. CASE SellNative(q)
      BY <1>1, <2>1, <3>3, SellNativeIsSell, SellValue
    <3> QED BY <2>9, <3>1, <3>2, <3>3
  <2> HIDE DEF Kept
  <2>10. ASSUME NEW u, NEW a, NEW p, NEW s, NEW age,
                QuoteMint(u, a, p, age) \/ QuoteBuy(u, a, p, s, age) \/ QuoteSell(u, a, p, s, age)
         PROVE  Kept
    BY <2>5, <2>10, Zenon DEF QuoteMint, QuoteBuy, QuoteSell
  <2>11. ASSUME NEW r, NEW x, NEW y, \/ AuthorizeRouter(r) \/ ConfigureTradingRouter \/ SetQuoteSigner(r)
                                    \/ SetPaused(x, y) \/ SetLimits(r)
         PROVE  Kept
    BY <2>6, <2>11, Zenon DEF AuthorizeRouter, ConfigureTradingRouter, SetQuoteSigner, SetPaused, SetLimits
  <2>12. ("launch" \in reserve.routers /\ Ready) \in BOOLEAN
    OBVIOUS
  <2>13. OpenMint("launch" \in reserve.routers /\ Ready) \/ MarketStep => Kept
    BY <2>2, <2>3, <2>12 DEF MarketNext
  <2>14. Kept
    BY <1>1, <2>7, <2>8, <2>9, <2>10, <2>11, <2>13, Zenon DEF NativeNext
  <2> QED BY <2>14 DEF Kept
<1>2. NativeInv /\ [NativeNext]_nativeVars => [ShareValueStep]_marketVars
  BY <1>1
<1> QED BY <1>2, NativeInvariant, PTL DEF NativeSpec, ShareValueKept
----------------------------------------------------------------------------
(* The trading Vault: its books *)

Vaults ==
    [principal : Nat, idle : Nat, cash : Nat, units : Nat, bought : Nat, locked : Nat,
     pos : [Stocks -> Nat], open : Nat, closed : BOOLEAN, liquidating : BOOLEAN, until : Nat]
Permissions ==
    [executor : BOOLEAN, expires : Nat, window : Nat, maxOrder : Nat, maxTotal : Nat, slip : 0..TradeBps]
Holdings == [owner : Nat, usdc : Nat, stock : [Stocks -> Nat], pass : Nat, given : Nat]

Positions(vault) == {s \in Stocks : vault.pos[s] > 0}

\* What custody holds covers what the Vault owes, stock by stock.
CustodyCovers(vault, h) ==
    /\ h.usdc >= vault.idle + vault.cash
    /\ h.pass >= vault.locked
    /\ \A s \in Stocks : h.stock[s] >= vault.pos[s]

\* The Vault's own books.
Booked(vault) ==
    /\ vault.locked = vault.principal * UnitScale
    /\ vault.open = Cardinality(Positions(vault))
    /\ vault.closed => vault.principal = 0 /\ vault.units = 0 /\ vault.idle = 0 /\ vault.cash = 0 /\ vault.open = 0
    /\ vault.units = 0 => vault.cash = 0 /\ \A s \in Stocks : vault.pos[s] = 0

OrderTyped ==
    order = NoOrder \/ (order.stock \in Stocks /\ order.in \in Nat /\ order.min \in Nat /\ order.buy \in BOOLEAN)

TradingInv ==
    /\ v \in Vaults /\ Booked(v)
    /\ held \in Holdings /\ CustodyCovers(v, held)
    /\ grant \in Permissions
    /\ feed \in [Stocks -> [quote : Nat, at : Nat]]
    /\ OrderTyped
    /\ clock \in Nat

LEMMA TradingConstants ==
    /\ IsFiniteSet(Stocks)
    /\ StockUnit \in Nat \ {0} /\ UnitScale \in Nat \ {0} /\ NavUnit \in Nat \ {0} /\ TradeBps \in Nat \ {0}
    /\ Share \in Nat \ {0} /\ OwnerUsdc \in Nat
    /\ OrderAmounts \subseteq Nat \ {0} /\ OwnerAmounts \subseteq Nat \ {0} /\ Outputs \subseteq Nat
    /\ Grants \subseteq Permissions
<1>1. \A n \in {StockUnit, UnitScale, NavUnit, TradeBps, Share} : n \in Nat \ {0}
  BY TradingAssumption
<1>2. Grants \subseteq Permissions
  BY <1>1, TradingAssumption DEF Permissions
<1> QED BY <1>1, <1>2, TradingAssumption

LEMMA TwoMin ==
    ASSUME NEW a \in Int, NEW b \in Int
    PROVE  Min({a, b}) \in {a, b} /\ Min({a, b}) <= a /\ Min({a, b}) <= b
<1>1. \E x \in {a, b} : \A y \in {a, b} : x <= y
  OBVIOUS
<1> QED BY <1>1 DEF Min

LEMMA TwoMax ==
    ASSUME NEW a \in Int, NEW b \in Int
    PROVE  Max({a, b}) \in {a, b} /\ Max({a, b}) >= a /\ Max({a, b}) >= b
<1>1. \E x \in {a, b} : \A y \in {a, b} : x >= y
  OBVIOUS
<1> QED BY <1>1 DEF Max

\* No position is open when none is counted.
LEMMA NoneOpen ==
    ASSUME NEW vault \in Vaults, Booked(vault), vault.open = 0
    PROVE  \A s \in Stocks : vault.pos[s] = 0
<1>1. Positions(vault) \subseteq Stocks /\ IsFiniteSet(Positions(vault))
  BY FS_Subset, TradingConstants DEF Positions
<1>2. Positions(vault) = {}
  BY <1>1, FS_EmptySet DEF Booked
<1>3. vault.pos \in [Stocks -> Nat]
  BY DEF Vaults
<1> QED BY <1>2, <1>3 DEF Positions

LEMMA TradingStarts == TradingInit => TradingInv
<1> SUFFICES ASSUME TradingInit PROVE TradingInv
  OBVIOUS
<1>1. v \in Vaults
  BY DEF TradingInit, Vaults
<1>2. Positions(v) = {}
  BY DEF TradingInit, Positions
<1>3. Booked(v)
  <2>1. v.locked = 0 /\ v.principal = 0 /\ v.open = 0 /\ ~v.closed /\ v.cash = 0 /\ \A s \in Stocks : v.pos[s] = 0
    BY DEF TradingInit
  <2>2. 0 * UnitScale = 0
    BY TradingConstants
  <2> QED BY <1>2, <2>1, <2>2, FS_EmptySet DEF Booked
<1>4. held \in Holdings /\ CustodyCovers(v, held)
  <2>1. held \in Holdings
    BY TradingConstants DEF TradingInit, Holdings
  <2>2. v.idle = 0 /\ v.cash = 0 /\ v.locked = 0 /\ held.usdc = 0 /\ held.pass = 0
    BY DEF TradingInit
  <2>3. \A s \in Stocks : held.stock[s] = 0 /\ v.pos[s] = 0
    BY DEF TradingInit
  <2> QED BY <2>1, <2>2, <2>3 DEF CustodyCovers
<1>5. grant \in Permissions
  <2>1. 0 \in 0..TradeBps
    BY TradingConstants
  <2> QED BY <2>1 DEF TradingInit, NoGrant, Permissions
<1> QED BY <1>1, <1>3, <1>4, <1>5 DEF TradingInit, TradingInv, OrderTyped

----------------------------------------------------------------------------
(* The trading Vault: capital *)

\* The books keep when only the cash side moves and units stay where assets are.
LEMMA DepositKeeps ==
    ASSUME TradingInv, NEW amount \in OwnerAmounts, Deposit(amount)
    PROVE  TradingInv'
<1>1. amount \in Nat /\ UnitScale \in Nat /\ amount * UnitScale \in Nat
  BY TradingConstants
<1>2. v \in Vaults /\ held \in Holdings
  BY DEF TradingInv
<1>3. v' \in Vaults
  <2>1. v.principal + amount \in Nat /\ v.idle + amount \in Nat /\ v.locked + amount * UnitScale \in Nat
    BY <1>1, <1>2 DEF Vaults
  <2>2. v' = [v EXCEPT !.principal = v.principal + amount, !.idle = v.idle + amount,
                       !.locked = v.locked + amount * UnitScale]
    BY DEF Deposit
  <2> QED BY <1>2, <2>1, <2>2 DEF Vaults
<1>4. /\ v'.principal = v.principal + amount /\ v'.idle = v.idle + amount
      /\ v'.locked = v.locked + amount * UnitScale
      /\ v'.cash = v.cash /\ v'.units = v.units /\ v'.pos = v.pos /\ v'.open = v.open /\ v'.closed = v.closed
  BY <1>2 DEF Deposit, Vaults
<1>5. /\ held'.usdc = held.usdc + amount /\ held'.pass = held.pass + amount * UnitScale
      /\ held'.stock = held.stock
  BY <1>2 DEF Deposit, Holdings
<1>6. held' \in Holdings
  <2>1. held.owner - amount \in Nat /\ held.usdc + amount \in Nat /\ held.pass + amount * UnitScale \in Nat
    BY <1>1, <1>2 DEF Deposit, Holdings
  <2>2. held' = [held EXCEPT !.owner = held.owner - amount, !.usdc = held.usdc + amount,
                             !.pass = held.pass + amount * UnitScale]
    BY DEF Deposit
  <2> QED BY <1>2, <2>1, <2>2 DEF Holdings
<1>7. Booked(v')
  <2>1. (v.principal + amount) * UnitScale = v.principal * UnitScale + amount * UnitScale
    BY <1>1, <1>2 DEF Vaults
  <2>2. Positions(v') = Positions(v)
    BY <1>4 DEF Positions
  <2>3. ~v'.closed
    BY <1>4 DEF Deposit
  <2> QED BY <1>4, <2>1, <2>2, <2>3 DEF Booked, TradingInv
<1>8. CustodyCovers(v', held')
  BY <1>1, <1>2, <1>4, <1>5 DEF CustodyCovers, TradingInv, Vaults, Holdings
<1> QED BY <1>3, <1>6, <1>7, <1>8 DEF TradingInv, Deposit, Bump, OrderTyped


\* What the Vault holds is worth something, and at least its cash.
LEMMA ValuesType ==
    ASSUME TradingInv
    PROVE  [s \in Stocks |-> PositionValue(s)] \in [Stocks -> Nat]
<1> SUFFICES ASSUME NEW s \in Stocks PROVE PositionValue(s) \in Nat
  OBVIOUS
<1>1. v.pos[s] \in Nat /\ feed[s].quote \in Nat /\ StockUnit \in Nat \ {0}
  BY TradingConstants DEF TradingInv, Vaults
<1>2. v.pos[s] * feed[s].quote \in Nat
  BY <1>1
<1> QED BY <1>1, <1>2 DEF PositionValue, Down

LEMMA EquityType ==
    ASSUME TradingInv
    PROVE  RuntimeEquity \in Nat /\ RuntimeEquity >= v.cash /\ v.cash \in Nat
<1>1. PICK worth \in [Stocks -> Nat] : worth = [s \in Stocks |-> PositionValue(s)]
  BY ValuesType
<1>2. SumFunction(worth) \in Nat
  BY SumOfNaturals, TradingConstants
<1>3. v.cash \in Nat
  BY DEF TradingInv, Vaults
<1>4. RuntimeEquity = v.cash + SumFunction(worth)
  BY <1>1 DEF RuntimeEquity
<1> QED BY <1>2, <1>3, <1>4

\* A part of the equity is worth at most all the units.
LEMMA UpBound ==
    ASSUME NEW amount \in Nat, NEW units \in Nat, NEW equity \in Nat \ {0}, amount <= equity
    PROVE  Up(amount, units, equity) \in Nat /\ Up(amount, units, equity) <= units
<1>1. amount * units \in Nat /\ units * equity \in Nat /\ amount * units <= units * equity
  OBVIOUS
<1>2. PICK x \in Nat : x = amount * units + equity - 1
  BY <1>1
<1>3. x < units * equity + equity
  BY <1>1, <1>2
<1>4. PICK q \in Nat : q = x \div equity /\ q * equity <= x
  BY <1>2
<1>5. q <= units
  <2> SUFFICES ASSUME q >= units + 1 PROVE FALSE
    BY <1>4
  <2>1. q * equity >= (units + 1) * equity
    BY <1>4
  <2>2. (units + 1) * equity = units * equity + equity
    OBVIOUS
  <2>3. q * equity \in Nat
    BY <1>4
  <2> QED BY <1>1, <1>2, <1>3, <1>4, <2>1, <2>2, <2>3
<1> QED BY <1>2, <1>4, <1>5 DEF Up


LEMMA AllocateKeeps ==
    ASSUME TradingInv, NEW amount \in OwnerAmounts, Allocate(amount)
    PROVE  TradingInv'
<1>1. amount \in Nat \ {0} /\ UnitScale \in Nat
  BY TradingConstants
<1>2. v \in Vaults /\ held \in Holdings /\ RuntimeEquity \in Nat
  BY EquityType DEF TradingInv
<1>3. PICK units \in Nat : units = AllocatedUnits(amount) /\ units # 0
  <2>1. CASE v.units = 0
    BY <1>1, <2>1 DEF AllocatedUnits, Allocate
  <2>2. CASE v.units # 0
    <3>1. RuntimeEquity \in Nat \ {0} /\ v.units \in Nat /\ amount * v.units \in Nat
      BY <1>1, <1>2, <2>2 DEF Allocate, Vaults
    <3> QED BY <2>2, <3>1 DEF AllocatedUnits, Allocate, Down
  <2> QED BY <2>1, <2>2
<1>4. /\ v.idle - amount \in Nat /\ v.cash + amount \in Nat /\ v.units + units \in Nat
      /\ v' = [v EXCEPT !.idle = v.idle - amount, !.cash = v.cash + amount, !.units = v.units + units]
  BY <1>1, <1>2, <1>3 DEF Allocate, Vaults
<1>5. v' \in Vaults
  BY <1>2, <1>4 DEF Vaults
<1>6. /\ v'.idle = v.idle - amount /\ v'.cash = v.cash + amount /\ v'.units = v.units + units
      /\ v'.principal = v.principal /\ v'.locked = v.locked
      /\ v'.pos = v.pos /\ v'.open = v.open /\ v'.closed = v.closed
  BY <1>2, <1>4 DEF Vaults
<1>7. Booked(v')
  <2>1. Positions(v') = Positions(v)
    BY <1>6 DEF Positions
  <2>2. ~v'.closed /\ v'.units # 0
    BY <1>2, <1>3, <1>6 DEF Allocate, Vaults
  <2> QED BY <1>6, <2>1, <2>2 DEF Booked, TradingInv
<1>8. CustodyCovers(v', held')
  BY <1>1, <1>2, <1>6 DEF CustodyCovers, TradingInv, Vaults, Holdings, Allocate
<1> QED BY <1>5, <1>7, <1>8 DEF TradingInv, Allocate, Bump, OrderTyped

LEMMA DeallocateKeeps ==
    ASSUME TradingInv, NEW amount \in OwnerAmounts, Deallocate(amount)
    PROVE  TradingInv'
<1>1. amount \in Nat \ {0}
  BY TradingConstants
<1>2. /\ v \in Vaults /\ held \in Holdings /\ RuntimeEquity \in Nat
      /\ v.cash <= RuntimeEquity /\ v.cash \in Nat /\ v.units \in Nat
  BY EquityType DEF TradingInv, Vaults
<1>3. amount <= v.cash /\ RuntimeEquity \in Nat \ {0} /\ amount <= RuntimeEquity
  BY <1>1, <1>2 DEF Deallocate
<1>4. PICK units \in Nat : units = Up(amount, v.units, RuntimeEquity) /\ units <= v.units
  BY <1>1, <1>2, <1>3, UpBound
<1>5. /\ units # 0 /\ LeavesNothingBehind(amount, units)
      /\ v' = [v EXCEPT !.cash = @ - amount, !.idle = @ + amount, !.units = @ - units]
  BY <1>4 DEF Deallocate
<1>6. /\ v.idle + amount \in Nat /\ v.cash - amount \in Nat /\ v.units - units \in Nat
      /\ v' = [v EXCEPT !.cash = v.cash - amount, !.idle = v.idle + amount, !.units = v.units - units]
  BY <1>1, <1>2, <1>3, <1>4, <1>5 DEF Vaults
<1>7. v' \in Vaults
  BY <1>2, <1>6 DEF Vaults
<1>8. /\ v'.idle = v.idle + amount /\ v'.cash = v.cash - amount /\ v'.units = v.units - units
      /\ v'.principal = v.principal /\ v'.locked = v.locked
      /\ v'.pos = v.pos /\ v'.open = v.open /\ v'.closed = v.closed
  BY <1>2, <1>6 DEF Vaults
<1>9. Booked(v')
  <2>1. Positions(v') = Positions(v)
    BY <1>8 DEF Positions
  <2>2. ~v'.closed
    BY <1>8 DEF Deallocate
  <2>3. v'.units = 0 => v'.cash = 0 /\ \A s \in Stocks : v'.pos[s] = 0
    <3> SUFFICES ASSUME v'.units = 0 PROVE v'.cash = 0 /\ \A s \in Stocks : v'.pos[s] = 0
      OBVIOUS
    <3>1. units = v.units
      BY <1>2, <1>4, <1>8
    <3>2. v.open = 0 /\ amount = v.cash
      BY <1>5, <3>1 DEF LeavesNothingBehind
    <3>3. \A s \in Stocks : v.pos[s] = 0
      BY <1>2, <3>2, NoneOpen DEF TradingInv
    <3> QED BY <1>2, <1>8, <3>2, <3>3
  <2> QED BY <1>8, <2>1, <2>2, <2>3 DEF Booked, TradingInv
<1>10. CustodyCovers(v', held')
  BY <1>1, <1>2, <1>8 DEF CustodyCovers, TradingInv, Vaults, Holdings, Deallocate
<1> QED BY <1>7, <1>9, <1>10 DEF TradingInv, Deallocate, Bump, OrderTyped

LEMMA WithdrawKeeps ==
    ASSUME TradingInv, NEW amount \in OwnerAmounts, Withdraw(amount)
    PROVE  TradingInv'
<1>1. amount \in Nat \ {0} /\ UnitScale \in Nat
  BY TradingConstants
<1>2. /\ v \in Vaults /\ held \in Holdings /\ Booked(v) /\ CustodyCovers(v, held)
      /\ v.idle \in Nat /\ v.cash \in Nat /\ v.principal \in Nat /\ v.locked \in Nat
      /\ held.usdc \in Nat /\ held.pass \in Nat /\ held.owner \in Nat
  BY DEF TradingInv, Vaults, Holdings
<1>3. PICK profit \in Nat : profit = RealizedProfit /\ profit >= v.idle + v.cash - v.principal
  <2>1. PICK gain \in Int : gain = v.idle + v.cash - v.principal
    BY <1>2
  <2>2. Max({0, gain}) \in {0, gain} /\ Max({0, gain}) >= 0 /\ Max({0, gain}) >= gain
    BY TwoMax
  <2> QED BY <2>1, <2>2 DEF RealizedProfit
<1>4. PICK exited \in Nat : /\ exited = Max({0, amount - RealizedProfit})
                            /\ exited = 0 \/ exited = amount - profit
  <2>1. PICK over \in Int : over = amount - profit
    BY <1>1, <1>3
  <2>2. Max({0, over}) \in {0, over} /\ Max({0, over}) >= 0
    BY TwoMax
  <2> QED BY <1>3, <2>1, <2>2
<1>5. amount <= v.idle /\ exited <= v.principal
  BY <1>1, <1>2, <1>3, <1>4 DEF Withdraw
<1>6. PICK back \in Nat : back = exited * UnitScale
  BY <1>1, <1>4
<1>7. PICK rest \in Nat : rest = v.principal - exited
  BY <1>2, <1>4, <1>5
<1>8. v.locked >= back /\ rest * UnitScale = v.locked - back
  <2>1. v.locked = v.principal * UnitScale
    BY <1>2 DEF Booked
  <2>2. (rest + exited) * UnitScale = rest * UnitScale + exited * UnitScale /\ rest * UnitScale \in Nat
    BY <1>1, <1>4, <1>7
  <2>3. v.principal = rest + exited
    BY <1>2, <1>4, <1>7
  <2> QED BY <1>6, <2>1, <2>2, <2>3
<1>9. /\ v' = [v EXCEPT !.idle = v.idle - amount, !.principal = rest, !.locked = v.locked - back]
      /\ held' = [held EXCEPT !.usdc = held.usdc - amount, !.owner = held.owner + amount, !.pass = held.pass - back]
  BY <1>4, <1>6, <1>7 DEF Withdraw
<1>10. held.usdc >= v.idle + v.cash /\ held.pass >= v.locked
  BY <1>2 DEF CustodyCovers
<1>11. /\ v.idle - amount \in Nat /\ v.locked - back \in Nat
       /\ held.usdc - amount \in Nat /\ held.owner + amount \in Nat /\ held.pass - back \in Nat
  BY <1>1, <1>2, <1>5, <1>6, <1>8, <1>10
<1>12. v' \in Vaults
  BY <1>2, <1>7, <1>9, <1>11 DEF Vaults
<1>13. held' \in Holdings
  BY <1>2, <1>9, <1>11 DEF Holdings
<1>14. /\ v'.idle = v.idle - amount /\ v'.principal = rest /\ v'.locked = v.locked - back
       /\ v'.cash = v.cash /\ v'.units = v.units /\ v'.pos = v.pos /\ v'.open = v.open /\ v'.closed = v.closed
  BY <1>2, <1>9 DEF Vaults
<1>15. held'.usdc = held.usdc - amount /\ held'.pass = held.pass - back /\ held'.stock = held.stock
  BY <1>2, <1>9 DEF Holdings
<1>16. Booked(v')
  <2>1. Positions(v') = Positions(v)
    BY <1>14 DEF Positions
  <2>2. ~v'.closed
    BY <1>14 DEF Withdraw
  <2> QED BY <1>2, <1>8, <1>14, <2>1, <2>2 DEF Booked
<1>17. CustodyCovers(v', held')
  BY <1>1, <1>2, <1>5, <1>6, <1>8, <1>10, <1>14, <1>15 DEF CustodyCovers
<1> QED BY <1>12, <1>13, <1>16, <1>17 DEF TradingInv, Withdraw, Bump, OrderTyped


LEMMA CloseKeeps ==
    ASSUME TradingInv, Close
    PROVE  TradingInv'
<1>1. /\ v \in Vaults /\ held \in Holdings /\ Booked(v) /\ CustodyCovers(v, held) /\ grant \in Permissions
      /\ v.idle \in Nat /\ v.cash \in Nat /\ v.locked \in Nat
      /\ held.usdc \in Nat /\ held.pass \in Nat /\ held.owner \in Nat
  BY DEF TradingInv, Vaults, Holdings
<1>2. held.usdc >= v.idle + v.cash /\ held.pass >= v.locked
  BY <1>1 DEF CustodyCovers
<1>3. /\ held.usdc - v.idle - v.cash \in Nat /\ held.owner + v.idle + v.cash \in Nat /\ held.pass - v.locked \in Nat
      /\ held' = [held EXCEPT !.usdc = held.usdc - v.idle - v.cash, !.owner = held.owner + v.idle + v.cash,
                              !.pass = held.pass - v.locked]
  BY <1>1, <1>2 DEF Close
<1>4. held' \in Holdings /\ held'.stock = held.stock /\ held'.usdc \in Nat /\ held'.pass \in Nat
  BY <1>1, <1>3 DEF Holdings
<1>5. PICK w : w = [v EXCEPT !.idle = 0, !.cash = 0, !.units = 0]
  OBVIOUS
<1>6. /\ w \in Vaults /\ w.idle = 0 /\ w.cash = 0 /\ w.units = 0 /\ w.pos = v.pos /\ w.open = v.open
  BY <1>1, <1>5 DEF Vaults
<1>7. v' = [w EXCEPT !.principal = 0, !.locked = 0, !.closed = TRUE]
  BY <1>5, Zenon DEF Close
<1>8. /\ v' \in Vaults /\ v'.principal = 0 /\ v'.locked = 0 /\ v'.closed
      /\ v'.idle = 0 /\ v'.cash = 0 /\ v'.units = 0 /\ v'.pos = v.pos /\ v'.open = v.open
  BY <1>6, <1>7 DEF Vaults
<1>9. v.open = 0 /\ \A s \in Stocks : v.pos[s] = 0
  BY <1>1, NoneOpen DEF Close
<1>10. Booked(v')
  <2>1. Positions(v') = Positions(v)
    BY <1>8 DEF Positions
  <2>2. 0 * UnitScale = 0
    BY TradingConstants
  <2> QED BY <1>1, <1>8, <1>9, <2>1, <2>2 DEF Booked
<1>11. CustodyCovers(v', held')
  BY <1>1, <1>4, <1>8 DEF CustodyCovers
<1>12. grant' \in Permissions
  BY <1>1 DEF Close, Permissions
<1> QED BY <1>4, <1>8, <1>10, <1>11, <1>12 DEF TradingInv, Close, Bump, OrderTyped

\* Tokens that arrive unasked, or leave a closed Vault, were never in its books.
LEMMA UntrackedKeeps ==
    ASSUME TradingInv, Donate \/ RescueUntrackedToken
    PROVE  TradingInv'
<1>1. v \in Vaults /\ held \in Holdings /\ Booked(v) /\ CustodyCovers(v, held)
  BY DEF TradingInv
<1>2. /\ v.idle \in Nat /\ v.cash \in Nat /\ v.locked \in Nat /\ v.pos \in [Stocks -> Nat]
      /\ held.usdc \in Nat /\ held.pass \in Nat /\ held.owner \in Nat /\ held.stock \in [Stocks -> Nat]
  BY <1>1 DEF Vaults, Holdings
<1>3. CASE Donate
  <2>1. PICK more \in [Stocks -> Nat] : more = [s \in Stocks |-> held.stock[s] + 1]
    <3>1. \A s \in Stocks : held.stock[s] + 1 \in Nat
      BY <1>2
    <3> QED BY <3>1
  <2>2. held' = [held EXCEPT !.usdc = held.usdc + 1, !.stock = more, !.given = 1] /\ held.usdc + 1 \in Nat
    BY <1>2, <1>3, <2>1 DEF Donate
  <2>3. held' \in Holdings /\ held'.usdc = held.usdc + 1 /\ held'.stock = more /\ held'.pass = held.pass
    <3>1. PICK u \in Nat : u = held.usdc + 1
      BY <2>2
    <3>2. held' = [held EXCEPT !.usdc = u, !.stock = more, !.given = 1]
      BY <2>2, <3>1
    <3> QED BY <1>1, <3>1, <3>2 DEF Holdings
  <2>4. CustodyCovers(v, held')
    BY <1>1, <1>2, <2>1, <2>3 DEF CustodyCovers
  <2> QED BY <1>3, <2>3, <2>4 DEF TradingInv, Donate, OrderTyped
<1>4. CASE RescueUntrackedToken
  <2>1. PICK none \in [Stocks -> Nat] : none = [s \in Stocks |-> 0]
    OBVIOUS
  <2>2. PICK all \in Nat : all = held.owner + held.usdc
    BY <1>2
  <2>3. held' = [held EXCEPT !.owner = all, !.usdc = 0, !.stock = none, !.pass = 0]
    BY <1>4, <2>1, <2>2 DEF RescueUntrackedToken
  <2>4. held' \in Holdings /\ held'.usdc = 0 /\ held'.stock = none /\ held'.pass = 0
    BY <1>1, <2>2, <2>3 DEF Holdings
  <2>5. v.closed /\ v.idle = 0 /\ v.cash = 0 /\ v.open = 0 /\ v.principal = 0 /\ v.locked = v.principal * UnitScale
    BY <1>1, <1>4 DEF RescueUntrackedToken, Booked
  <2>6. v.locked = 0
    BY <2>5, TradingConstants
  <2>7. \A s \in Stocks : v.pos[s] = 0
    BY <1>1, <2>5, NoneOpen
  <2>8. CustodyCovers(v, held')
    BY <2>1, <2>4, <2>5, <2>6, <2>7 DEF CustodyCovers
  <2> QED BY <1>4, <2>4, <2>8 DEF TradingInv, RescueUntrackedToken, OrderTyped
<1> QED BY <1>3, <1>4

----------------------------------------------------------------------------
(* The trading Vault: authority *)

\* A liquidation that begins changes nothing in the books.
SameBooks(w) ==
    /\ w \in Vaults
    /\ w.principal = v.principal /\ w.idle = v.idle /\ w.cash = v.cash /\ w.units = v.units
    /\ w.locked = v.locked /\ w.pos = v.pos /\ w.open = v.open /\ w.closed = v.closed

LEMMA SameBooksKeep ==
    ASSUME TradingInv, NEW w, SameBooks(w)
    PROVE  w \in Vaults /\ Booked(w) /\ CustodyCovers(w, held)
<1>1. Positions(w) = Positions(v)
  BY DEF SameBooks, Positions
<1> QED BY <1>1 DEF TradingInv, SameBooks, Booked, CustodyCovers

LEMMA LiquidationBegins ==
    ASSUME TradingInv
    PROVE  SameBooks(BeginLiquidation(v, grant)) /\ BeginLiquidation(v, grant).liquidating
<1>1. v \in Vaults /\ grant.expires \in Nat /\ grant.window \in Nat /\ clock \in Nat
  BY DEF TradingInv, Permissions
<1>2. PICK until \in Nat : until = Min({clock, grant.expires}) + grant.window
  <2>1. PICK a \in Nat, b \in Nat : a = clock /\ b = grant.expires
    BY <1>1
  <2>2. Min({a, b}) \in {a, b}
    BY TwoMin
  <2> QED BY <1>1, <2>1, <2>2
<1>3. CASE v.liquidating
  BY <1>1, <1>3 DEF BeginLiquidation, SameBooks
<1>4. CASE ~v.liquidating
  <2>1. PICK w : w = [v EXCEPT !.liquidating = TRUE, !.until = until]
    OBVIOUS
  <2>2. BeginLiquidation(v, grant) = w
    BY <1>2, <1>4, <2>1 DEF BeginLiquidation
  <2>3. w \in Vaults /\ w.liquidating
    BY <1>1, <2>1 DEF Vaults
  <2>4. /\ w.principal = v.principal /\ w.idle = v.idle /\ w.cash = v.cash /\ w.units = v.units
        /\ w.locked = v.locked /\ w.pos = v.pos /\ w.open = v.open /\ w.closed = v.closed
    BY <1>1, <2>1 DEF Vaults
  <2> QED BY <2>2, <2>3, <2>4 DEF SameBooks
<1> QED BY <1>3, <1>4

LEMMA AuthorizeKeeps ==
    ASSUME TradingInv, NEW g \in Grants, AuthorizeExecutor(g)
    PROVE  TradingInv'
<1>1. v \in Vaults /\ g \in Permissions
  BY TradingConstants DEF TradingInv
<1>2. v' = [v EXCEPT !.bought = 0, !.liquidating = FALSE, !.until = 0]
  BY DEF AuthorizeExecutor
<1>3. SameBooks(v')
  BY <1>1, <1>2 DEF SameBooks, Vaults
<1>4. v' \in Vaults /\ Booked(v') /\ CustodyCovers(v', held)
  BY <1>3, SameBooksKeep
<1> QED BY <1>1, <1>4 DEF TradingInv, AuthorizeExecutor, Bump, OrderTyped

LEMMA AuthorityKeeps ==
    ASSUME TradingInv, RevokeExecutor \/ StopVault \/ CheckRisk \/ \E b \in Bounds : SetBounds(b)
    PROVE  TradingInv'
<1>1. v' = v \/ v' = BeginLiquidation(v, grant)
  BY DEF RevokeExecutor, StopVault, CheckRisk, SetBounds
<1>2. SameBooks(v')
  <2>1. SameBooks(v)
    BY DEF SameBooks, TradingInv
  <2> QED BY <1>1, <2>1, LiquidationBegins
<1>3. v' \in Vaults /\ Booked(v') /\ CustodyCovers(v', held)
  BY <1>2, SameBooksKeep
<1>4. grant' = grant \/ grant' = [grant EXCEPT !.executor = FALSE]
  BY DEF RevokeExecutor, StopVault, CheckRisk, SetBounds
<1>5. grant' \in Permissions
  BY <1>4 DEF TradingInv, Permissions
<1>6. UNCHANGED <<held, feed, clock>>
  BY DEF RevokeExecutor, StopVault, CheckRisk, SetBounds
<1>7. order' = order \/ order' = NoOrder
  BY DEF RevokeExecutor, StopVault, CheckRisk, SetBounds, Bump
<1> QED BY <1>3, <1>5, <1>6, <1>7 DEF TradingInv, OrderTyped


----------------------------------------------------------------------------
(* The trading Vault: fills *)

LEMMA DownType ==
    ASSUME NEW a \in Nat, NEW b \in Nat, NEW c \in Nat \ {0}
    PROVE  Down(a, b, c) \in Nat /\ Down(a, b, c) * c <= a * b
<1>1. PICK x \in Nat : x = a * b
  OBVIOUS
<1>2. x \div c \in Nat /\ (x \div c) * c <= x
  OBVIOUS
<1> QED BY <1>1, <1>2 DEF Down

\* A stock that is bought is counted once, when its position opens.
LEMMA BoughtBooks ==
    ASSUME TradingInv, NEW s \in Stocks, NEW in \in Nat \ {0}, NEW out \in Nat \ {0}, in <= v.cash,
           ~v.closed, Fill(s, TRUE, in, out)
    PROVE  /\ v' \in Vaults /\ Booked(v') /\ held' \in Holdings /\ CustodyCovers(v', held')
           /\ v'.units = v.units
<1>1. v \in Vaults /\ held \in Holdings /\ Booked(v) /\ CustodyCovers(v, held)
  BY DEF TradingInv
<1>2. /\ v.cash \in Nat /\ v.bought \in Nat /\ v.open \in Nat /\ v.idle \in Nat /\ v.pos \in [Stocks -> Nat]
      /\ held.usdc \in Nat /\ held.stock \in [Stocks -> Nat]
  BY <1>1 DEF Vaults, Holdings
<1>3. PICK pos \in [Stocks -> Nat] : /\ pos = [v.pos EXCEPT ![s] = v.pos[s] + out]
                                     /\ pos[s] = v.pos[s] + out /\ \A t \in Stocks : t # s => pos[t] = v.pos[t]
  <2>1. PICK n \in Nat : n = v.pos[s] + out
    BY <1>2
  <2>2. PICK f \in [Stocks -> Nat] : f = v.pos
    BY <1>2
  <2>3. [f EXCEPT ![s] = n] \in [Stocks -> Nat]
    OBVIOUS
  <2>4. [f EXCEPT ![s] = n][s] = n /\ \A t \in Stocks : t # s => [f EXCEPT ![s] = n][t] = f[t]
    OBVIOUS
  <2> QED BY <2>1, <2>2, <2>3, <2>4, Zenon
<1>4. PICK stock \in [Stocks -> Nat] : /\ stock = [held.stock EXCEPT ![s] = held.stock[s] + out]
                                       /\ stock[s] = held.stock[s] + out
                                       /\ \A t \in Stocks : t # s => stock[t] = held.stock[t]
  <2>1. PICK n \in Nat : n = held.stock[s] + out
    BY <1>2
  <2>2. PICK f \in [Stocks -> Nat] : f = held.stock
    BY <1>2
  <2>3. [f EXCEPT ![s] = n] \in [Stocks -> Nat]
    OBVIOUS
  <2>4. [f EXCEPT ![s] = n][s] = n /\ \A t \in Stocks : t # s => [f EXCEPT ![s] = n][t] = f[t]
    OBVIOUS
  <2> QED BY <2>1, <2>2, <2>3, <2>4, Zenon
<1>5. PICK open \in Nat : open = IF v.pos[s] = 0 THEN v.open + 1 ELSE v.open
  BY <1>2
<1>6. PICK cash \in Nat, bought \in Nat, usdc \in Nat :
         cash = v.cash - in /\ bought = v.bought + in /\ usdc = held.usdc - in
  BY <1>1, <1>2 DEF CustodyCovers
<1>7. v' = [v EXCEPT !.cash = cash, !.bought = bought, !.pos = pos, !.open = open]
  <2>1. v' = [v EXCEPT !.cash = @ - in, !.bought = @ + in, !.pos[s] = @ + out,
                       !.open = IF v.pos[s] = 0 THEN @ + 1 ELSE @]
    BY DEF Fill, Filled
  <2>2. v' = [v EXCEPT !.cash = v.cash - in, !.bought = v.bought + in, !.pos = [v.pos EXCEPT ![s] = v.pos[s] + out],
                       !.open = IF v.pos[s] = 0 THEN v.open + 1 ELSE v.open]
    BY <1>1, <2>1 DEF Vaults
  <2> QED BY <1>3, <1>5, <1>6, <2>2, Zenon
<1>8. held' = [held EXCEPT !.usdc = usdc, !.stock = stock]
  BY <1>1, <1>4, <1>6 DEF Fill, Holdings
<1>9. v' \in Vaults
  BY <1>1, <1>3, <1>5, <1>6, <1>7 DEF Vaults
<1>10. /\ v'.cash = cash /\ v'.pos = pos /\ v'.open = open /\ v'.idle = v.idle /\ v'.units = v.units
       /\ v'.principal = v.principal /\ v'.locked = v.locked /\ v'.closed = v.closed
  BY <1>1, <1>7 DEF Vaults
<1>11. held' \in Holdings /\ held'.usdc = usdc /\ held'.stock = stock /\ held'.pass = held.pass
  BY <1>1, <1>4, <1>6, <1>8 DEF Holdings
<1>12. v.units # 0
  BY <1>1, <1>2 DEF Booked
<1>13. open = Cardinality(Positions(v'))
  <2>1. IsFiniteSet(Positions(v)) /\ v.open = Cardinality(Positions(v))
    BY <1>1, FS_Subset, TradingConstants DEF Booked, Positions
  <2>2. Positions(v') = Positions(v) \cup {s}
    BY <1>2, <1>3, <1>10 DEF Positions
  <2>3. s \in Positions(v) <=> v.pos[s] # 0
    BY <1>2 DEF Positions
  <2>4. IF s \in Positions(v) THEN Cardinality(Positions(v) \cup {s}) = v.open
        ELSE Cardinality(Positions(v) \cup {s}) = v.open + 1
    BY <2>1, FS_AddElement
  <2> QED BY <1>5, <2>2, <2>3, <2>4
<1>14. Booked(v')
  BY <1>1, <1>10, <1>12, <1>13 DEF Booked
<1>15. CustodyCovers(v', held')
  <2>1. usdc >= v.idle + cash
    BY <1>1, <1>2, <1>6 DEF CustodyCovers
  <2>2. \A t \in Stocks : stock[t] >= pos[t]
    BY <1>1, <1>2, <1>3, <1>4 DEF CustodyCovers
  <2> QED BY <1>1, <1>10, <1>11, <2>1, <2>2 DEF CustodyCovers
<1> QED BY <1>9, <1>10, <1>11, <1>14, <1>15

\* A stock that is sold is no longer counted once its position is gone.
LEMMA SoldBooks ==
    ASSUME TradingInv, NEW s \in Stocks, NEW in \in Nat \ {0}, NEW out \in Nat, in <= v.pos[s],
           ~v.closed, Fill(s, FALSE, in, out)
    PROVE  /\ v' \in Vaults /\ Booked(v') /\ held' \in Holdings /\ CustodyCovers(v', held')
           /\ v'.units = v.units /\ v'.liquidating = v.liquidating /\ v'.until = v.until
           /\ \A t \in Stocks : v'.pos[t] <= v.pos[t]
<1>1. v \in Vaults /\ held \in Holdings /\ Booked(v) /\ CustodyCovers(v, held)
  BY DEF TradingInv
<1>2. /\ v.cash \in Nat /\ v.open \in Nat /\ v.idle \in Nat /\ v.pos \in [Stocks -> Nat]
      /\ held.usdc \in Nat /\ held.stock \in [Stocks -> Nat]
  BY <1>1 DEF Vaults, Holdings
<1>3. PICK pos \in [Stocks -> Nat] : /\ pos = [v.pos EXCEPT ![s] = v.pos[s] - in]
                                     /\ pos[s] = v.pos[s] - in /\ \A t \in Stocks : t # s => pos[t] = v.pos[t]
  <2>1. PICK n \in Nat : n = v.pos[s] - in
    BY <1>2
  <2>2. PICK f \in [Stocks -> Nat] : f = v.pos
    BY <1>2
  <2>3. [f EXCEPT ![s] = n] \in [Stocks -> Nat]
    OBVIOUS
  <2>4. [f EXCEPT ![s] = n][s] = n /\ \A t \in Stocks : t # s => [f EXCEPT ![s] = n][t] = f[t]
    OBVIOUS
  <2> QED BY <2>1, <2>2, <2>3, <2>4, Zenon
<1>4. PICK stock \in [Stocks -> Nat] : /\ stock = [held.stock EXCEPT ![s] = held.stock[s] - in]
                                       /\ stock[s] = held.stock[s] - in
                                       /\ \A t \in Stocks : t # s => stock[t] = held.stock[t]
  <2>1. held.stock[s] >= v.pos[s]
    BY <1>1 DEF CustodyCovers
  <2>2. PICK n \in Nat : n = held.stock[s] - in
    BY <1>2, <2>1
  <2>3. PICK f \in [Stocks -> Nat] : f = held.stock
    BY <1>2
  <2>4. [f EXCEPT ![s] = n] \in [Stocks -> Nat]
    OBVIOUS
  <2>5. [f EXCEPT ![s] = n][s] = n /\ \A t \in Stocks : t # s => [f EXCEPT ![s] = n][t] = f[t]
    OBVIOUS
  <2> QED BY <2>2, <2>3, <2>4, <2>5, Zenon
<1>5. IsFiniteSet(Positions(v)) /\ v.open = Cardinality(Positions(v)) /\ s \in Positions(v)
  <2>1. IsFiniteSet(Positions(v)) /\ v.open = Cardinality(Positions(v))
    BY <1>1, FS_Subset, TradingConstants DEF Booked, Positions
  <2> QED BY <1>2, <2>1 DEF Positions
<1>6. Positions(v) # {} => v.open # 0
  BY <1>5, FS_EmptySet
<1>7. PICK open \in Nat : open = IF v.pos[s] = in THEN v.open - 1 ELSE v.open
  BY <1>2, <1>5, <1>6
<1>8. PICK cash \in Nat, usdc \in Nat : cash = v.cash + out /\ usdc = held.usdc + out
  BY <1>2
<1>9. v' = [v EXCEPT !.cash = cash, !.pos = pos, !.open = open]
  <2>1. v' = [v EXCEPT !.cash = @ + out, !.pos[s] = @ - in, !.open = IF v.pos[s] = in THEN @ - 1 ELSE @]
    BY DEF Fill, Filled
  <2>2. v' = [v EXCEPT !.cash = v.cash + out, !.pos = [v.pos EXCEPT ![s] = v.pos[s] - in],
                       !.open = IF v.pos[s] = in THEN v.open - 1 ELSE v.open]
    BY <1>1, <2>1 DEF Vaults
  <2> QED BY <1>3, <1>7, <1>8, <2>2, Zenon
<1>10. held' = [held EXCEPT !.usdc = usdc, !.stock = stock]
  BY <1>1, <1>4, <1>8 DEF Fill, Holdings
<1>11. v' \in Vaults
  BY <1>1, <1>3, <1>7, <1>8, <1>9 DEF Vaults
<1>12. /\ v'.cash = cash /\ v'.pos = pos /\ v'.open = open /\ v'.idle = v.idle /\ v'.units = v.units
       /\ v'.principal = v.principal /\ v'.locked = v.locked /\ v'.closed = v.closed
       /\ v'.liquidating = v.liquidating /\ v'.until = v.until
  BY <1>1, <1>9 DEF Vaults
<1>13. held' \in Holdings /\ held'.usdc = usdc /\ held'.stock = stock /\ held'.pass = held.pass
  BY <1>1, <1>4, <1>8, <1>10 DEF Holdings
<1>14. v.units # 0
  BY <1>1, <1>2 DEF Booked
<1>15. open = Cardinality(Positions(v'))
  <2>1. CASE v.pos[s] = in
    <3>1. Positions(v') = Positions(v) \ {s}
      BY <1>2, <1>3, <1>12, <2>1 DEF Positions
    <3> QED BY <1>5, <1>7, <2>1, <3>1, FS_RemoveElement
  <2>2. CASE v.pos[s] # in
    <3>1. Positions(v') = Positions(v)
      BY <1>2, <1>3, <1>12, <2>2 DEF Positions
    <3> QED BY <1>5, <1>7, <2>2, <3>1
  <2> QED BY <2>1, <2>2
<1>16. Booked(v')
  BY <1>1, <1>12, <1>14, <1>15 DEF Booked
<1>17. CustodyCovers(v', held')
  <2>1. usdc >= v.idle + cash
    BY <1>1, <1>2, <1>8 DEF CustodyCovers
  <2>2. \A t \in Stocks : stock[t] >= pos[t]
    BY <1>1, <1>2, <1>3, <1>4 DEF CustodyCovers
  <2> QED BY <1>1, <1>12, <1>13, <2>1, <2>2 DEF CustodyCovers
<1>18. \A t \in Stocks : pos[t] <= v.pos[t]
  BY <1>2, <1>3
<1> QED BY <1>11, <1>12, <1>13, <1>16, <1>17, <1>18

\* What a step of execute does to the Vault, whoever calls it.
Executed ==
    /\ v' \in Vaults /\ Booked(v') /\ held' \in Holdings /\ CustodyCovers(v', held') /\ v'.units = v.units
    /\ v.liquidating => /\ v'.liquidating /\ v'.until = v.until
                        /\ \A t \in Stocks : v'.pos[t] <= v.pos[t]

LEMMA ExecuteBooks ==
    ASSUME TradingInv, NEW owner, NEW s \in Stocks, NEW buy \in BOOLEAN, NEW in \in Nat, NEW min \in Nat,
           NEW deadline, NEW out \in Nat,
           \/ Accepts(owner, s, buy, in, min, deadline, out) /\ Fill(s, buy, in, out)
           \/ CancelledByRisk(owner, s, buy, in, deadline)
    PROVE  Executed
<1>1. CASE CancelledByRisk(owner, s, buy, in, deadline)
  <2>1. v' = BeginLiquidation(v, grant) /\ held' = held /\ held \in Holdings
    BY <1>1 DEF CancelledByRisk, TradingInv
  <2>2. SameBooks(v')
    BY <2>1, LiquidationBegins
  <2>3. v.liquidating => v' = v
    BY <2>1 DEF BeginLiquidation
  <2>4. v' \in Vaults /\ Booked(v') /\ CustodyCovers(v', held')
    BY <2>1, <2>2, SameBooksKeep
  <2>5. \A t \in Stocks : v.pos[t] <= v.pos[t]
    BY DEF TradingInv, Vaults
  <2> QED BY <2>1, <2>2, <2>3, <2>4, <2>5 DEF SameBooks, Executed
<1>2. CASE Accepts(owner, s, buy, in, min, deadline, out) /\ Fill(s, buy, in, out)
  <2>1. ~v.closed /\ in # 0 /\ out >= min /\ ValidOrder(s, buy, in, min) /\ Authorized(owner, buy, deadline)
    BY <1>2 DEF Accepts
  <2>2. CASE buy
    <3>1. min # 0 /\ in <= v.cash /\ ~v.liquidating
      BY <2>1, <2>2 DEF ValidOrder, Authorized
    <3>2. in \in Nat \ {0} /\ out \in Nat \ {0}
      BY <2>1, <3>1
    <3>3. Fill(s, TRUE, in, out)
      BY <1>2, <2>2
    <3> QED BY <2>1, <3>1, <3>2, <3>3, BoughtBooks DEF Executed
  <2>3. CASE ~buy
    <3>1. in <= v.pos[s]
      BY <2>1, <2>3 DEF ValidOrder
    <3>2. Fill(s, FALSE, in, out) /\ in \in Nat \ {0}
      BY <1>2, <2>1, <2>3
    <3> QED BY <2>1, <3>1, <3>2, SoldBooks DEF Executed
  <2> QED BY <2>2, <2>3
<1> QED BY <1>1, <1>2


----------------------------------------------------------------------------
(* The trading Vault: the executor's plans *)

\* The least output an order on a priced stock may ask for is a number.
LEMMA FloorType ==
    ASSUME TradingInv, NEW s \in Stocks, NEW buy \in BOOLEAN, NEW in \in Nat, Fresh(s)
    PROVE  SlippageFloor(s, buy, in) \in Nat
<1>1. PICK quote \in Nat \ {0} : quote = feed[s].quote
  BY DEF TradingInv, Fresh
<1>2. StockUnit \in Nat \ {0} /\ TradeBps \in Nat \ {0}
  BY TradingConstants
<1>3. Down(in, StockUnit, quote) \in Nat /\ Down(in, quote, StockUnit) \in Nat
  BY <1>2, DownType
<1>4. PICK reference \in Nat : reference = ReferenceOutput(s, buy, in)
  BY <1>1, <1>3 DEF ReferenceOutput, Notional
<1>5. PICK rest \in Nat : rest = TradeBps - grant.slip
  BY <1>2 DEF TradingInv, Permissions
<1>6. Down(reference, rest, TradeBps) \in Nat
  BY <1>2, DownType
<1> QED BY <1>4, <1>5, <1>6 DEF SlippageFloor

LEMMA FourMin ==
    ASSUME NEW a \in Int, NEW b \in Int, NEW c \in Int, NEW d \in Int
    PROVE  Min({a, b, c, d}) \in Int
<1>1. \E x \in {a, b, c, d} : \A y \in {a, b, c, d} : x <= y
  OBVIOUS
<1>2. Min({a, b, c, d}) \in {a, b, c, d}
  BY <1>1 DEF Min
<1> QED BY <1>2

\* What #tick asks for is an amount.
LEMMA AmountType ==
    ASSUME TradingInv, NEW s \in Stocks, NEW buy \in BOOLEAN, Fresh(s)
    PROVE  TickAmount(s, buy) \in Nat
<1>1. PICK quote \in Nat \ {0} : quote = feed[s].quote
  BY DEF TradingInv, Fresh
<1>2. PICK pos \in Nat, most \in Nat, total \in Nat, bought \in Nat :
         pos = v.pos[s] /\ most = grant.maxOrder /\ total = grant.maxTotal /\ bought = v.bought
  BY DEF TradingInv, Permissions, Vaults
<1>3. CASE ~buy
  <2>1. PICK afforded \in Nat : afforded = Down(grant.maxOrder, StockUnit, feed[s].quote)
    BY <1>1, <1>2, DownType, TradingConstants
  <2>2. pos \in Int /\ afforded \in Int
    OBVIOUS
  <2>3. Min({pos, afforded}) \in {pos, afforded}
    BY <2>2, TwoMin
  <2> QED BY <1>2, <1>3, <2>1, <2>3 DEF TickAmount
<1>4. CASE buy
  <2>1. PICK equity \in Nat, cash \in Nat : equity = RuntimeEquity /\ cash = v.cash
    BY EquityType
  <2>2. PICK worth \in Nat : worth = PositionValue(s)
    BY ValuesType
  <2>3. PICK room \in Int : room = RuntimeEquity \div Share - PositionValue(s)
    BY <2>1, <2>2, TradingConstants
  <2>4. PICK left \in Int : left = total - bought
    OBVIOUS
  <2>5. PICK in \in Int : in = Min({room, cash, most, left})
    BY FourMin
  <2>6. TickAmount(s, buy) = IF ~Valued \/ in < MinOrder \/ in <= 0 THEN 0 ELSE in
    BY <1>2, <1>4, <2>1, <2>3, <2>4, <2>5, Zenon DEF TickAmount
  <2> QED BY <2>6
<1> QED BY <1>3, <1>4

LEMMA PlanKeeps ==
    ASSUME TradingInv, NEW s \in Stocks, NEW buy \in BOOLEAN, NEW quoted \in Outputs, PlanOrder(s, buy, quoted)
    PROVE  TradingInv'
<1>1. Fresh(s)
  BY DEF PlanOrder
<1>2. PICK in \in Nat : in = TickAmount(s, buy)
  BY <1>1, AmountType
<1>3. PICK min \in Nat : min = SlippageFloor(s, buy, in)
  BY <1>1, FloorType
<1>4. order' = [stock |-> s, buy |-> buy, in |-> in, min |-> min, deadline |-> TickDeadline]
  BY <1>2, <1>3, Zenon DEF PlanOrder
<1>5. order'.stock = s /\ order'.in = in /\ order'.min = min /\ order'.buy = buy
  BY <1>4
<1>6. OrderTyped'
  BY <1>5 DEF OrderTyped
<1> QED BY <1>6 DEF TradingInv, PlanOrder

\* The books after a call of execute.
LEMMA OwnerExecuted ==
    ASSUME TradingInv, NEW s \in Stocks, NEW buy \in BOOLEAN, NEW in \in OrderAmounts, NEW out \in Outputs,
           OwnerExecutes(s, buy, in, out)
    PROVE  Executed /\ TradingInv'
<1>1. in \in Nat /\ out \in Nat
  BY TradingConstants
<1>2. Fresh(s)
  BY DEF OwnerExecutes, Accepts, CancelledByRisk
<1>3. PICK floor \in Nat : floor = SlippageFloor(s, buy, in)
  BY <1>1, <1>2, FloorType
<1>4. PICK min \in Nat : min = Max({1, SlippageFloor(s, buy, in)})
  <2>1. Max({1, floor}) \in {1, floor}
    BY TwoMax
  <2> QED BY <1>3, <2>1
<1>5. \/ Accepts(TRUE, s, buy, in, min, clock, out) /\ Fill(s, buy, in, out)
      \/ CancelledByRisk(TRUE, s, buy, in, clock)
  BY <1>4, Zenon DEF OwnerExecutes
<1>6. Executed
  BY <1>1, <1>5, ExecuteBooks
<1> QED BY <1>6 DEF Executed, TradingInv, OwnerExecutes, Bump, OrderTyped

LEMMA ExecutorExecuted ==
    ASSUME TradingInv, NEW out \in Outputs, ExecutorExecutes(out)
    PROVE  Executed /\ TradingInv'
<1>1. out \in Nat
  BY TradingConstants
<1>2. PICK s \in Stocks, in \in Nat, min \in Nat, buy \in BOOLEAN :
         s = order.stock /\ in = order.in /\ min = order.min /\ buy = order.buy
  BY DEF TradingInv, OrderTyped, ExecutorExecutes
<1>3. \/ Accepts(FALSE, s, buy, in, min, order.deadline, out) /\ Fill(s, buy, in, out)
      \/ CancelledByRisk(FALSE, s, buy, in, order.deadline)
  BY <1>2, Zenon DEF ExecutorExecutes
<1>4. PICK d : d = order.deadline
  OBVIOUS
<1>5. \/ Accepts(FALSE, s, buy, in, min, d, out) /\ Fill(s, buy, in, out)
      \/ CancelledByRisk(FALSE, s, buy, in, d)
  BY <1>3, <1>4, Zenon
<1>6. Executed
  BY <1>1, <1>5, ExecuteBooks
<1> QED BY <1>6 DEF Executed, TradingInv, ExecutorExecutes, OrderTyped

LEMMA EnvironmentKeeps ==
    ASSUME TradingInv, EnvironmentNext
    PROVE  TradingInv'
<1>1. CASE AdvanceClock
  BY <1>1 DEF AdvanceClock, TradingInv, OrderTyped
<1>2. ASSUME NEW s \in Stocks, NEW p \in PriceChoices[s], UpdateFeed(s, p)
      PROVE  TradingInv'
  <2>1. p \in Nat
    BY TradingAssumption
  <2>2. feed' \in [Stocks -> [quote : Nat, at : Nat]]
    BY <1>2, <2>1 DEF UpdateFeed, TradingInv
  <2> QED BY <1>2, <2>2 DEF UpdateFeed, TradingInv, OrderTyped
<1> QED BY <1>1, <1>2 DEF EnvironmentNext

LEMMA TradingKeeps == TradingInv /\ [TradingNext]_tradingVars => TradingInv'
<1> SUFFICES ASSUME TradingInv, [TradingNext]_tradingVars PROVE TradingInv'
  OBVIOUS
<1>1. CASE UNCHANGED tradingVars
  BY <1>1 DEF tradingVars, TradingInv, OrderTyped
<1>2. CASE CapitalNext
  BY <1>2, DepositKeeps, AllocateKeeps, DeallocateKeeps, WithdrawKeeps, CloseKeeps, UntrackedKeeps DEF CapitalNext
<1>3. CASE AuthorityNext
  BY <1>3, AuthorizeKeeps, AuthorityKeeps DEF AuthorityNext
<1>4. CASE TradeNext
  <2>1. ASSUME DropOrder PROVE TradingInv'
    BY <2>1 DEF DropOrder, TradingInv, OrderTyped
  <2> QED BY <1>4, <2>1, OwnerExecuted, ExecutorExecuted, PlanKeeps DEF TradeNext
<1>5. CASE EnvironmentNext
  BY <1>5, EnvironmentKeeps
<1> QED BY <1>1, <1>2, <1>3, <1>4, <1>5 DEF TradingNext


----------------------------------------------------------------------------
(* The trading Vault: its properties *)

\* A snapshot passes the reader's checks, and units stand behind every asset.
LEMMA SnapshotsHold ==
    ASSUME TradingInv
    PROVE  SnapshotSound
<1>1. v \in Vaults /\ held \in Holdings /\ Booked(v) /\ CustodyCovers(v, held)
  BY DEF TradingInv
<1>2. v.cash >= 0 /\ v.idle >= 0 /\ v.units >= 0 /\ v.principal >= 0
  BY <1>1 DEF Vaults
<1>3. ReaderChecks
  BY <1>1 DEF ReaderChecks, BackingMatches, StockBacked, AccountingMatches, Booked, CustodyCovers, Positions
<1>4. UnitsBacked
  BY <1>1 DEF UnitsBacked, Booked
<1> QED BY <1>2, <1>3, <1>4 DEF SnapshotSound, ReaderNeverRefuses

\* Where every position is priced, the service and the contract see the same risk.
LEMMA RiskAgrees ==
    ASSUME TradingInv, Valued
    PROVE  RiskNeedsLiquidation <=> v.liquidating \/ MustLiquidate
<1>1. v.units \in Nat /\ v.pos \in [Stocks -> Nat] /\ (v.units = 0 => \A s \in Stocks : v.pos[s] = 0)
  BY DEF TradingInv, Vaults, Booked
<1>2. v.units > 0 <=> v.units # 0
  BY <1>1
<1>3. \A s \in Stocks : (v.pos[s] > 0 <=> v.pos[s] # 0) /\ (v.pos[s] # 0 => Fresh(s) /\ v.units # 0)
  BY <1>1 DEF Valued
<1>4. RiskReached <=> \/ v.units > 0 /\ Outside(UnitNav, bounds.lower, bounds.upper)
                      \/ \E s \in Stocks : /\ v.pos[s] > 0 /\ Fresh(s)
                                           /\ Outside(feed[s].quote, bounds.low[s], bounds.high[s])
  BY <1>2, <1>3, Zenon DEF RiskReached, RiskReachedUnder
<1> QED BY <1>4, Zenon DEF RiskNeedsLiquidation, MustLiquidate

\* An order the planner calls READY is one the contract accepts.
LEMMA ReadyAccepted ==
    ASSUME TradingInv, NEW s \in Stocks, NEW buy \in BOOLEAN, NEW in \in OrderAmounts, NEW quoted \in Outputs,
           NEW deadline, PlanReady(s, buy, in, deadline, quoted)
    PROVE  Accepts(FALSE, s, buy, in, SlippageFloor(s, buy, in), deadline, quoted)
<1>1. Fresh(s) /\ ~v.closed /\ grant.executor /\ deadline >= clock /\ in # 0
  BY DEF PlanReady
<1>2. in \in Nat /\ v.bought \in Nat
  BY TradingConstants DEF TradingInv, Vaults
<1>3. PICK min \in Nat : min = SlippageFloor(s, buy, in)
  BY <1>1, <1>2, FloorType
<1>4. ASSUME buy PROVE Valued /\ ~v.liquidating /\ ~ExpiredGrant /\ ~RiskReached
  <2>1. Valued /\ ~RiskNeedsLiquidation
    BY <1>4 DEF PlanReady
  <2> QED BY <2>1, RiskAgrees DEF MustLiquidate
<1>5. Authorized(FALSE, buy, deadline)
  <2>1. clock <= LastMoment /\ deadline <= LastMoment
    BY DEF PlanReady
  <2> QED BY <1>1, <1>4, <2>1, Zenon DEF Authorized, LastMoment, ExpiredGrant
<1>6. in + v.bought = v.bought + in /\ min >= min
  BY <1>2
<1>7. ValidOrder(s, buy, in, min)
  BY <1>3, <1>6, Zenon DEF PlanReady, ValidOrder
<1>8. quoted >= min /\ (buy => WithinShare(s, in, quoted))
  BY <1>3, Zenon DEF PlanReady, PostFill
<1> QED BY <1>1, <1>3, <1>4, <1>5, <1>7, <1>8, Zenon DEF Accepts

LEMMA PlansHold ==
    ASSUME TradingInv
    PROVE  PlansRun
<1>1. PlanAccepted
  BY ReadyAccepted DEF PlanAccepted
<1>2. RiskPlanRuns
  BY RiskAgrees DEF RiskPlanRuns
<1> QED BY <1>1, <1>2 DEF PlansRun

\* The value of the positions is that of the same positions at the same prices.
LEMMA SameWorth ==
    ASSUME TradingInv, v'.pos = v.pos, feed' = feed
    PROVE  \E w \in Nat : RuntimeEquity = v.cash + w /\ RuntimeEquity' = v'.cash + w
<1>1. PICK worth \in [Stocks -> Nat] : worth = [s \in Stocks |-> PositionValue(s)]
  BY ValuesType
<1>2. PICK w \in Nat : w = SumFunction(worth)
  BY SumOfNaturals, TradingConstants
<1>3. RuntimeEquity = v.cash + w
  BY <1>1, <1>2 DEF RuntimeEquity
<1>4. [s \in Stocks |-> PositionValue(s)]' = worth
  BY <1>1 DEF PositionValue
<1>5. RuntimeEquity' = v'.cash + SumFunction([s \in Stocks |-> PositionValue(s)]')
  BY DEF RuntimeEquity
<1> QED BY <1>2, <1>3, <1>4, <1>5

\* Units issued for an amount, rounded down, are worth no more than it.
LEMMA IssuedWorth ==
    ASSUME NEW e \in Nat \ {0}, NEW u \in Nat, NEW a \in Nat
    PROVE  (e + a) * u >= e * (u + Down(a, u, e))
<1>1. PICK k \in Nat : k = Down(a, u, e) /\ k * e <= a * u
  BY DownType
<1>2. (e + a) * u = e * u + a * u /\ e * (u + k) = e * u + k * e
  OBVIOUS
<1>3. e * u \in Nat /\ a * u \in Nat /\ k * e \in Nat
  OBVIOUS
<1> QED BY <1>1, <1>2, <1>3

\* Units burnt for an amount, rounded up, are worth at least it.
LEMMA BurntWorth ==
    ASSUME NEW e \in Nat \ {0}, NEW u \in Nat, NEW a \in Nat
    PROVE  (e - a) * u >= e * (u - Up(a, u, e))
<1>1. PICK x \in Nat : x = a * u
  OBVIOUS
<1>2. PICK k \in Nat : k = (x + e - 1) \div e
  OBVIOUS
<1>3. k * e >= x
  BY <1>2
<1>4. (e - a) * u = e * u - x /\ e * (u - k) = e * u - k * e
  BY <1>1
<1>5. e * u \in Nat /\ k * e \in Nat
  OBVIOUS
<1> QED BY <1>1, <1>2, <1>3, <1>4, <1>5 DEF Up

LEMMA AllocateKeepsWorth ==
    ASSUME TradingInv, NEW a \in OwnerAmounts, Allocate(a), v.units # 0
    PROVE  RuntimeEquity' * v.units >= RuntimeEquity * v'.units
<1>1. PICK e \in Nat, u \in Nat, c \in Nat : e = RuntimeEquity /\ u = v.units /\ c = v.cash
  BY EquityType DEF TradingInv, Vaults
<1>2. a \in Nat /\ e # 0 /\ v \in Vaults
  BY <1>1, TradingConstants DEF Allocate, TradingInv
<1>3. v' = [v EXCEPT !.idle = v.idle - a, !.cash = v.cash + a, !.units = v.units + AllocatedUnits(a)] /\ feed' = feed
  BY DEF Allocate
<1>4. v'.pos = v.pos /\ v'.cash = c + a /\ v'.units = u + Down(a, u, e)
  BY <1>1, <1>2, <1>3 DEF Vaults, AllocatedUnits
<1>5. PICK w \in Nat : RuntimeEquity = v.cash + w /\ RuntimeEquity' = v'.cash + w
  BY <1>3, <1>4, SameWorth
<1>6. RuntimeEquity' = e + a
  BY <1>1, <1>2, <1>4, <1>5
<1>7. (e + a) * u >= e * (u + Down(a, u, e))
  BY <1>2, IssuedWorth
<1> QED BY <1>1, <1>4, <1>6, <1>7, Zenon

LEMMA DeallocateKeepsWorth ==
    ASSUME TradingInv, NEW a \in OwnerAmounts, Deallocate(a)
    PROVE  RuntimeEquity' * v.units >= RuntimeEquity * v'.units
<1>1. PICK e \in Nat, u \in Nat, c \in Nat : e = RuntimeEquity /\ u = v.units /\ c = v.cash /\ e >= c
  BY EquityType DEF TradingInv, Vaults
<1>2. a \in Nat /\ e # 0 /\ v \in Vaults
  BY <1>1, TradingConstants DEF Deallocate, TradingInv
<1>3. v' = [v EXCEPT !.cash = v.cash - a, !.idle = v.idle + a, !.units = v.units - Up(a, v.units, RuntimeEquity)]
      /\ feed' = feed
  BY DEF Deallocate
<1>4. v'.pos = v.pos /\ v'.cash = c - a /\ v'.units = u - Up(a, u, e)
  BY <1>1, <1>2, <1>3 DEF Vaults
<1>5. PICK w \in Nat : RuntimeEquity = v.cash + w /\ RuntimeEquity' = v'.cash + w
  BY <1>3, <1>4, SameWorth
<1>6. RuntimeEquity' = e - a
  BY <1>1, <1>2, <1>4, <1>5
<1>7. (e - a) * u >= e * (u - Up(a, u, e))
  BY <1>2, BurntWorth
<1> QED BY <1>1, <1>4, <1>6, <1>7, Zenon

\* Everything but a move of capital leaves the units alone.
UnitsStay == v'.units = v.units

LiquidationStands ==
    v.liquidating => \/ v'.liquidating /\ v'.until = v.until /\ \A s \in Stocks : v'.pos[s] <= v.pos[s]
                     \/ v.open = 0

LEMMA CapitalSteps ==
    ASSUME TradingInv, CapitalNext
    PROVE  /\ v'.units # v.units /\ v.units # 0 /\ v'.units # 0 => RuntimeEquity' * v.units >= RuntimeEquity * v'.units
           /\ LiquidationStands
<1>1. v \in Vaults /\ v.pos \in [Stocks -> Nat]
  BY DEF TradingInv, Vaults
<1>2. \A s \in Stocks : v.pos[s] <= v.pos[s]
  BY <1>1
<1>3. ASSUME NEW a \in OwnerAmounts, Deposit(a) \/ Withdraw(a)
      PROVE  UnitsStay /\ LiquidationStands
  <2>1. v'.units = v.units /\ v'.liquidating = v.liquidating /\ v'.until = v.until /\ v'.pos = v.pos
    BY <1>1, <1>3 DEF Deposit, Withdraw, Vaults
  <2> QED BY <1>2, <2>1 DEF UnitsStay, LiquidationStands
<1>4. ASSUME NEW a \in OwnerAmounts, Allocate(a)
      PROVE  LiquidationStands
  BY <1>4 DEF Allocate, LiquidationStands
<1>5. ASSUME NEW a \in OwnerAmounts, Deallocate(a)
      PROVE  LiquidationStands
  <2>1. v'.liquidating = v.liquidating /\ v'.until = v.until /\ v'.pos = v.pos
    BY <1>1, <1>5 DEF Deallocate, Vaults
  <2> QED BY <1>2, <2>1 DEF LiquidationStands
<1>6. ASSUME Close PROVE v'.units = 0 /\ LiquidationStands
  <2>1. v'.units = 0 /\ v.open = 0
    BY <1>1, <1>6 DEF Close, Vaults
  <2> QED BY <2>1 DEF LiquidationStands
<1>7. ASSUME Donate \/ RescueUntrackedToken PROVE UnitsStay /\ LiquidationStands
  <2>1. v' = v
    BY <1>7 DEF Donate, RescueUntrackedToken
  <2> QED BY <1>2, <2>1 DEF UnitsStay, LiquidationStands
<1> QED BY <1>3, <1>4, <1>5, <1>6, <1>7, AllocateKeepsWorth, DeallocateKeepsWorth DEF CapitalNext, UnitsStay

LEMMA OtherSteps ==
    ASSUME TradingInv, AuthorityNext \/ TradeNext \/ EnvironmentNext \/ UNCHANGED tradingVars
    PROVE  UnitsStay /\ LiquidationStands
<1>1. v \in Vaults /\ v.pos \in [Stocks -> Nat]
  BY DEF TradingInv, Vaults
<1>2. \A s \in Stocks : v.pos[s] <= v.pos[s]
  BY <1>1
<1>3. ASSUME v' = v \/ v' = BeginLiquidation(v, grant) PROVE UnitsStay /\ LiquidationStands
  <2>1. v'.units = v.units
    BY <1>3, LiquidationBegins DEF SameBooks
  <2>2. v.liquidating => v' = v
    BY <1>3 DEF BeginLiquidation
  <2> QED BY <1>2, <2>1, <2>2 DEF UnitsStay, LiquidationStands
<1>4. ASSUME NEW g \in Grants, AuthorizeExecutor(g) PROVE UnitsStay /\ LiquidationStands
  <2>1. v'.units = v.units
    BY <1>1, <1>4 DEF AuthorizeExecutor, Vaults
  <2>2. v.liquidating => v.open = 0
    BY <1>4 DEF AuthorizeExecutor
  <2> QED BY <2>1, <2>2 DEF UnitsStay, LiquidationStands
<1>5. CASE AuthorityNext
  <2>1. ASSUME RevokeExecutor \/ StopVault \/ CheckRisk \/ \E b \in Bounds : SetBounds(b)
        PROVE  v' = v \/ v' = BeginLiquidation(v, grant)
    BY <2>1 DEF RevokeExecutor, StopVault, CheckRisk, SetBounds
  <2> QED BY <1>3, <1>4, <1>5, <2>1 DEF AuthorityNext
<1>6. Executed => UnitsStay /\ LiquidationStands
  BY DEF Executed, UnitsStay, LiquidationStands
<1>7. CASE TradeNext
  <2>1. ASSUME DropOrder \/ \E s \in Stocks, buy \in BOOLEAN, quoted \in Outputs : PlanOrder(s, buy, quoted)
        PROVE  v' = v
    BY <2>1 DEF DropOrder, PlanOrder
  <2> QED BY <1>3, <1>6, <1>7, <2>1, OwnerExecuted, ExecutorExecuted DEF TradeNext
<1>8. CASE EnvironmentNext \/ UNCHANGED tradingVars
  <2>1. v' = v
    BY <1>8 DEF EnvironmentNext, AdvanceClock, UpdateFeed, tradingVars
  <2> QED BY <1>3, <2>1
<1> QED BY <1>5, <1>7, <1>8

\* The Vault's storage, its custody and the executor's order stay coherent (AlphaForgeTradingVault.sol).
THEOREM TradingInvariant == TradingSpec => []TradingInv
<1> QED BY TradingStarts, TradingKeeps, PTL DEF TradingSpec

\* Every snapshot passes readTradingSnapshot's checks, no asset is left without units, and what
\* planExecutorTrade calls READY or due for a risk check, the contract carries out.
THEOREM SnapshotsAndPlansSound == TradingSpec => []TradingSound
<1>1. TradingInv => TradingSound
  BY SnapshotsHold, PlansHold DEF TradingSound
<1> QED BY <1>1, TradingInvariant, PTL

\* No move of capital dilutes the units that stay, and a liquidation keeps its deadline and only
\* sells until nothing is open (allocate, deallocate, _beginLiquidation, authorizeExecutor).
THEOREM CapitalStaysProtected == TradingSpec => CapitalProtected
<1>1. TradingInv /\ [TradingNext]_tradingVars =>
         /\ v'.units # v.units /\ v.units # 0 /\ v'.units # 0 => RuntimeEquity' * v.units >= RuntimeEquity * v'.units
         /\ LiquidationStands
  BY CapitalSteps, OtherSteps DEF TradingNext, UnitsStay
<1>2. TradingInv /\ [TradingNext]_tradingVars =>
         [ LET moved == v'.units # v.units /\ v.units # 0 /\ v'.units # 0
           IN moved => RuntimeEquity' * v.units >= RuntimeEquity * v'.units ]_tradingVars
  BY <1>1
<1>3. TradingInv /\ [TradingNext]_tradingVars =>
         [ v.liquidating =>
             \/ v'.liquidating /\ v'.until = v.until /\ \A s \in Stocks : v'.pos[s] <= v.pos[s]
             \/ v.open = 0 ]_tradingVars
  BY <1>1 DEF LiquidationStands
<1> QED BY <1>2, <1>3, TradingInvariant, PTL DEF TradingSpec, CapitalProtected, NavNotDiluted, LiquidationIsFinal
=============================================================================
