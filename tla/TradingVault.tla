---------------------------- MODULE TradingVault ----------------------------
(***************************************************************************)
(* The Trading Vault of the testnet product line                           *)
(* (contracts/src/AlphaForgeTradingVault.sol), its keeper-fed references,  *)
(* and the off-chain code that reads it and plans orders for it            *)
(* (trading-reader.ts, executor-plan.ts, TestnetExecutorService).          *)
(*                                                                         *)
(* A planned order waits and runs in a later state: prices, time and the   *)
(* owner's calls fall in between.  stateVersion only serves to recognise   *)
(* such an order, so the model drops the order when the version moves.     *)
(* The router is external: it takes the input and returns some output.     *)
(***************************************************************************)
EXTENDS Integers, FiniteSets, FiniteSetsExt

CONSTANTS
    Stocks,        \* the three stocks (two in the model)
    StockUnit,     \* 1e18: raw units of one share
    UnitScale,     \* 1e12: risk units per raw AF-USDC at the start, and PASS per AF-USDC
    NavUnit,       \* 1e18: scale of unitNav
    TradeBps,      \* 10000
    Share,         \* 3: a stock may be one third of the runtime equity
    PriceChoices,  \* stock -> raw AF-USDC per share its feed may report
    OwnerAmounts,  \* AF-USDC amounts the owner moves
    OrderAmounts,  \* inputs of orders
    Outputs,       \* what the router may return
    Grants,        \* grants the owner may authorise
    Bounds,        \* [lower, upper, lowerPrice, upperPrice] the owner may set
    MaxPriceAge,   \* maxPriceAge
    OrderLife,     \* deadlineSeconds of the executor's orders
    MinOrder,      \* minOrderUsdc of the executor
    OwnerUsdc,     \* AF-USDC the owner starts with
    MaxTime,       \* bound on the clock
    MaxCalls       \* bound on calls of the owner and the executor

VARIABLES
    v,       \* the storage of the Vault
    grant,   \* the current grant
    bounds,  \* the risk bounds
    held,    \* balances of the Vault: AF-USDC, the stocks, and PASS in the locker
    feed,    \* stock -> [quote, at]
    order,   \* the executor's planned order, or NoOrder
    clock,   \* block.timestamp
    calls    \* calls made so far, against MaxCalls

tradingVars == <<v, grant, bounds, held, feed, order, clock, calls>>

ASSUME TradingAssumption ==
    /\ IsFiniteSet(Stocks)
    /\ {StockUnit, UnitScale, NavUnit, TradeBps, Share} \subseteq Nat \ {0}
    /\ PriceChoices \in [Stocks -> SUBSET (Nat \ {0})] /\ OrderAmounts \subseteq Nat \ {0}
    /\ OwnerAmounts \subseteq Nat \ {0} /\ Outputs \subseteq Nat
    /\ Grants \subseteq [executor : BOOLEAN, expires : Nat, window : Nat, maxOrder : Nat, maxTotal : Nat,
                         slip : 0..(TradeBps - 1)]
    /\ {MaxPriceAge, OrderLife, MinOrder, OwnerUsdc, MaxTime, MaxCalls} \subseteq Nat

NoGrant == [executor |-> FALSE, expires |-> 0, window |-> 0, maxOrder |-> 0, maxTotal |-> 0, slip |-> 0]
NoBounds == [lower |-> 0, upper |-> 0, low |-> [s \in Stocks |-> 0], high |-> [s \in Stocks |-> 0]]
NoOrder == [stock |-> "none", buy |-> FALSE, in |-> 0, min |-> 0, deadline |-> 0]

Down(a, b, c) == (a * b) \div c
Up(a, b, c) == (a * b + c - 1) \div c

\* ++stateVersion: the planned order names a version that is gone and can never run.
Bump == order' = NoOrder

----------------------------------------------------------------------------
(* Reference prices and valuation *)

Fresh(s) == feed[s].quote # 0 /\ clock - feed[s].at <= MaxPriceAge

\* A price is only read, and only reverts the call, for a stock with a position.
Valued == \A s \in Stocks : v.pos[s] = 0 \/ Fresh(s)

PositionValue(s) == Down(v.pos[s], feed[s].quote, StockUnit)
RuntimeEquity == v.cash + SumFunction([s \in Stocks |-> PositionValue(s)])
UnitNav == IF v.units = 0 THEN 0 ELSE Down(RuntimeEquity, NavUnit, v.units)

Outside(x, lower, upper) == (lower # 0 /\ x <= lower) \/ (upper # 0 /\ x >= upper)

\* _riskReached; only evaluated where Valued holds, the call reverts otherwise.
RiskReachedUnder(b) ==
    /\ v.units # 0
    /\ \/ Outside(UnitNav, b.lower, b.upper)
       \/ \E s \in Stocks : v.pos[s] # 0 /\ Outside(feed[s].quote, b.low[s], b.high[s])

RiskReached == RiskReachedUnder(bounds)

\* AlphaForgeTestReferenceFeed.update, by the keeper.
UpdateFeed(s, quote) ==
    /\ feed[s].at < clock
    /\ feed' = [feed EXCEPT ![s] = [quote |-> quote, at |-> clock]]
    /\ UNCHANGED <<v, grant, bounds, held, order, clock>>

AdvanceClock ==
    /\ clock < MaxTime
    /\ clock' = clock + 1
    /\ UNCHANGED <<v, grant, bounds, held, feed, order>>

----------------------------------------------------------------------------
(* The owner's capital *)

Deposit(amount) ==
    /\ ~v.closed
    /\ held.owner >= amount
    /\ v' = [v EXCEPT !.principal = @ + amount, !.idle = @ + amount, !.locked = @ + amount * UnitScale]
    /\ held' = [held EXCEPT !.owner = @ - amount, !.usdc = @ + amount, !.pass = @ + amount * UnitScale]
    /\ Bump
    /\ UNCHANGED <<grant, bounds, feed, clock>>

\* Mutant: units are rounded up.
AllocatedUnitsMutant(amount) ==
    IF v.units = 0 THEN amount * UnitScale ELSE Up(amount, v.units, RuntimeEquity)

AllocatedUnits(amount) ==
    IF v.units = 0 THEN amount * UnitScale ELSE Down(amount, v.units, RuntimeEquity)

Allocate(amount) ==
    /\ ~v.closed /\ ~v.liquidating
    /\ amount <= v.idle
    /\ Valued
    /\ v.units # 0 => RuntimeEquity # 0
    /\ AllocatedUnits(amount) # 0
    /\ v' = [v EXCEPT !.idle = @ - amount, !.cash = @ + amount, !.units = @ + AllocatedUnits(amount)]
    /\ Bump
    /\ UNCHANGED <<grant, bounds, held, feed, clock>>

\* Mutant: the last units may leave while a position is open.
LeavesNothingBehindMutant(amount, units) == units = v.units => amount = v.cash

\* The last units take all the cash, and only when nothing is open.
LeavesNothingBehind(amount, units) == units = v.units => v.open = 0 /\ amount = v.cash

Deallocate(amount) ==
    /\ ~v.closed
    /\ amount <= v.cash
    /\ Valued
    /\ LET units == Up(amount, v.units, RuntimeEquity)
       IN /\ units # 0
          /\ LeavesNothingBehind(amount, units)
          /\ v' = [v EXCEPT !.cash = @ - amount, !.idle = @ + amount, !.units = @ - units]
    /\ Bump
    /\ UNCHANGED <<grant, bounds, held, feed, clock>>

RealizedProfit == Max({0, v.idle + v.cash - v.principal})

Withdraw(amount) ==
    LET exited == Max({0, amount - RealizedProfit})
    IN /\ ~v.closed
       /\ amount <= v.idle
       /\ exited # 0 => v.open = 0
       /\ v' = [v EXCEPT !.idle = @ - amount, !.principal = @ - exited, !.locked = @ - exited * UnitScale]
       /\ held' = [held EXCEPT !.usdc = @ - amount, !.owner = @ + amount, !.pass = @ - exited * UnitScale]
       /\ Bump
       /\ UNCHANGED <<grant, bounds, feed, clock>>

Close ==
    /\ ~v.closed
    /\ v.open = 0
    /\ v' = [v EXCEPT !.idle = 0, !.cash = 0, !.units = 0, !.principal = 0, !.locked = 0, !.closed = TRUE]
    /\ held' = [held EXCEPT !.usdc = @ - v.idle - v.cash, !.owner = @ + v.idle + v.cash, !.pass = @ - v.locked]
    /\ grant' = [grant EXCEPT !.executor = FALSE]
    /\ Bump
    /\ UNCHANGED <<bounds, feed, clock>>

\* Anyone may send tokens to the Vault; nothing in it notices.
Donate ==
    /\ held.given = 0
    /\ held' = [held EXCEPT !.usdc = @ + 1, !.stock = [s \in Stocks |-> held.stock[s] + 1], !.given = 1]
    /\ UNCHANGED <<v, grant, bounds, feed, order, clock>>

RescueUntrackedToken ==
    /\ v.closed
    /\ held' = [held EXCEPT !.owner = @ + held.usdc, !.usdc = 0, !.stock = [s \in Stocks |-> 0], !.pass = 0]
    /\ UNCHANGED <<v, grant, bounds, feed, order, clock>>

----------------------------------------------------------------------------
(* The grant, the bounds and liquidation *)

\* _beginLiquidation on a vault record, under grant g.
BeginLiquidation(vault, g) ==
    IF vault.liquidating THEN vault
    ELSE [vault EXCEPT !.liquidating = TRUE, !.until = Min({clock, g.expires}) + g.window]

AuthorizeExecutor(g) ==
    /\ ~v.closed
    /\ g.expires > clock
    /\ v.units # 0
    /\ ~(v.liquidating /\ v.open # 0)
    /\ grant' = g
    /\ v' = [v EXCEPT !.bought = 0, !.liquidating = FALSE, !.until = 0]
    /\ Bump
    /\ UNCHANGED <<bounds, held, feed, clock>>

RevokeExecutor ==
    /\ ~v.closed
    /\ grant' = [grant EXCEPT !.executor = FALSE]
    /\ v' = BeginLiquidation(v, grant)
    /\ Bump
    /\ UNCHANGED <<bounds, held, feed, clock>>

StopVault ==
    /\ ~v.closed
    /\ v' = BeginLiquidation(v, grant)
    /\ IF v.liquidating THEN UNCHANGED order ELSE Bump
    /\ UNCHANGED <<grant, bounds, held, feed, clock>>

SetBounds(b) ==
    /\ ~v.closed
    /\ v.units # 0 => Valued
    /\ bounds' = b
    /\ v' = IF RiskReachedUnder(b) THEN BeginLiquidation(v, grant) ELSE v
    /\ Bump
    /\ UNCHANGED <<grant, held, feed, clock>>

ExpiredGrant == grant.executor /\ clock >= grant.expires

MustLiquidate == ExpiredGrant \/ RiskReached

CheckRisk ==
    /\ ~v.closed
    /\ ~v.liquidating /\ ~ExpiredGrant /\ v.units # 0 => Valued
    /\ v' = IF MustLiquidate THEN BeginLiquidation(v, grant) ELSE v
    /\ IF v' # v THEN Bump ELSE UNCHANGED order
    /\ UNCHANGED <<grant, bounds, held, feed, clock>>

----------------------------------------------------------------------------
(* execute *)

\* _validateAuthority
Authorized(owner, buy, deadline) ==
    LET expiry == clock >= grant.expires
        last == IF v.liquidating THEN v.until
                ELSE grant.expires + IF expiry THEN grant.window ELSE 0
    IN /\ owner \/ grant.executor
       /\ buy => ~v.liquidating /\ ~expiry /\ grant.executor
       /\ owner \/ (clock <= last /\ deadline <= last)

Notional(s, buy, in) == IF buy THEN in ELSE Down(in, feed[s].quote, StockUnit)
ReferenceOutput(s, buy, in) == IF buy THEN Down(in, StockUnit, feed[s].quote) ELSE Notional(s, FALSE, in)
SlippageFloor(s, buy, in) == Down(ReferenceOutput(s, buy, in), TradeBps - grant.slip, TradeBps)

\* _validateOrder
ValidOrder(s, buy, in, min) ==
    /\ grant.maxOrder # 0 /\ Notional(s, buy, in) <= grant.maxOrder
    /\ min >= SlippageFloor(s, buy, in)
    /\ IF buy
       THEN /\ min # 0
            /\ in <= v.cash
            /\ v.bought + in <= grant.maxTotal
            /\ (PositionValue(s) + in) * Share <= RuntimeEquity
       ELSE in <= v.pos[s]

\* The Vault after a fill.
Filled(s, buy, in, out) ==
    IF buy
    THEN [v EXCEPT !.cash = @ - in, !.bought = @ + in, !.pos[s] = @ + out,
                   !.open = IF v.pos[s] = 0 THEN @ + 1 ELSE @]
    ELSE [v EXCEPT !.cash = @ + out, !.pos[s] = @ - in,
                   !.open = IF v.pos[s] = in THEN @ - 1 ELSE @]

\* After a buy, the stock is still within its share of the equity.
WithinShare(s, in, out) ==
    LET value == Down(v.pos[s] + out, feed[s].quote, StockUnit)
    IN value * Share <= RuntimeEquity - in - PositionValue(s) + value

\* Whether execute runs to a fill with this output of the router.
Accepts(owner, s, buy, in, min, deadline, out) ==
    /\ ~v.closed
    /\ in # 0 /\ deadline >= clock
    /\ Authorized(owner, buy, deadline)
    /\ Fresh(s)
    /\ buy => Valued /\ ~RiskReached
    /\ ValidOrder(s, buy, in, min)
    /\ out >= min
    /\ buy => WithinShare(s, in, out)

Fill(s, buy, in, out) ==
    /\ v' = Filled(s, buy, in, out)
    /\ held' = IF buy THEN [held EXCEPT !.usdc = @ - in, !.stock[s] = @ + out]
               ELSE [held EXCEPT !.stock[s] = @ - in, !.usdc = @ + out]

\* A buy that meets a risk bound starts the liquidation instead.
CancelledByRisk(owner, s, buy, in, deadline) ==
    /\ ~v.closed
    /\ buy /\ in # 0 /\ deadline >= clock
    /\ Authorized(owner, buy, deadline)
    /\ Fresh(s) /\ Valued /\ RiskReached
    /\ v' = BeginLiquidation(v, grant)
    /\ UNCHANGED held

OwnerExecutes(s, buy, in, out) ==
    /\ \/ Accepts(TRUE, s, buy, in, Max({1, SlippageFloor(s, buy, in)}), clock, out) /\ Fill(s, buy, in, out)
       \/ CancelledByRisk(TRUE, s, buy, in, clock)
    /\ Bump
    /\ UNCHANGED <<grant, bounds, feed, clock>>

----------------------------------------------------------------------------
(* The executor: reader, planner and the service's choice of an amount *)

\* The consistency checks of readTradingSnapshot: the Vault's own balances, each stock's
\* balance, and the count of positions with what a closed Vault may still hold.
BackingMatches ==
    /\ v.locked = v.principal * UnitScale
    /\ held.usdc >= v.idle + v.cash
    /\ held.pass >= v.locked

StockBacked(s) == held.stock[s] >= v.pos[s]

AccountingMatches ==
    /\ v.open = Cardinality({s \in Stocks : v.pos[s] > 0})
    /\ v.closed => v.principal = 0 /\ v.units = 0 /\ v.idle = 0 /\ v.cash = 0 /\ v.open = 0

ReaderChecks == BackingMatches /\ (\A s \in Stocks : StockBacked(s)) /\ AccountingMatches

RiskNeedsLiquidation ==
    \/ v.liquidating
    \/ ExpiredGrant
    \/ Valued /\ v.units > 0 /\ Outside(UnitNav, bounds.lower, bounds.upper)
    \/ \E s \in Stocks : v.pos[s] > 0 /\ Fresh(s) /\ Outside(feed[s].quote, bounds.low[s], bounds.high[s])

LastMoment == IF v.liquidating THEN v.until
              ELSE grant.expires + IF clock >= grant.expires THEN grant.window ELSE 0

PostFill(s, in, quoted) == WithinShare(s, in, quoted)

\* planExecutorTrade answers READY for this quote of the pool.
PlanReady(s, buy, in, deadline, quoted) ==
    LET min == SlippageFloor(s, buy, in)
    IN /\ ~v.closed /\ grant.executor
       /\ Fresh(s)
       /\ deadline >= clock /\ in # 0 /\ quoted # 0
       /\ clock <= LastMoment /\ deadline <= LastMoment
       /\ buy => ~RiskNeedsLiquidation
       /\ grant.maxOrder # 0 /\ Notional(s, buy, in) <= grant.maxOrder
       /\ min # 0
       /\ IF buy
          THEN /\ Valued
               /\ in <= v.cash
               /\ in + v.bought <= grant.maxTotal
               /\ (PositionValue(s) + in) * Share <= RuntimeEquity
          ELSE in <= v.pos[s]
       /\ quoted >= min
       /\ buy => PostFill(s, in, quoted)

\* What #tick asks for; 0 when it passes over the stock.
TickAmount(s, buy) ==
    IF ~buy
    THEN LET in == Min({v.pos[s], Down(grant.maxOrder, StockUnit, feed[s].quote)})
         IN IF Notional(s, FALSE, in) = 0 THEN 0 ELSE in
    ELSE LET in == Min({RuntimeEquity \div Share - PositionValue(s), v.cash,
                        grant.maxOrder, grant.maxTotal - v.bought})
         IN IF ~Valued \/ in < MinOrder \/ in <= 0 THEN 0 ELSE in

TickDeadline == Min({clock + OrderLife, LastMoment})

\* The window in which #tick still trades: strictly before its end.
TickMayTrade ==
    LET until == IF v.liquidating THEN v.until
                 ELSE grant.expires + IF RiskNeedsLiquidation THEN grant.window ELSE 0
    IN ~v.closed /\ grant.executor /\ clock < until /\ (RiskNeedsLiquidation => v.liquidating)

PlanOrder(s, buy, quoted) ==
    /\ order = NoOrder
    /\ TickMayTrade /\ (buy => ~v.liquidating) /\ Fresh(s)
    /\ LET in == TickAmount(s, buy)
       IN /\ in # 0
          /\ PlanReady(s, buy, in, TickDeadline, quoted)
          /\ order' = [stock |-> s, buy |-> buy, in |-> in, min |-> SlippageFloor(s, buy, in), deadline |-> TickDeadline]
    /\ UNCHANGED <<v, grant, bounds, held, feed, clock>>

ExecutorExecutes(out) ==
    /\ order # NoOrder
    /\ \/ /\ Accepts(FALSE, order.stock, order.buy, order.in, order.min, order.deadline, out)
          /\ Fill(order.stock, order.buy, order.in, out)
       \/ CancelledByRisk(FALSE, order.stock, order.buy, order.in, order.deadline)
    /\ order' = NoOrder
    /\ UNCHANGED <<grant, bounds, feed, clock>>

\* A refused or unsent order is dropped.
DropOrder ==
    /\ order # NoOrder
    /\ order' = NoOrder
    /\ UNCHANGED <<v, grant, bounds, held, feed, clock>>

----------------------------------------------------------------------------
TradingInit ==
    /\ v = [principal |-> 0, idle |-> 0, cash |-> 0, units |-> 0, bought |-> 0, locked |-> 0,
            pos |-> [s \in Stocks |-> 0], open |-> 0, closed |-> FALSE, liquidating |-> FALSE, until |-> 0]
    /\ grant = NoGrant
    /\ bounds = NoBounds
    /\ held = [owner |-> OwnerUsdc, usdc |-> 0, stock |-> [s \in Stocks |-> 0], pass |-> 0, given |-> 0]
    /\ feed = [s \in Stocks |-> [quote |-> 0, at |-> 0]]
    /\ order = NoOrder
    /\ clock = 1
    /\ calls = 0

CapitalNext ==
    \/ \E a \in OwnerAmounts : Deposit(a) \/ Allocate(a) \/ Deallocate(a) \/ Withdraw(a)
    \/ Close \/ Donate \/ RescueUntrackedToken

AuthorityNext ==
    \/ \E g \in Grants : AuthorizeExecutor(g)
    \/ \E b \in Bounds : SetBounds(b)
    \/ RevokeExecutor \/ StopVault \/ CheckRisk

TradeNext ==
    \/ \E s \in Stocks, buy \in BOOLEAN, a \in OrderAmounts, out \in Outputs : OwnerExecutes(s, buy, a, out)
    \/ \E s \in Stocks, buy \in BOOLEAN, quoted \in Outputs : PlanOrder(s, buy, quoted)
    \/ \E out \in Outputs : ExecutorExecutes(out)
    \/ DropOrder

EnvironmentNext ==
    \/ AdvanceClock
    \/ \E s \in Stocks : \E p \in PriceChoices[s] : UpdateFeed(s, p)

TradingNext ==
    \/ /\ calls < MaxCalls /\ calls' = calls + 1
       /\ CapitalNext \/ AuthorityNext \/ TradeNext
    \/ EnvironmentNext /\ UNCHANGED calls

TradingSpec == TradingInit /\ [][TradingNext]_tradingVars

----------------------------------------------------------------------------
(* Properties *)

\* Every snapshot the executor can take passes the reader's backing and accounting checks:
\* locked PASS, custody, tracked positions and their count stay in step whatever the owner,
\* the executor, a risk bound or a donation does.
ReaderNeverRefuses ==
    /\ ReaderChecks
    /\ v.cash >= 0 /\ v.idle >= 0 /\ v.units >= 0 /\ v.principal >= 0

\* Risk units and runtime assets vanish together: no cash or position is left without units
\* (it would belong to nobody), so the planner and _riskReached see the same positions.
UnitsBacked == v.units = 0 => v.cash = 0 /\ \A s \in Stocks : v.pos[s] = 0

\* What the planner calls READY, the contract fills at that state for the quoted output.
PlanAccepted ==
    \A s \in Stocks, buy \in BOOLEAN, in \in OrderAmounts, quoted \in Outputs :
        PlanReady(s, buy, in, TickDeadline, quoted) =>
            Accepts(FALSE, s, buy, in, SlippageFloor(s, buy, in), TickDeadline, quoted)

\* When the service reports that a risk check is due and every position has a price, the
\* contract's checkRisk starts the liquidation.
RiskPlanRuns ==
    RiskNeedsLiquidation /\ ~v.liquidating /\ Valued => MustLiquidate

\* Moving capital in or out never lowers the value of the units that stay.
NavNotDiluted ==
    [][ LET moved == v'.units # v.units /\ v.units # 0 /\ v'.units # 0
        IN moved => RuntimeEquity' * v.units >= RuntimeEquity * v'.units ]_tradingVars

\* A liquidation ends only with nothing open; until then its deadline stands and no position grows.
LiquidationIsFinal ==
    [][ v.liquidating =>
          \/ v'.liquidating /\ v'.until = v.until /\ \A s \in Stocks : v'.pos[s] <= v.pos[s]
          \/ v.open = 0 ]_tradingVars

\* What the executor reads is coherent, and no assets are left without an owner's units.
SnapshotSound == ReaderNeverRefuses /\ UnitsBacked

\* What the executor's planner decides to do, the contract lets it do.
PlansRun == PlanAccepted /\ RiskPlanRuns

\* The trading Vault's snapshots and the executor's plans (readTradingSnapshot, planExecutorTrade).
TradingSound == SnapshotSound /\ PlansRun

\* Neither a move of capital nor a liquidation under way takes value or time from the owner's units.
CapitalProtected == NavNotDiluted /\ LiquidationIsFinal
=============================================================================
