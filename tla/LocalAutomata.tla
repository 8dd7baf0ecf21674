--------------------------- MODULE LocalAutomata ---------------------------
(***************************************************************************)
(* The simulator's bots: the engine (packages/automata/src/engine.ts) that *)
(* replays a data set, and the store (apps/server/src/automata-store.ts)   *)
(* that writes every step of a run back into the vault it took its cash    *)
(* from, in one transaction.  The data sets quote every asset in every     *)
(* frame without spread or slippage, so a quote is fresh from the first    *)
(* frame on; a frame brings any price and any capacity of the given sets.  *)
(***************************************************************************)
EXTENDS LocalVault, Sequences, SequencesExt

CONSTANTS
    Basket,          \* the assets, in the order of their names
    BasketPrices,    \* bid and ask of a frame
    Capacities,      \* what a frame's quote can fill
    UnitScale, BotBps, BotFee, Deviation,
    Interval,        \* frames between two scheduled decisions
    FrameCount,      \* frames of a data set
    BotChoices,      \* [external, weights, mode, lower, upper]: parameters of a run
    RunLimit,        \* commands of a run that are not a stop
    RunBudget,       \* runs of the owner
    NoTrigger

Stocks == {Basket[i] : i \in DOMAIN Basket}

ASSUME BotAssumption ==
    /\ UnitScale \in Nat \ {0} /\ BotBps \in Nat \ {0} /\ BotFee \in 0..(BotBps - 1) /\ Deviation \in 1..BotBps
    /\ BasketPrices \subseteq Nat \ {0} /\ Capacities \subseteq Nat /\ {Interval, FrameCount, RunLimit, RunBudget} \subseteq Nat

VARIABLES
    bot,      \* RecordState of the last run
    runs      \* rows of automata_runs

localVars == <<localVaultVars, bot, runs>>

UpDiv(n, d) == (n + d - 1) \div d
Lesser(a, b) == IF a < b THEN a ELSE b
Reduced(n, d) ==
    LET gcd[a \in Nat, b \in Nat] == IF b = 0 THEN a ELSE gcd[b, a % b]
    IN [n |-> n \div gcd[n, d], d |-> d \div gcd[n, d]]

createRun(cash, choice, baseline) ==
    [status |-> "running", revision |-> 0, cursor |-> 0, next |-> 0, cash |-> cash, quantity |-> [a \in Stocks |-> 0],
     cost |-> [a \in Stocks |-> 0], price |-> [a \in Stocks |-> 0], room |-> [a \in Stocks |-> 0], net |-> cash, pnl |-> 0,
     units |-> [n |-> cash, d |-> 1], empty |-> [n |-> 1, d |-> 1], trigger |-> NoTrigger, choice |-> choice, baseline |-> baseline]

----------------------------------------------------------------------------
(* The engine *)

Holds(r, a) == (r.quantity[a] * r.price[a]) \div UnitScale
equity(r) == r.cash + Total([a \in Stocks |-> Holds(r, a)])
Flat(r) == \A a \in Stocks : r.quantity[a] = 0
Triggered(r, reason) == [r EXCEPT !.status = "liquidating", !.trigger = IF @ = NoTrigger THEN reason ELSE @]

limitsRun(r) ==
    LET gain == (equity(r) * r.units.d - r.units.n) * BotBps
        price == r.price[Basket[1]]
        low == IF r.choice.mode = "percent" THEN r.units.n # 0 /\ gain <= r.choice.lower * r.units.n ELSE price <= r.choice.lower
        high == IF r.choice.mode = "percent" THEN r.units.n # 0 /\ gain >= r.choice.upper * r.units.n ELSE price >= r.choice.upper
    IN IF r.trigger # NoTrigger \/ r.status = "stopped" \/ r.choice.mode = "off" \/ ~(low \/ high) THEN r
       ELSE Triggered(r, IF low THEN "lower" ELSE "upper")

\* A purchase that the fee makes too dear is tried again with one unit less.
Affordable(r, a, quantity) ==
    LET Charge(q) == UpDiv(q * r.price[a], UnitScale) + UpDiv(UpDiv(q * r.price[a], UnitScale) * BotFee, BotBps)
    IN IF Charge(quantity) > r.cash THEN quantity - 1 ELSE quantity

buy(r, a, requested) ==
    LET most == (r.cash * BotBps * UnitScale) \div (r.price[a] * (BotBps + BotFee))
        quantity == Affordable(r, a, Lesser(Lesser(requested, r.room[a]), most))
        gross == UpDiv(quantity * r.price[a], UnitScale)
        fee == UpDiv(gross * BotFee, BotBps)
    IN IF quantity <= 0 \/ gross <= fee \/ gross + fee > r.cash THEN r
       ELSE [r EXCEPT !.cash = @ - gross - fee, !.quantity[a] = @ + quantity, !.cost[a] = @ + gross + fee, !.room[a] = @ - quantity]

sell(r, a, requested) ==
    LET quantity == Lesser(Lesser(requested, r.room[a]), r.quantity[a])
        gross == (quantity * r.price[a]) \div UnitScale
        fee == UpDiv(gross * BotFee, BotBps)
        cost == (r.cost[a] * quantity) \div r.quantity[a]
    IN IF quantity <= 0 \/ gross <= fee THEN r
       ELSE [r EXCEPT !.cash = @ + gross - fee, !.quantity[a] = @ - quantity, !.cost[a] = @ - cost, !.pnl = @ + gross - fee - cost,
                      !.room[a] = @ - quantity]

liquidateRun(r) ==
    LET sold == FoldLeft(LAMBDA q, a : sell(q, a, q.quantity[a]), r, Basket)
    IN [sold EXCEPT !.status = IF Flat(sold) THEN "stopped" ELSE "blocked"]

\* What a target asks for: positive to buy, negative to sell; too small a deviation is left alone.
TradeIntent(r, targets, a) ==
    LET difference == (equity(r) * targets[a]) \div BotBps - Holds(r, a)
        size == IF difference < 0 THEN -difference ELSE difference
    IN IF size * BotBps < equity(r) * Deviation THEN 0
       ELSE IF difference > 0 THEN (size * UnitScale) \div r.price[a] ELSE -((size * UnitScale) \div r.price[a])

\* One order of a rebalance: once a limit has triggered nothing but the liquidation follows.
Placed(r, a, intent, selling) ==
    IF r.trigger # NoTrigger THEN r
    ELSE LET traded == limitsRun(IF selling THEN sell(r, a, -intent) ELSE buy(r, a, intent))
         IN IF traded.trigger # NoTrigger THEN liquidateRun(traded) ELSE traded

rebalance(r, targets) ==
    LET intent == [a \in Stocks |-> TradeIntent(r, targets, a)]
        sells == SelectSeq(Basket, LAMBDA a : intent[a] < 0)
        buys == SelectSeq(Basket, LAMBDA a : intent[a] > 0)
    IN FoldLeft(LAMBDA q, a : Placed(q, a, intent[a], FALSE), FoldLeft(LAMBDA q, a : Placed(q, a, intent[a], TRUE), r, sells), buys)

Frame(r, prices, room) ==
    LET quoted == limitsRun([r EXCEPT !.cursor = @ + 1, !.price = prices, !.room = room])
        scheduled == [quoted EXCEPT !.next = quoted.cursor + Interval]
    IN IF quoted.trigger # NoTrigger THEN liquidateRun(quoted)
       ELSE IF quoted.status = "running" /\ ~quoted.choice.external /\ quoted.cursor >= quoted.next
       THEN rebalance(scheduled, quoted.choice.weights) ELSE quoted

Decision(r, targets) ==
    LET looked == limitsRun(r) IN IF looked.trigger # NoTrigger THEN liquidateRun(looked) ELSE rebalance(looked, targets)

\* changeUnits: the units follow the cash so that a unit keeps its value.
Units(r, delta) ==
    IF r.units.n = 0 /\ equity(r) = 0 THEN [r EXCEPT !.units = [n |-> delta * r.empty.d, d |-> r.empty.n]]
    ELSE IF equity(r) + delta = 0 THEN [r EXCEPT !.units = [n |-> 0, d |-> 1], !.empty = [n |-> equity(r) * r.units.d, d |-> r.units.n]]
    ELSE [r EXCEPT !.units = Reduced(r.units.n * (equity(r) + delta), r.units.d * equity(r))]

Moved(r, delta) == [Units(r, delta) EXCEPT !.cash = @ + delta, !.net = @ + delta]

\* Without a unit the account is worth nothing, or was too small to be worth anything; all of the
\* latter cannot be taken at once (the value of no unit has no denominator).
Fundable(r, delta) ==
    IF equity(r) = 0 THEN r.units.n = 0 /\ delta > 0 ELSE -delta <= equity(r) /\ (r.units.n = 0 => equity(r) + delta # 0)

----------------------------------------------------------------------------
(* The store *)

\* When the last position is gone, cash beyond the allowance goes back to idle.
Settled(before, r) ==
    IF ~Flat(before) /\ Flat(r) /\ r.cash > Allowance
    THEN [r |-> Moved(r, Allowance - r.cash), released |-> r.cash - Allowance] ELSE [r |-> r, released |-> 0]

checkpoint(v, r, idleDelta) ==
    [v EXCEPT !.revision = @ + 1, !.idle = @ + idleDelta, !.activeCash = r.cash, !.positionCost = Total(r.cost),
              !.positionValue = equity(r) - r.cash, !.realizedPnl = r.baseline + r.pnl,
              !.status = IF r.status = "stopped" THEN "stopped" ELSE IF r.trigger # NoTrigger THEN "stopping" ELSE "running"]

\* One transaction: the run's step, its settlement, the vault and the row.
Write(r, idleDelta) ==
    LET settled == Settled(bot, r) IN
    /\ vault.revision < HistoryLimit - 1
    /\ bot' = [settled.r EXCEPT !.revision = @ + 1]
    /\ vault' = checkpoint(vault, settled.r, idleDelta + settled.released)
    /\ botActive' = (settled.r.status # "stopped")
    /\ UNCHANGED runs

CreateRun ==
    /\ runs < RunBudget /\ ~botActive /\ vault.revision < HistoryLimit - 1
    /\ vault.status = "stopped" /\ vault.activeCash = 0 /\ vault.positionCost = 0 /\ vault.feeLiability = 0 /\ Ordered(vault) = 0
    /\ \E cash \in Cash, choice \in BotChoices :
          /\ cash <= vault.idle /\ cash <= Allowance
          /\ bot' = createRun(cash, choice, vault.realizedPnl)
          /\ vault' = checkpoint(vault, bot', -cash)
    /\ botActive' = TRUE /\ runs' = runs + 1

CommandRoom == botActive /\ bot.revision < RunLimit

Step ==
    /\ CommandRoom /\ bot.cursor < FrameCount
    /\ \E price \in BasketPrices, room \in Capacities : Write(Frame(bot, [a \in Stocks |-> price], [a \in Stocks |-> room]), 0)

DecideRun ==
    /\ CommandRoom /\ bot.trigger = NoTrigger /\ bot.status = "running" /\ bot.choice.external /\ bot.cursor > 0
    /\ \E targets \in [Stocks -> {0, BotBps \div 2, BotBps}] : Total(targets) <= BotBps /\ Write(Decision(bot, targets), 0)

FundRun ==
    /\ CommandRoom /\ bot.trigger = NoTrigger /\ bot.status \in {"running", "paused"}
    /\ \E cash \in Cash :
          \/ /\ cash <= vault.idle /\ equity(bot) + cash <= Allowance /\ Fundable(bot, cash)
             /\ Write(Moved(bot, cash), -cash)
          \/ /\ cash <= bot.cash /\ Fundable(bot, -cash)
             /\ Write(Moved(bot, -cash), cash)

Pause ==
    /\ CommandRoom /\ bot.trigger = NoTrigger /\ bot.status \in {"running", "paused"}
    /\ \E to \in {"paused", "running"} : Write([bot EXCEPT !.status = to], 0)

\* A stop is taken whatever the run's length and revision.
StopRun ==
    /\ botActive
    /\ Write(liquidateRun(Triggered(bot, "manual")), 0)

VaultCommand == Command /\ UNCHANGED <<bot, runs>>

----------------------------------------------------------------------------
(* Properties *)

\* While a run is active the vault's active side is the run's own books, whatever the owner does
\* beside it, and the run's cash and costs are what it was given and what it earned, however many
\* partial sales rounded the cost (checkpoint, BOT_OWNS_ALLOCATION).
VaultMirrorsRun ==
    /\ botActive =>
          /\ vault.activeCash = bot.cash /\ vault.positionCost = Total(bot.cost) /\ vault.positionValue = equity(bot) - bot.cash
          /\ vault.realizedPnl = bot.baseline + bot.pnl /\ Ordered(vault) = 0 /\ vault.feeLiability = 0
    /\ bot.cash + Total(bot.cost) = bot.net + bot.pnl

----------------------------------------------------------------------------
LocalInit ==
    /\ LocalVaultInit
    /\ bot \in {[createRun(0, choice, 0) EXCEPT !.status = "stopped"] : choice \in BotChoices}
    /\ runs = 0

LocalNext == VaultCommand \/ CreateRun \/ Step \/ DecideRun \/ FundRun \/ Pause \/ StopRun

LocalSpec == LocalInit /\ [][LocalNext]_localVars
=============================================================================
