--------------------------- MODULE ReferencePaper ---------------------------
(***************************************************************************)
(* The paper account of packages/automata/src/reference-paper.ts: virtual  *)
(* cash and positions that follow reference prices.  A batch of quotes may *)
(* close a minute and bring signals (the averages behind them are left     *)
(* out: any signal may come); the user adds and takes cash and stops.      *)
(* Amounts are integers with the code's rounding at a coarser scale.       *)
(***************************************************************************)
EXTENDS Integers, Sequences, SequencesExt, FiniteSetsExt

CONSTANTS
    AssetOrder,    \* the selections, in the configuration's order
    Bids,          \* bid prices a batch may bring
    Spread,        \* what the ask is above the bid
    BPS, ValueScale, FeeBps, SlippageBps, InitialCash,
    LimitChoices,  \* [mode, asset, lower, upper], where Unset is no limit
    Amounts,       \* cash the user adds or takes
    PaperBudgets,  \* how many batches, funding requests and stops a behaviour has
    Unset

Assets == {AssetOrder[i] : i \in DOMAIN AssetOrder}

ASSUME PaperAssumption ==
    /\ BPS \in Nat \ {0} /\ ValueScale \in Nat \ {0} /\ InitialCash \in Nat \ {0}
    /\ FeeBps \in 0..(BPS - 1) /\ SlippageBps \in 0..(BPS - 1) /\ Spread \in Nat
    /\ Bids \subseteq Nat \ {0} /\ Amounts \subseteq Nat \ {0}

VARIABLES
    account,   \* PaperState; stale holds the assets whose quote is too old
    limits,    \* the configuration's limits
    last,      \* what the last step was: "none", "batch", "fund", "stop"
    todo

paperVars == <<account, limits, last, todo>>

Ceil(n, d) == (n + d - 1) \div d

\* rational: a fraction in lowest terms.
Rational(n, d) ==
    LET gcd[a \in Nat, b \in Nat] == IF b = 0 THEN a ELSE gcd[b, a % b]
        g == gcd[n, d]
    IN [n |-> n \div g, d |-> d \div g]

createPaper ==
    [status |-> "running", trigger |-> Unset, cash |-> InitialCash, quantity |-> [a \in Assets |-> 0],
     cost |-> [a \in Assets |-> 0], bid |-> [a \in Assets |-> 0], stale |-> Assets, net |-> InitialCash,
     fees |-> 0, pnl |-> 0, units |-> [n |-> InitialCash, d |-> 1], empty |-> [n |-> 1, d |-> 1]]

----------------------------------------------------------------------------
(* Valuation *)

Held(p) == {a \in Assets : p.quantity[a] # 0}
Valued(p) == Held(p) \cap p.stale = {}
Worth(p, a, quantity) == (quantity * p.bid[a]) \div ValueScale

paperNav(p) == p.cash + FoldLeft(LAMBDA sum, a : sum + Worth(p, a, p.quantity[a]), 0, AssetOrder)

paperReturn(p) == IF p.units.n = 0 THEN p.empty ELSE Rational(paperNav(p) * p.units.d, p.units.n)

tradeNumbers(p, a, side, quantity) ==
    LET price == IF side = "buy" THEN Ceil((p.bid[a] + Spread) * (BPS + SlippageBps), BPS)
                                 ELSE (p.bid[a] * (BPS - SlippageBps)) \div BPS
        gross == IF side = "buy" THEN Ceil(quantity * price, ValueScale) ELSE (quantity * price) \div ValueScale
    IN [price |-> price, gross |-> gross, fee |-> Ceil(gross * FeeBps, BPS)]

\* A third of the account is the most one asset may take.
withinCap(p, a, quantity) ==
    LET t == tradeNumbers(p, a, "buy", quantity)
        charge == t.gross + t.fee
        old == Worth(p, a, p.quantity[a])
        after == paperNav(p) - charge + Worth(p, a, p.quantity[a] + quantity) - old
    IN charge <= p.cash /\ (old + charge) * 3 <= after

\* The code's bisection; rounding makes withinCap not quite monotone, so this is not always the largest.
buyBudget(p, a) ==
    LET most == (p.cash * ValueScale) \div tradeNumbers(p, a, "buy", 1).price
        search[low \in 0..most, high \in 0..most] ==
            LET middle == (low + high + 1) \div 2
            IN IF low >= high THEN low
               ELSE IF withinCap(p, a, middle) THEN search[middle, high] ELSE search[low, middle - 1]
    IN search[0, most]

----------------------------------------------------------------------------
(* Orders.  What execute refuses leaves the account as it was. *)

CostSold(p, a, quantity) ==
    IF quantity = p.quantity[a] THEN p.cost[a] ELSE (p.cost[a] * quantity) \div p.quantity[a]

Buy(p, a, quantity) ==
    LET t == tradeNumbers(p, a, "buy", quantity)
    IN IF p.status = "running" /\ quantity > 0 /\ a \notin p.stale /\ t.gross > t.fee /\ withinCap(p, a, quantity)
       THEN [p EXCEPT !.cash = @ - t.gross - t.fee, !.quantity[a] = @ + quantity, !.cost[a] = @ + t.gross + t.fee,
                      !.fees = @ + t.fee]
       ELSE p

Sell(p, a, quantity) ==
    LET t == tradeNumbers(p, a, "sell", quantity)
        cost == CostSold(p, a, quantity)
    IN IF p.status # "stopped" /\ quantity > 0 /\ a \notin p.stale /\ t.gross > t.fee /\ quantity <= p.quantity[a]
       THEN [p EXCEPT !.cash = @ + t.gross - t.fee, !.quantity[a] = @ - quantity, !.cost[a] = @ - cost,
                      !.pnl = @ + t.gross - t.fee - cost, !.fees = @ + t.fee]
       ELSE p

liquidate(p) ==
    LET sold == FoldLeft(LAMBDA q, a : Sell(q, a, q.quantity[a]), p, AssetOrder)
    IN IF Held(sold) = {} THEN [sold EXCEPT !.status = "stopped"] ELSE sold

latch(p, trigger) ==
    IF p.status = "stopped" THEN p
    ELSE [p EXCEPT !.trigger = IF @ = Unset THEN trigger ELSE @, !.status = "liquidating"]

\* Where the limits put the account: "lower", "upper" or Unset.
Crossed(p) ==
    LET r == paperReturn(p)
        gain == (r.n - r.d) * BPS
        bid == p.bid[limits.asset]
    IN IF limits.mode = "percent" /\ Valued(p)
       THEN IF limits.lower # Unset /\ gain <= limits.lower * r.d THEN "lower"
            ELSE IF limits.upper # Unset /\ gain >= limits.upper * r.d THEN "upper" ELSE Unset
       ELSE IF limits.mode = "price" /\ limits.asset \notin p.stale
       THEN IF limits.lower # Unset /\ bid <= limits.lower THEN "lower"
            ELSE IF limits.upper # Unset /\ bid >= limits.upper THEN "upper" ELSE Unset
       ELSE Unset

evaluateLimits(p) == IF p.status = "running" /\ Crossed(p) # Unset THEN latch(p, Crossed(p)) ELSE p

----------------------------------------------------------------------------
(* The three commands *)

\* Mutant: the limits are not looked at after a purchase.
BuyStepMutant(p, a) == IF p.status = "running" THEN Buy(p, a, buyBudget(p, a)) ELSE p

SellStep(p, a) == evaluateLimits(Sell(p, a, p.quantity[a]))
BuyStep(p, a) ==
    LET quantity == buyBudget(p, a)
    IN IF p.status # "running" \/ quantity = 0 THEN p ELSE evaluateLimits(Buy(p, a, quantity))

\* applyPaperBatch, with the signals a closed minute gave (Unset: no minute was closed).
applyPaperBatch(p, bids, signals) ==
    LET quoted == evaluateLimits([p EXCEPT !.bid = bids, !.stale = {}])
        sells == SelectSeq(AssetOrder, LAMBDA a : signals[a] = "below" /\ quoted.quantity[a] # 0)
        buys == SelectSeq(AssetOrder, LAMBDA a : signals[a] = "above" /\ quoted.quantity[a] = 0)
        traded == FoldLeft(LAMBDA q, a : BuyStep(q, a), FoldLeft(LAMBDA q, a : SellStep(q, a), quoted, sells), buys)
    IN IF quoted.status = "liquidating" THEN liquidate(quoted)
       ELSE IF quoted.status = "running" /\ signals # Unset
       THEN IF traded.status = "liquidating" THEN liquidate(traded) ELSE traded
       ELSE quoted

\* Mutant: the units are priced after the cash has moved.
fundPaperMutant(p, amount, delta) ==
    LET nav == paperNav(p) IN
    [p EXCEPT !.cash = @ + delta, !.net = @ + delta, !.empty = Rational(nav * p.units.d, p.units.n),
              !.units = Rational(p.units.n * (nav + 2 * delta), p.units.d * (nav + delta))]

\* An account without units gets new ones at what the last one was worth.
fundPaper(p, amount, delta) ==
    LET nav == paperNav(p) IN
    [p EXCEPT !.cash = @ + delta, !.net = @ + delta,
              !.empty = IF p.units.n = 0 THEN @ ELSE Rational(nav * p.units.d, p.units.n),
              !.units = IF p.units.n = 0 THEN Rational(amount * p.empty.d, p.empty.n)
                        ELSE Rational(p.units.n * (nav + delta), p.units.d * nav)]

Use(what) == todo[what] > 0 /\ todo' = [todo EXCEPT ![what] = @ - 1]

Aged(p, old) == [p EXCEPT !.stale = @ \cup old]

AcceptedBatch ==
    /\ Use("batches")
    /\ \E bids \in [Assets -> Bids] : \E signals \in [Assets -> {"none", "above", "below"}] \cup {Unset} :
          account' = applyPaperBatch(account, bids, signals)
    /\ last' = "batch" /\ UNCHANGED limits

\* A rejected batch moves the clock; one from before the last control does not.
RejectedBatch ==
    /\ Use("batches")
    /\ \E old \in SUBSET Assets : account' = Aged(account, old)
    /\ last' = "none" /\ UNCHANGED limits

Fund ==
    /\ Use("funds")
    /\ \E old \in SUBSET Assets, amount \in Amounts, direction \in {"in", "out"} :
          LET p == Aged(account, old) IN
          /\ direction = "in" => p.status = "running"
          /\ Valued(p)
          /\ paperNav(p) > 0 \/ p.units.n = 0
          /\ direction = "out" => amount <= p.cash
          /\ account' = fundPaper(p, amount, IF direction = "in" THEN amount ELSE -amount)
    /\ last' = "fund" /\ UNCHANGED limits

StopAccount ==
    /\ Use("stops")
    /\ \E old \in SUBSET Assets :
          LET p == latch(Aged(account, old), "manual")
          IN account' = IF p.status = "liquidating" THEN liquidate(p) ELSE p
    /\ last' = "stop" /\ UNCHANGED limits

----------------------------------------------------------------------------
(* Properties *)

\* Money is neither made nor lost in the books: cash and the cost of what is held are what was
\* contributed plus what was realised, through partial liquidations and rounding (execute).
PaperLedger ==
    /\ account.cash >= 0
    /\ account.cash + FoldLeft(LAMBDA sum, a : sum + account.cost[a], 0, AssetOrder) = account.net + account.pnl
    /\ \A a \in Assets : account.quantity[a] = 0 => account.cost[a] = 0

\* Adding or taking cash does not change the value of a unit, so it neither hides a loss from
\* the limits nor sets them off (fundPaper); what the last unit was worth is kept when none is left.
FundingKeepsUnitValue ==
    [][last' = "fund" /\ account.units.n # 0 => paperReturn(account') = paperReturn(account)]_paperVars

\* After a batch the account is inside its limits or no longer running: no order of the batch
\* leaves it running across one (applyPaperBatch).
LimitsHeld == [][last' = "batch" /\ account'.status = "running" => Crossed(account') = Unset]_paperVars

\* Once triggered, always triggered and by the same cause; from then on positions only shrink,
\* and a stopped account holds none (latch, liquidate, execute).
StopIsFinal ==
    [][account.status # "running" =>
          /\ account'.status # "running" /\ account'.trigger = account.trigger
          /\ \A a \in Assets : account'.quantity[a] <= account.quantity[a]
          /\ account'.status = "stopped" => Held(account') = {}]_paperVars

----------------------------------------------------------------------------
PaperInit ==
    /\ account = createPaper
    /\ limits \in LimitChoices
    /\ last = "none"
    /\ todo \in PaperBudgets

PaperNext == AcceptedBatch \/ RejectedBatch \/ Fund \/ StopAccount

PaperSpec == PaperInit /\ [][PaperNext]_paperVars

\* Limits act after every batch, and what they or the user stopped stays stopped.
LimitsEnforced == LimitsHeld /\ StopIsFinal
=============================================================================
