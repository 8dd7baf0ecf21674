------------------------ MODULE StrategyVaultProofs ------------------------
(***************************************************************************)
(* Proofs about StrategyVault for every value of its constants.            *)
(*                                                                         *)
(* TypeOK is not inductive: a sale that closes the position decrements the *)
(* count of open positions, which is a natural number only because the     *)
(* count is what PositionShape says.  The typing theorem therefore carries *)
(* both, and everything else is proved on top of it.                       *)
(***************************************************************************)
EXTENDS StrategyVault, FiniteSetTheorems, TLAPS

----------------------------------------------------------------------------
(* Arithmetic and balances *)

\* Math.mulDiv of natural numbers by a nonzero divisor is a natural number.
LEMMA MulDivType ==
    ASSUME NEW a \in Nat, NEW b \in Nat, NEW c \in Nat \ {0}
    PROVE  MulDiv(a, b, c) \in Nat
BY DEF MulDiv

\* A proper share of a nonzero amount, rounded down, leaves something behind:
\* what _swap takes off positionCostUsdc in a partial sale.
LEMMA MulDivShare ==
    ASSUME NEW cost \in Nat, NEW part \in Nat, NEW whole \in Nat,
           cost # 0, part < whole
    PROVE  MulDiv(cost, part, whole) \in Nat /\ MulDiv(cost, part, whole) < cost
<1> DEFINE q == (cost * part) \div whole
<1>1. q \in Nat /\ whole * q <= cost * part
  OBVIOUS
<1>2. cost * part < cost * whole
  OBVIOUS
<1>3. ASSUME q >= cost PROVE FALSE
  <2>1. whole * q >= whole * cost
    BY <1>1, <1>3
  <2> QED BY <2>1, <1>2, <1>1
<1> QED BY <1>1, <1>3 DEF MulDiv

\* The PASS of a sum or a difference of principals (usdcToPassRaw is linear).
LEMMA PassLinear ==
    ASSUME NEW p \in Nat, NEW a \in Nat
    PROVE  /\ UsdcToPassRaw(p) \in Nat
           /\ UsdcToPassRaw(p + a) = UsdcToPassRaw(p) + UsdcToPassRaw(a)
           /\ a <= p => /\ UsdcToPassRaw(p - a) = UsdcToPassRaw(p) - UsdcToPassRaw(a)
                        /\ UsdcToPassRaw(a) <= UsdcToPassRaw(p)
BY VaultAssumption DEF UsdcToPassRaw

\* A covered transfer keeps balances natural numbers.
LEMMA MoveType ==
    ASSUME NEW b \in [Accounts -> Nat], NEW from \in Accounts, NEW to \in Accounts,
           NEW amount \in Nat, from # to, amount <= b[from]
    PROVE  Move(b, from, to, amount) \in [Accounts -> Nat]
BY DEF Move

\* Balance tables whose rows for one or two tokens are replaced.
LEMMA RowType ==
    ASSUME NEW B \in [Tokens -> [Accounts -> Nat]],
           NEW t \in Tokens, NEW r \in [Accounts -> Nat]
    PROVE  [B EXCEPT ![t] = r] \in [Tokens -> [Accounts -> Nat]]
OBVIOUS

\* The same for two rows, as a swap and the Vault's own transfers replace them.
LEMMA RowsType ==
    ASSUME NEW B \in [Tokens -> [Accounts -> Nat]],
           NEW t1 \in Tokens, NEW r1 \in [Accounts -> Nat],
           NEW t2 \in Tokens, NEW r2 \in [Accounts -> Nat]
    PROVE  [B EXCEPT ![t1] = r1, ![t2] = r2] \in [Tokens -> [Accounts -> Nat]]
OBVIOUS

----------------------------------------------------------------------------
(* Typing *)

\* What the count of open positions and the position's cost always look like.
PositionShape ==
    /\ trackedPosition["other"] = 0
    /\ openTrackedPositionCount = IF trackedPosition["target"] = 0 THEN 0 ELSE 1
    /\ positionCostUsdc = 0 <=> trackedPosition["target"] = 0

TypeInv == TypeOK /\ PositionShape

\* The three parts of FeedNext keep the feed's type and leave the Vault alone.
LEMMA FeedStepTypes == TypeInv /\ FeedStep => TypeInv'
<1> SUFFICES ASSUME TypeInv, FeedStep PROVE TypeInv'
  OBVIOUS
<1> USE FeedAssumption
<1>1. FeedTypeOK'
  <2>1. CASE Tick
    BY <2>1 DEF TypeInv, TypeOK, FeedTypeOK, Tick
  <2>2. ASSUME NEW p \in Prices, NEW at \in 1..MaxTime, UpdatePrice(p, at)
        PROVE  FeedTypeOK'
    BY <2>2 DEF TypeInv, TypeOK, FeedTypeOK, UpdatePrice
  <2>3. ASSUME NEW w \in SessionWindows, NEW at \in 1..MaxTime, UpdateSession(w, at)
        PROVE  FeedTypeOK'
    <3>1. w[1] \in Nat /\ w[2] \in Nat
      OBVIOUS
    <3> QED BY <2>3, <3>1 DEF TypeInv, TypeOK, FeedTypeOK, UpdateSession
  <2> QED BY <2>1, <2>2, <2>3 DEF FeedStep, FeedNext
<1> QED BY <1>1 DEF TypeInv, TypeOK, PositionShape, FeedStep, vaultVars

\* deposit keeps the types: what it moves is covered by the owner's balances.
LEMMA DepositTypes ==
    ASSUME TypeInv, NEW a \in Amounts, Deposit(a) PROVE TypeInv'
<1> USE VaultAssumption DEF TypeInv, TypeOK
<1> DEFINE passRaw == UsdcToPassRaw(a)
<1>1. a \in Nat /\ passRaw \in Nat
  BY PassLinear
<1> HIDE DEF passRaw
<1>2. Move(bal["usdc"], Owner, "vault", a) \in [Accounts -> Nat]
  BY <1>1, MoveType DEF Deposit, Tokens, Accounts, Owner
<1>3. Move(bal["pass"], Owner, "locker", passRaw) \in [Accounts -> Nat]
  <2>1. passRaw <= bal["pass"][Owner]
    BY <1>1 DEF Deposit, passRaw, Tokens, Accounts, Owner
  <2> QED BY <1>1, <2>1, MoveType DEF Tokens, Accounts, Owner
<1>4. bal' = [bal EXCEPT !["usdc"] = Move(@, Owner, "vault", a),
                         !["pass"] = Move(@, Owner, "locker", passRaw)]
  BY DEF Deposit, passRaw
<1>5. bal' \in [Tokens -> [Accounts -> Nat]]
  BY <1>2, <1>3, <1>4, RowsType DEF Tokens
<1>6. /\ principalBasis' = principalBasis + a
      /\ trackedUsdcBalance' = trackedUsdcBalance + a
      /\ lockedBalance' = lockedBalance + passRaw
      /\ UNCHANGED <<feedVars, trackedPosition, openTrackedPositionCount, closed,
                     grant, totalBuyUsdc, executionVersion, positionCostUsdc,
                     realizedTradingPnl, reservePaused, inflight, profitPaid,
                     executorSpent>>
  BY DEF Deposit, passRaw
<1> QED BY <1>1, <1>5, <1>6 DEF PositionShape, FeedTypeOK, feedVars

\* withdraw keeps the types: the PASS it unlocks is within the locked balance.
LEMMA WithdrawTypes ==
    ASSUME TypeInv, NEW a \in Amounts, Withdraw(a) PROVE TypeInv'
<1> USE VaultAssumption DEF TypeInv, TypeOK
<1> DEFINE profitAmount == IF a < RealizedProfit THEN a ELSE RealizedProfit
           principalAmount == a - profitAmount
           passRaw == UsdcToPassRaw(principalAmount)
<1>1. /\ a \in Nat /\ profitAmount \in Nat /\ principalAmount \in Nat
      /\ profitAmount <= a
  BY DEF RealizedProfit
<1>2. passRaw \in Nat
  BY <1>1, PassLinear
<1>3. a <= bal["usdc"]["vault"] /\ passRaw <= bal["pass"]["locker"] /\ passRaw <= lockedBalance
  BY <1>2 DEF Withdraw, LockerReturns, Tokens, Accounts
<1> HIDE DEF profitAmount, passRaw
<1>4. bal' = [bal EXCEPT !["usdc"] = Move(@, "vault", Owner, a),
                         !["pass"] = Move(@, "locker", Owner, passRaw)]
  BY DEF Withdraw, profitAmount, passRaw
<1>5. bal' \in [Tokens -> [Accounts -> Nat]]
  <2>1. Move(bal["usdc"], "vault", Owner, a) \in [Accounts -> Nat]
    BY <1>1, <1>3, MoveType DEF Tokens, Accounts, Owner
  <2>2. Move(bal["pass"], "locker", Owner, passRaw) \in [Accounts -> Nat]
    BY <1>2, <1>3, MoveType DEF Tokens, Accounts, Owner
  <2> QED BY <1>4, <2>1, <2>2, RowsType DEF Tokens
<1>6. /\ trackedUsdcBalance' = trackedUsdcBalance - a
      /\ a <= trackedUsdcBalance
      /\ principalBasis' = principalBasis - principalAmount
      /\ principalAmount <= principalBasis
      /\ lockedBalance' = lockedBalance - passRaw
      /\ profitPaid' = profitPaid + profitAmount
  BY DEF Withdraw, profitAmount, passRaw
<1>7. UNCHANGED <<feedVars, trackedPosition, openTrackedPositionCount, closed,
                  grant, totalBuyUsdc, executionVersion, positionCostUsdc,
                  realizedTradingPnl, reservePaused, inflight, executorSpent>>
  BY DEF Withdraw
<1> QED BY <1>1, <1>2, <1>3, <1>5, <1>6, <1>7 DEF PositionShape, FeedTypeOK, feedVars

\* close keeps the types: it pays out no more than the balances hold.
LEMMA CloseTypes == ASSUME TypeInv, Close PROVE TypeInv'
<1> USE VaultAssumption DEF TypeInv, TypeOK
<1>1. bal' \in [Tokens -> [Accounts -> Nat]]
  <2>1. Move(bal["usdc"], "vault", Owner, trackedUsdcBalance) \in [Accounts -> Nat]
    BY MoveType DEF Close, Tokens, Accounts, Owner
  <2>2. Move(bal["pass"], "locker", Owner, lockedBalance) \in [Accounts -> Nat]
    BY MoveType DEF Close, Tokens, Accounts, Owner
  <2> QED BY <2>1, <2>2, RowsType DEF Close, Tokens
<1> QED BY <1>1 DEF Close, PositionShape, FeedTypeOK, feedVars

\* The rescues keep the types: an excess is part of the balance it is taken from.
LEMMA RescueTypes ==
    ASSUME TypeInv,
           RescueNative \/ \E t \in Tokens : RescueUntrackedToken(t)
    PROVE  TypeInv'
<1> USE VaultAssumption DEF TypeInv, TypeOK
<1>1. CASE RescueNative
  <2>1. bal' \in [Tokens -> [Accounts -> Nat]]
    <3>1. Move(bal["native"], "vault", Owner, bal["native"]["vault"]) \in [Accounts -> Nat]
      <4> DEFINE row == bal["native"]
      <4>1. row \in [Accounts -> Nat] /\ row["vault"] \in Nat
        BY DEF Tokens, Accounts
      <4> HIDE DEF row
      <4>2. Move(row, "vault", Owner, row["vault"]) \in [Accounts -> Nat]
        BY <4>1, MoveType DEF Accounts, Owner
      <4> QED BY <4>2 DEF row
    <3> QED BY <1>1, <3>1, RowType DEF RescueNative, Tokens
  <2> QED BY <1>1, <2>1 DEF RescueNative, PositionShape, FeedTypeOK, feedVars
<1>2. ASSUME NEW t \in Tokens, RescueUntrackedToken(t) PROVE TypeInv'
  <2> DEFINE lockerExcess == ExcessOver(bal["pass"]["locker"], ReservedTrackedBalance(t))
             vaultExcess == IF t = "pass" THEN bal[t]["vault"]
                            ELSE ExcessOver(bal[t]["vault"], ReservedTrackedBalance(t))
             first == IF t = "pass" THEN Move(bal[t], "locker", Owner, lockerExcess) ELSE bal[t]
  <2>1. ReservedTrackedBalance(t) \in Nat
    BY DEF ReservedTrackedBalance, Tokens, StockTokens
  <2>2. /\ lockerExcess \in Nat /\ lockerExcess <= bal["pass"]["locker"]
        /\ vaultExcess \in Nat /\ vaultExcess <= bal[t]["vault"]
    BY <2>1 DEF ExcessOver, Tokens, Accounts
  <2>3. first \in [Accounts -> Nat] /\ first["vault"] = bal[t]["vault"]
    <3>1. CASE t = "pass"
      <4>1. Move(bal["pass"], "locker", Owner, lockerExcess) \in [Accounts -> Nat]
        BY <2>2, MoveType DEF Tokens, Accounts, Owner
      <4>2. Move(bal["pass"], "locker", Owner, lockerExcess)["vault"] = bal["pass"]["vault"]
        BY DEF Move, Tokens, Accounts, Owner
      <4> QED BY <3>1, <4>1, <4>2
    <3>2. CASE t # "pass"
      BY <3>2 DEF Tokens
    <3> QED BY <3>1, <3>2
  <2>4. bal' = [bal EXCEPT ![t] = Move(first, "vault", Owner, vaultExcess)]
    BY <1>2 DEF RescueUntrackedToken
  <2> HIDE DEF lockerExcess, vaultExcess, first
  <2>5. Move(first, "vault", Owner, vaultExcess) \in [Accounts -> Nat]
    BY <2>2, <2>3, MoveType DEF Accounts, Owner
  <2>6. bal' \in [Tokens -> [Accounts -> Nat]]
    BY <2>4, <2>5
  <2>7. UNCHANGED <<feedVars, principalBasis, trackedUsdcBalance, trackedPosition,
                    openTrackedPositionCount, closed, lockedBalance, grant,
                    totalBuyUsdc, executionVersion, positionCostUsdc,
                    realizedTradingPnl, reservePaused, inflight, profitPaid,
                    executorSpent>>
    BY <1>2 DEF RescueUntrackedToken
  <2> QED BY <2>6, <2>7 DEF PositionShape, FeedTypeOK, feedVars
<1> QED BY <1>1, <1>2

\* configureExecutor and revokeExecutor keep the types.
LEMMA GrantTypes ==
    ASSUME TypeInv, RevokeExecutor \/ \E g \in Grants : ConfigureExecutor(g)
    PROVE  TypeInv'
<1> USE VaultAssumption DEF TypeInv, TypeOK
<1>1. CASE RevokeExecutor
  BY <1>1 DEF RevokeExecutor, PositionShape, FeedTypeOK, feedVars
<1>2. ASSUME NEW g \in Grants, ConfigureExecutor(g) PROVE TypeInv'
  BY <1>2 DEF ConfigureExecutor, PositionShape, FeedTypeOK, feedVars
<1> QED BY <1>1, <1>2

\* Signing and dropping an execute call keep the types.
LEMMA SignDropTypes ==
    ASSUME TypeInv,
           \/ \E c \in Callers, b \in BOOLEAN, m \in MinOuts, d \in Deadlines :
                \E i \in IF b THEN Amounts ELSE Units : SignOrder(c, b, i, m, d)
           \/ \E o \in inflight : DropOrder(o)
    PROVE  TypeInv'
<1> USE VaultAssumption DEF TypeInv, TypeOK
<1>1. ASSUME NEW c \in Callers, NEW b \in BOOLEAN, NEW m \in MinOuts, NEW d \in Deadlines,
             NEW i \in IF b THEN Amounts ELSE Units, SignOrder(c, b, i, m, d)
      PROVE  TypeInv'
  <2>1. i \in Nat /\ m \in Nat /\ d \in Nat /\ executionVersion \in Nat
    OBVIOUS
  <2>2. [caller |-> c, buy |-> b, input |-> i, minOut |-> m, deadline |-> d,
         version |-> executionVersion, sawGrant |-> grant, runs |-> 0] \in Orders
    BY <2>1 DEF Orders
  <2>3. inflight' \subseteq Orders
    BY <1>1, <2>2 DEF SignOrder
  <2> QED BY <1>1, <2>3 DEF SignOrder, PositionShape, FeedTypeOK, feedVars
<1>2. ASSUME NEW o \in inflight, DropOrder(o) PROVE TypeInv'
  BY <1>2 DEF DropOrder, PositionShape, FeedTypeOK, feedVars
<1> QED BY <1>1, <1>2

\* A swap's output is a natural number wherever the price is one.
LEMMA SwapOutputType ==
    ASSUME TypeInv, NEW buy \in BOOLEAN, NEW input \in Nat, feed.price # 0
    PROVE  SwapOutput(buy, input) \in Nat
<1>1. feed.price \in Nat \ {0} /\ StockUnit \in Nat \ {0}
  BY FeedAssumption, VaultAssumption DEF TypeInv, TypeOK, FeedTypeOK
<1> QED BY <1>1, MulDivType DEF SwapOutput

\* What a guarded swap does to the two tokens it moves, and to no other.
LEMMA SwapMoves ==
    ASSUME TypeInv, NEW trader \in {"vault", "others"}, NEW buy \in BOOLEAN,
           NEW input \in Nat, NEW minimum,
           SwapGuard(trader, buy, input, minimum),
           bal' = SwapBalances(trader, buy, input)
    PROVE  /\ bal' \in [Tokens -> [Accounts -> Nat]]
           /\ SwapOutput(buy, input) \in Nat \ {0}
           /\ bal'[InToken(buy)][trader] = bal[InToken(buy)][trader] - input
           /\ bal'[OutToken(buy)][trader] = bal[OutToken(buy)][trader] + SwapOutput(buy, input)
           /\ \A t \in Tokens, a \in Accounts :
                t \notin {"usdc", "target"} \/ a \notin {trader, "reserve"}
                => bal'[t][a] = bal[t][a]
<1> DEFINE out == SwapOutput(buy, input)
<1>1. out \in Nat \ {0}
  BY SwapOutputType DEF SwapGuard, PriceFresh
<1>2. out <= bal[OutToken(buy)]["reserve"] /\ input <= bal[InToken(buy)][trader]
  BY <1>1 DEF SwapGuard, TypeInv, TypeOK, InToken, OutToken, Tokens, Accounts
<1> HIDE DEF out
<1>3. /\ InToken(buy) \in {"usdc", "target"} /\ OutToken(buy) \in {"usdc", "target"}
      /\ InToken(buy) # OutToken(buy)
  BY DEF InToken, OutToken
<1>4. bal \in [Tokens -> [Accounts -> Nat]]
  BY DEF TypeInv, TypeOK
<1> DEFINE inRow == Move(bal[InToken(buy)], trader, "reserve", input)
           outRow == Move(bal[OutToken(buy)], "reserve", trader, out)
<1>5. inRow \in [Accounts -> Nat] /\ outRow \in [Accounts -> Nat]
  BY <1>1, <1>2, <1>3, <1>4, MoveType DEF Tokens, Accounts
<1>6. /\ inRow[trader] = bal[InToken(buy)][trader] - input
      /\ outRow[trader] = bal[OutToken(buy)][trader] + out
      /\ \A a \in Accounts \ {trader, "reserve"} :
           inRow[a] = bal[InToken(buy)][a] /\ outRow[a] = bal[OutToken(buy)][a]
  BY <1>3, <1>4 DEF Move, Tokens, Accounts
<1> HIDE DEF inRow, outRow
<1>7. bal' = [bal EXCEPT ![InToken(buy)] = inRow, ![OutToken(buy)] = outRow]
  BY DEF SwapBalances, inRow, outRow, out
<1>8. bal' \in [Tokens -> [Accounts -> Nat]]
  BY <1>3, <1>4, <1>5, <1>7 DEF Tokens
<1>9. /\ bal'[InToken(buy)] = inRow /\ bal'[OutToken(buy)] = outRow
      /\ \A t \in Tokens \ {InToken(buy), OutToken(buy)} : bal'[t] = bal[t]
  BY <1>3, <1>4, <1>7 DEF Tokens
<1>10. {InToken(buy), OutToken(buy)} = {"usdc", "target"}
  BY DEF InToken, OutToken
<1> QED BY <1>1, <1>6, <1>8, <1>9, <1>10 DEF out

\* The parts of Executable that the bookkeeping relies on.
LEMMA ExecutableFacts ==
    ASSUME TypeInv, NEW o \in inflight, Executable(o)
    PROVE  /\ o.input \in Nat \ {0}
           /\ o.input <= IF o.buy THEN trackedUsdcBalance ELSE trackedPosition["target"]
           /\ SwapGuard("vault", o.buy, o.input, o.minOut)
           /\ executionVersion < MaxVersion
           /\ o \in Orders
BY DEF Executable, TypeInv, TypeOK, Orders

\* An order that ran is an order.
LEMMA RanType ==
    ASSUME TypeInv, NEW o \in inflight, Ran(o)
    PROVE  inflight' \subseteq Orders
<1>1. o \in Orders
  BY DEF TypeInv, TypeOK
<1>2. [o EXCEPT !.runs = @ + 1] \in Orders
  BY <1>1 DEF Orders
<1> QED BY <1>2 DEF Ran, TypeInv, TypeOK

\* A buy keeps the types and opens the position it adds to.
LEMMA BuyTypes == ASSUME TypeInv, NEW o \in inflight, ExecuteBuy(o) PROVE TypeInv'
<1> DEFINE out == SwapOutput(TRUE, o.input)
           previous == trackedPosition["target"]
<1>1. o.buy = TRUE /\ Executable(o)
  BY DEF ExecuteBuy, TypeInv, TypeOK, Orders
<1>2. /\ o.input \in Nat \ {0} /\ o.input <= trackedUsdcBalance
      /\ SwapGuard("vault", TRUE, o.input, o.minOut) /\ executionVersion < MaxVersion
  BY <1>1, ExecutableFacts
<1>3. bal' \in [Tokens -> [Accounts -> Nat]] /\ out \in Nat \ {0}
  BY <1>2, SwapMoves DEF ExecuteBuy
<1>4. inflight' \subseteq Orders
  BY RanType DEF ExecuteBuy
<1>5. previous \in Nat /\ previous + out # previous /\ previous + out # 0
  <2>1. previous \in Nat
    BY DEF TypeInv, TypeOK, StockTokens
  <2> HIDE DEF previous, out
  <2> QED BY <1>3, <2>1
<1>6. openTrackedPositionCount' = 1
  <2>1. openTrackedPositionCount' = OpenCountAfter(previous, previous + out)
    BY DEF ExecuteBuy
  <2>2. openTrackedPositionCount = IF previous = 0 THEN 0 ELSE 1
    BY DEF TypeInv, PositionShape
  <2> HIDE DEF previous, out
  <2> QED BY <1>5, <2>1, <2>2 DEF OpenCountAfter
<1>7. trackedPosition' = [trackedPosition EXCEPT !["target"] = previous + out]
  BY DEF ExecuteBuy
<1> HIDE DEF out, previous
<1>8. /\ trackedPosition' \in [StockTokens -> Nat]
      /\ trackedPosition'["target"] # 0 /\ trackedPosition'["other"] = 0
  BY <1>3, <1>5, <1>7 DEF TypeInv, TypeOK, PositionShape, StockTokens
<1>9. /\ trackedUsdcBalance' = trackedUsdcBalance - o.input
      /\ totalBuyUsdc' = totalBuyUsdc + o.input
      /\ positionCostUsdc' = positionCostUsdc + o.input
      /\ executionVersion' = executionVersion + 1
      /\ executorSpent' = IF o.caller = Owner THEN executorSpent ELSE executorSpent + o.input
      /\ UNCHANGED <<feedVars, principalBasis, closed, lockedBalance, grant,
                     realizedTradingPnl, reservePaused, profitPaid>>
  BY DEF ExecuteBuy
<1>10. PositionShape'
  <2>1. positionCostUsdc' # 0
    BY <1>2, <1>9 DEF TypeInv, TypeOK
  <2> QED BY <1>6, <1>8, <2>1 DEF PositionShape
<1> QED BY <1>2, <1>3, <1>4, <1>6, <1>8, <1>9, <1>10, VaultAssumption
        DEF TypeInv, TypeOK, FeedTypeOK, feedVars

\* The cost that leaves with a sale: all of it with the last unit, and always
\* less than all of it before.
LEMMA ExitedCostBounds ==
    ASSUME TypeInv, NEW input \in Nat \ {0}, input <= trackedPosition["target"]
    PROVE  LET exited == ExitedCost(input, trackedPosition["target"])
           IN  /\ exited \in Nat
               /\ exited <= positionCostUsdc
               /\ exited = positionCostUsdc <=> input = trackedPosition["target"]
<1>1. trackedPosition["target"] \in Nat /\ positionCostUsdc \in Nat
  BY DEF TypeInv, TypeOK, StockTokens
<1>2. positionCostUsdc # 0
  BY <1>1 DEF TypeInv, PositionShape
<1>3. CASE input = trackedPosition["target"]
  BY <1>1, <1>3 DEF ExitedCost
<1>4. CASE input # trackedPosition["target"]
  <2>1. input < trackedPosition["target"]
    BY <1>1, <1>4
  <2>2. /\ MulDiv(positionCostUsdc, input, trackedPosition["target"]) \in Nat
        /\ MulDiv(positionCostUsdc, input, trackedPosition["target"]) < positionCostUsdc
    BY <1>1, <1>2, <2>1, MulDivShare
  <2> QED BY <1>1, <1>4, <2>2 DEF ExitedCost
<1> QED BY <1>3, <1>4

\* A sale keeps the types and the shape of the position, closed or still open.
LEMMA SellTypes == ASSUME TypeInv, NEW o \in inflight, ExecuteSell(o) PROVE TypeInv'
<1> DEFINE out == SwapOutput(FALSE, o.input)
           previous == trackedPosition["target"]
           exited == ExitedCost(o.input, previous)
<1>1. o.buy = FALSE /\ Executable(o)
  BY DEF ExecuteSell, TypeInv, TypeOK, Orders
<1>2. /\ o.input \in Nat \ {0} /\ o.input <= previous
      /\ SwapGuard("vault", FALSE, o.input, o.minOut) /\ executionVersion < MaxVersion
  BY <1>1, ExecutableFacts
<1>3. bal' \in [Tokens -> [Accounts -> Nat]] /\ out \in Nat \ {0}
  BY <1>2, SwapMoves DEF ExecuteSell
<1>4. inflight' \subseteq Orders
  BY RanType DEF ExecuteSell
<1>5. /\ exited \in Nat /\ exited <= positionCostUsdc
      /\ exited = positionCostUsdc <=> o.input = previous
  BY <1>2, ExitedCostBounds
<1>6. previous \in Nat \ {0}
  BY <1>2 DEF TypeInv, TypeOK, StockTokens
<1>7. openTrackedPositionCount' = IF previous - o.input = 0 THEN 0 ELSE 1
  BY <1>2, <1>6 DEF ExecuteSell, OpenCountAfter, TypeInv, TypeOK, PositionShape
<1>8. /\ trackedPosition' = [trackedPosition EXCEPT !["target"] = previous - o.input]
      /\ positionCostUsdc' = positionCostUsdc - exited
      /\ realizedTradingPnl' = realizedTradingPnl + out - exited
      /\ trackedUsdcBalance' = trackedUsdcBalance + out
      /\ executionVersion' = executionVersion + 1
      /\ UNCHANGED <<feedVars, principalBasis, closed, lockedBalance, grant,
                     totalBuyUsdc, reservePaused, profitPaid, executorSpent>>
  BY DEF ExecuteSell, PnlAfter
<1>9. positionCostUsdc \in Nat /\ trackedPosition["other"] = 0
  BY DEF TypeInv, TypeOK, PositionShape
<1> HIDE DEF out, exited
<1>10. /\ trackedPosition' \in [StockTokens -> Nat]
       /\ trackedPosition'["target"] = previous - o.input /\ trackedPosition'["other"] = 0
  BY <1>2, <1>6, <1>8 DEF TypeInv, TypeOK, PositionShape, StockTokens
<1> HIDE DEF previous
<1>11. PositionShape'
  BY <1>2, <1>5, <1>6, <1>7, <1>8, <1>9, <1>10 DEF PositionShape
<1> QED BY <1>2, <1>3, <1>4, <1>5, <1>7, <1>8, <1>9, <1>10, <1>11, VaultAssumption
        DEF TypeInv, TypeOK, FeedTypeOK, feedVars

\* A covered transfer of one token between two accounts, whoever makes it.
LEMMA TransferTypes ==
    ASSUME TypeInv, NEW token \in Tokens, NEW from \in Accounts, NEW to \in Accounts,
           from # to, NEW amount \in Nat, amount <= bal[token][from],
           bal' = [bal EXCEPT ![token] = Move(@, from, to, amount)],
           OnlyBalancesChange
    PROVE  TypeInv'
<1> DEFINE row == bal[token]
<1>1. row \in [Accounts -> Nat]
  BY DEF TypeInv, TypeOK
<1> HIDE DEF row
<1>2. Move(row, from, to, amount) \in [Accounts -> Nat]
  BY <1>1, MoveType DEF row
<1>3. bal' \in [Tokens -> [Accounts -> Nat]]
  BY <1>2, RowType DEF TypeInv, TypeOK, row
<1> QED BY <1>3 DEF OnlyBalancesChange, TypeInv, TypeOK, PositionShape, FeedTypeOK, feedVars

\* The stock reserve's operator, other traders and strangers keep the types.
LEMMA EnvironmentTypes == ASSUME TypeInv, EnvironmentStep PROVE TypeInv'
<1> USE VaultAssumption
<1>0. bal \in [Tokens -> [Accounts -> Nat]]
  BY DEF TypeInv, TypeOK
<1>1. ASSUME NEW p \in BOOLEAN, SetPaused(p) PROVE TypeInv'
  BY <1>1 DEF SetPaused, TypeInv, TypeOK, PositionShape, FeedTypeOK, feedVars
<1>2. ASSUME NEW t \in {"usdc", "target"}, NEW a \in OutsideAmounts, FundReserve(t, a)
      PROVE  TypeInv'
  <2>1. a \in Nat /\ a <= bal[t]["others"]
    BY <1>0, <1>2 DEF FundReserve, Tokens, Accounts
  <2> QED BY <1>2, <2>1, TransferTypes DEF FundReserve, Tokens, Accounts
<1>3. ASSUME NEW t \in {"usdc", "target"}, NEW a \in OutsideAmounts, WithdrawReserve(t, a)
      PROVE  TypeInv'
  <2>1. a \in Nat /\ a <= bal[t]["reserve"]
    BY <1>0, <1>3 DEF WithdrawReserve, Tokens, Accounts
  <2> QED BY <1>3, <2>1, TransferTypes DEF WithdrawReserve, Tokens, Accounts
<1>4. ASSUME NEW b \in BOOLEAN, NEW a \in OutsideAmounts, NEW m \in MinOuts, TraderSwap(b, a, m)
      PROVE  TypeInv'
  <2>1. bal' \in [Tokens -> [Accounts -> Nat]]
    BY <1>4, SwapMoves DEF TraderSwap
  <2> QED BY <1>4, <2>1
      DEF TraderSwap, OnlyBalancesChange, TypeInv, TypeOK, PositionShape, FeedTypeOK, feedVars
<1>5. ASSUME NEW t \in Tokens, NEW to \in {"vault", "locker"}, NEW a \in OutsideAmounts,
             Donate(t, to, a)
      PROVE  TypeInv'
  <2>1. a \in Nat /\ a <= bal[t]["others"]
    BY <1>0, <1>5 DEF Donate, Accounts
  <2> QED BY <1>5, <2>1, TransferTypes DEF Donate, Accounts
<1> QED BY <1>1, <1>2, <1>3, <1>4, <1>5 DEF EnvironmentStep

\* A new Vault has the types.
LEMMA InitTypes == Init => TypeInv
<1> SUFFICES ASSUME Init PROVE TypeInv
  OBVIOUS
<1>1. FeedTypeOK
  BY FeedAssumption DEF Init, FeedInit, FeedTypeOK
<1>2. trackedPosition \in [StockTokens -> Nat] /\ PositionShape
  BY DEF Init, PositionShape, StockTokens
<1>3. /\ bal \in [Tokens -> [Accounts -> Nat]]
      /\ grant \in Grants \cup {NoGrant}
      /\ inflight \subseteq Orders
  BY VaultAssumption DEF Init
<1>4. executionVersion \in 0..MaxVersion
  BY VaultAssumption DEF Init
<1>5. closed \in BOOLEAN /\ reservePaused \in BOOLEAN
  BY DEF Init
<1>6. /\ principalBasis \in Nat /\ trackedUsdcBalance \in Nat /\ openTrackedPositionCount \in Nat
      /\ lockedBalance \in Nat /\ totalBuyUsdc \in Nat /\ positionCostUsdc \in Nat
      /\ realizedTradingPnl \in Int /\ profitPaid \in Nat /\ executorSpent \in Nat
  BY DEF Init
<1> QED BY <1>1, <1>2, <1>3, <1>4, <1>5, <1>6 DEF TypeInv, TypeOK

\* Every step keeps the types.
LEMMA NextTypes == TypeInv /\ [Next]_vars => TypeInv'
<1> SUFFICES ASSUME TypeInv, [Next]_vars PROVE TypeInv'
  OBVIOUS
<1>1. CASE FeedStep
  BY <1>1, FeedStepTypes
<1>2. CASE OwnerStep
  BY <1>2, DepositTypes, WithdrawTypes, CloseTypes, RescueTypes, GrantTypes DEF OwnerStep
<1>3. CASE OrderStep
  BY <1>3, SignDropTypes, BuyTypes, SellTypes DEF OrderStep
<1>4. CASE EnvironmentStep
  BY <1>4, EnvironmentTypes
<1>5. CASE UNCHANGED vars
  BY <1>5 DEF vars, vaultVars, feedVars, TypeInv, TypeOK, PositionShape, FeedTypeOK
<1> QED BY <1>1, <1>2, <1>3, <1>4, <1>5 DEF Next

\* The typing invariant holds in every reachable state.
LEMMA TypeInvariance == Spec => []TypeInv
BY InitTypes, NextTypes, PTL DEF Spec

\* Every balance, counter and record of the Vault keeps its type: no
\* subtraction of the contracts can go below zero where they rely on checked
\* arithmetic not to revert.
THEOREM TypeCorrect == Spec => []TypeOK
<1>1. TypeInv => TypeOK
  BY DEF TypeInv
<1> QED BY <1>1, TypeInvariance, PTL

\* The count that blocks principal exits counts the open positions, and the
\* position's cost is zero exactly when it has no units (_setTrackedPosition,
\* _swap).
THEOREM PositionBooksCorrect == Spec => []PositionBooks
<1>1. TypeInv => PositionBooks
  <2> SUFFICES ASSUME TypeInv PROVE PositionBooks
    OBVIOUS
  <2> DEFINE open == {t \in StockTokens : trackedPosition[t] # 0}
  <2>1. CASE trackedPosition["target"] = 0
    <3>1. open = {}
      BY <2>1 DEF TypeInv, PositionShape, StockTokens
    <3> QED BY <2>1, <3>1, FS_EmptySet DEF TypeInv, PositionShape, PositionBooks
  <2>2. CASE trackedPosition["target"] # 0
    <3>1. open = {"target"}
      BY <2>2 DEF TypeInv, PositionShape, StockTokens
    <3>2. Cardinality({"target"}) = 1
      BY FS_Singleton
    <3> QED BY <2>2, <3>1, <3>2 DEF TypeInv, PositionShape, PositionBooks
  <2> QED BY <2>1, <2>2
<1> QED BY <1>1, TypeInvariance, PTL

----------------------------------------------------------------------------
(* The books *)

\* Capacity, custody and the ledger, together: withdraw and close keep the PASS
\* accounted for inside the locker's balance only because both hold before.
BooksInv == CapacityBacked /\ Custody /\ LedgerIdentity

\* Steps that leave every variable of the books alone.
LEMMA BooksUntouched ==
    ASSUME BooksInv,
           UNCHANGED <<bal, principalBasis, trackedUsdcBalance, trackedPosition, closed,
                       lockedBalance, positionCostUsdc, realizedTradingPnl, profitPaid>>
    PROVE  BooksInv'
BY DEF BooksInv, CapacityBacked, Custody, LedgerIdentity, UsdcToPassRaw

\* deposit keeps the books: PASS and AF-USDC grow in proportion.
LEMMA DepositBooks ==
    ASSUME TypeInv, BooksInv, NEW a \in Amounts, Deposit(a) PROVE BooksInv'
<1> DEFINE passRaw == UsdcToPassRaw(a)
<1>1. a \in Nat /\ passRaw \in Nat
  BY VaultAssumption, PassLinear
<1>2. CapacityBacked'
  <2>1. UsdcToPassRaw(principalBasis + a) = UsdcToPassRaw(principalBasis) + passRaw
    BY <1>1, PassLinear DEF TypeInv, TypeOK
  <2> HIDE DEF passRaw
  <2>2. principalBasis' = principalBasis + a /\ lockedBalance' = lockedBalance + passRaw
    BY DEF Deposit, passRaw
  <2>3. (UsdcToPassRaw(principalBasis))' = UsdcToPassRaw(principalBasis + a)
    BY <2>2 DEF UsdcToPassRaw
  <2> QED BY <2>1, <2>2, <2>3 DEF BooksInv, CapacityBacked
<1> HIDE DEF passRaw
<1>3. bal' = [bal EXCEPT !["usdc"] = Move(@, Owner, "vault", a),
                         !["pass"] = Move(@, Owner, "locker", passRaw)]
  BY DEF Deposit, passRaw
<1>4. /\ bal'["usdc"]["vault"] = bal["usdc"]["vault"] + a
      /\ bal'["pass"]["locker"] = bal["pass"]["locker"] + passRaw
      /\ \A t \in StockTokens : bal'[t]["vault"] = bal[t]["vault"]
  BY <1>3 DEF Move, TypeInv, TypeOK, Tokens, Accounts, Owner, StockTokens
<1>5. /\ trackedUsdcBalance' = trackedUsdcBalance + a
      /\ principalBasis' = principalBasis + a
      /\ lockedBalance' = lockedBalance + passRaw
      /\ UNCHANGED <<trackedPosition, positionCostUsdc, realizedTradingPnl, profitPaid, closed>>
  BY DEF Deposit, passRaw
<1>6. Custody'
  BY <1>1, <1>4, <1>5 DEF BooksInv, Custody, TypeInv, TypeOK, Tokens, Accounts
<1>7. LedgerIdentity'
  BY <1>1, <1>5 DEF BooksInv, LedgerIdentity, TypeInv, TypeOK
<1> QED BY <1>2, <1>6, <1>7 DEF BooksInv

\* withdraw keeps the books: profit leaves the ledger, principal takes its PASS along.
LEMMA WithdrawBooks ==
    ASSUME TypeInv, BooksInv, NEW a \in Amounts, Withdraw(a) PROVE BooksInv'
<1> DEFINE profitAmount == IF a < RealizedProfit THEN a ELSE RealizedProfit
           principalAmount == a - profitAmount
           passRaw == UsdcToPassRaw(principalAmount)
<1>1. a \in Nat /\ profitAmount \in Nat /\ principalAmount \in Nat /\ principalAmount <= principalBasis
  BY VaultAssumption DEF TypeInv, TypeOK, RealizedProfit, Withdraw
<1>2. /\ passRaw \in Nat
      /\ UsdcToPassRaw(principalBasis - principalAmount) = UsdcToPassRaw(principalBasis) - passRaw
  <2> HIDE DEF principalAmount
  <2> QED BY <1>1, PassLinear DEF TypeInv, TypeOK
<1>3. /\ trackedUsdcBalance' = trackedUsdcBalance - a
      /\ principalBasis' = principalBasis - principalAmount
      /\ lockedBalance' = lockedBalance - passRaw
      /\ profitPaid' = profitPaid + profitAmount
      /\ bal' = [bal EXCEPT !["usdc"] = Move(@, "vault", Owner, a),
                            !["pass"] = Move(@, "locker", Owner, passRaw)]
      /\ UNCHANGED <<trackedPosition, positionCostUsdc, realizedTradingPnl, closed>>
  BY DEF Withdraw
<1> HIDE DEF profitAmount, passRaw
<1>4. CapacityBacked'
  <2>1. (UsdcToPassRaw(principalBasis))' = UsdcToPassRaw(principalBasis - principalAmount)
    BY <1>3 DEF UsdcToPassRaw
  <2> QED BY <1>2, <1>3, <2>1 DEF BooksInv, CapacityBacked
<1>5. /\ bal'["usdc"]["vault"] = bal["usdc"]["vault"] - a
      /\ bal'["pass"]["locker"] = bal["pass"]["locker"] - passRaw
      /\ \A t \in StockTokens : bal'[t]["vault"] = bal[t]["vault"]
  BY <1>3 DEF Move, TypeInv, TypeOK, Tokens, Accounts, Owner, StockTokens
<1>6. Custody'
  <2>1. /\ trackedUsdcBalance' = trackedUsdcBalance - a
        /\ lockedBalance' = lockedBalance - passRaw
        /\ trackedPosition' = trackedPosition
    BY <1>3
  <2>2. /\ trackedUsdcBalance \in Nat /\ lockedBalance \in Nat
        /\ bal["usdc"]["vault"] \in Nat /\ bal["pass"]["locker"] \in Nat
    BY DEF TypeInv, TypeOK, Tokens, Accounts
  <2> QED BY <1>1, <1>2, <1>5, <2>1, <2>2 DEF BooksInv, Custody
<1>7. LedgerIdentity'
  BY <1>1, <1>3 DEF BooksInv, LedgerIdentity, TypeInv, TypeOK
<1> QED BY <1>4, <1>6, <1>7 DEF BooksInv

\* close keeps the books: nothing stays accounted for.
LEMMA CloseBooks == ASSUME TypeInv, BooksInv, Close PROVE BooksInv'
<1>1. CapacityBacked'
  <2>1. principalBasis' = 0 /\ lockedBalance' = 0
    BY DEF Close
  <2> QED BY <2>1, VaultAssumption DEF CapacityBacked, UsdcToPassRaw
<1>2. bal' = [bal EXCEPT !["usdc"] = Move(@, "vault", Owner, trackedUsdcBalance),
                         !["pass"] = Move(@, "locker", Owner, lockedBalance)]
  BY DEF Close
<1>3. /\ bal'["usdc"]["vault"] = bal["usdc"]["vault"] - trackedUsdcBalance
      /\ bal'["pass"]["locker"] = bal["pass"]["locker"] - lockedBalance
      /\ \A t \in StockTokens : bal'[t]["vault"] = bal[t]["vault"]
  BY <1>2 DEF Move, TypeInv, TypeOK, Tokens, Accounts, Owner, StockTokens
<1>4. Custody'
  <2>1. trackedUsdcBalance' = 0 /\ lockedBalance' = 0 /\ trackedPosition' = trackedPosition
    BY DEF Close
  <2>2. /\ trackedUsdcBalance \in Nat /\ lockedBalance \in Nat
        /\ bal["usdc"]["vault"] \in Nat /\ bal["pass"]["locker"] \in Nat
    BY DEF TypeInv, TypeOK, Tokens, Accounts
  <2> QED BY <1>3, <2>1, <2>2 DEF BooksInv, Custody
<1>5. LedgerIdentity'
  BY DEF Close, LedgerIdentity
<1> QED BY <1>1, <1>4, <1>5 DEF BooksInv

\* Transfers that take nothing out of the Vault or its locker.
LEMMA IncomingBooks ==
    ASSUME TypeInv, BooksInv, TypeInv', OnlyBalancesChange,
           \A t \in Tokens : bal'[t]["vault"] >= bal[t]["vault"],
           bal'["pass"]["locker"] >= bal["pass"]["locker"]
    PROVE  BooksInv'
<1>1. UNCHANGED <<principalBasis, trackedUsdcBalance, trackedPosition, closed, lockedBalance,
                  positionCostUsdc, realizedTradingPnl, profitPaid>>
  BY DEF OnlyBalancesChange
<1>2. CapacityBacked' /\ LedgerIdentity'
  BY <1>1 DEF BooksInv, CapacityBacked, LedgerIdentity, UsdcToPassRaw
<1>3. /\ bal'["usdc"]["vault"] >= bal["usdc"]["vault"]
      /\ \A t \in StockTokens : bal'[t]["vault"] >= bal[t]["vault"]
  BY DEF Tokens, StockTokens
<1>4. /\ trackedUsdcBalance \in Nat /\ lockedBalance \in Nat
      /\ \A t \in StockTokens : trackedPosition[t] \in Nat
      /\ \A t \in Tokens, x \in Accounts : bal[t][x] \in Nat
      /\ \A t \in Tokens, x \in Accounts : bal'[t][x] \in Nat
  BY DEF TypeInv, TypeOK
<1>5. Custody'
  <2>1. bal["usdc"]["vault"] \in Nat /\ bal'["usdc"]["vault"] \in Nat
    BY <1>4 DEF Tokens, Accounts
  <2>2. bal["pass"]["locker"] \in Nat /\ bal'["pass"]["locker"] \in Nat
    BY <1>4 DEF Tokens, Accounts
  <2>3. \A t \in StockTokens : bal[t]["vault"] \in Nat /\ bal'[t]["vault"] \in Nat
    BY <1>4 DEF Tokens, Accounts, StockTokens
  <2> QED BY <1>1, <1>3, <1>4, <2>1, <2>2, <2>3 DEF BooksInv, Custody
<1> QED BY <1>2, <1>5 DEF BooksInv

\* The rescues leave what is accounted for where it is.
LEMMA RescueBooks ==
    ASSUME TypeInv, BooksInv,
           RescueNative \/ \E t \in Tokens : RescueUntrackedToken(t)
    PROVE  BooksInv'
<1>1. CASE RescueNative
  <2>1. bal' = [bal EXCEPT !["native"] = Move(@, "vault", Owner, bal["native"]["vault"])]
    BY <1>1 DEF RescueNative
  <2>2. \A t \in Tokens \ {"native"} : bal'[t] = bal[t]
    BY <2>1 DEF TypeInv, TypeOK
  <2>3. /\ bal'["usdc"] = bal["usdc"] /\ bal'["pass"] = bal["pass"]
        /\ \A t \in StockTokens : bal'[t] = bal[t]
    BY <2>2 DEF Tokens, StockTokens
  <2>4. UNCHANGED <<principalBasis, trackedUsdcBalance, trackedPosition, closed, lockedBalance,
                    positionCostUsdc, realizedTradingPnl, profitPaid>>
    BY <1>1 DEF RescueNative
  <2> QED BY <2>3, <2>4 DEF BooksInv, CapacityBacked, Custody, LedgerIdentity, UsdcToPassRaw
<1>2. ASSUME NEW t \in Tokens, RescueUntrackedToken(t) PROVE BooksInv'
  <2> DEFINE reserved == ReservedTrackedBalance(t)
             lockerExcess == ExcessOver(bal["pass"]["locker"], reserved)
             vaultExcess == IF t = "pass" THEN bal[t]["vault"]
                            ELSE ExcessOver(bal[t]["vault"], reserved)
             first == IF t = "pass" THEN Move(bal[t], "locker", Owner, lockerExcess) ELSE bal[t]
             row == Move(first, "vault", Owner, vaultExcess)
  <2>1. bal' = [bal EXCEPT ![t] = row]
    BY <1>2 DEF RescueUntrackedToken
  <2>2. UNCHANGED <<principalBasis, trackedUsdcBalance, trackedPosition, closed, lockedBalance,
                    positionCostUsdc, realizedTradingPnl, profitPaid>>
    BY <1>2 DEF RescueUntrackedToken
  <2>3. CapacityBacked' /\ LedgerIdentity'
    BY <2>2 DEF BooksInv, CapacityBacked, LedgerIdentity, UsdcToPassRaw
  <2>4. bal \in [Tokens -> [Accounts -> Nat]] /\ reserved \in Nat
    BY DEF TypeInv, TypeOK, ReservedTrackedBalance, Tokens, StockTokens
  <2>5. CASE t = "pass"
    <3>1. reserved = lockedBalance /\ lockedBalance <= bal["pass"]["locker"]
      BY <2>5 DEF ReservedTrackedBalance, StockTokens, BooksInv, Custody, TypeInv, TypeOK, Tokens, Accounts
    <3>2. lockerExcess = bal["pass"]["locker"] - lockedBalance
      BY <2>4, <3>1 DEF ExcessOver, TypeInv, TypeOK, Tokens, Accounts
    <3>3. row["locker"] = lockedBalance
      <4>1. first["locker"] = bal["pass"]["locker"] - lockerExcess /\ first \in [Accounts -> Int]
        BY <2>4, <2>5, <3>1, <3>2 DEF Move, Tokens, Accounts, Owner, TypeInv, TypeOK
      <4> HIDE DEF first, lockerExcess, vaultExcess
      <4>2. row["locker"] = first["locker"]
        BY <4>1 DEF Move, Accounts, Owner
      <4>3. bal["pass"]["locker"] \in Nat /\ lockedBalance \in Nat
        BY DEF TypeInv, TypeOK, Tokens, Accounts
      <4> QED BY <3>2, <4>1, <4>2, <4>3
    <3> HIDE DEF row
    <3>4. bal'["pass"]["locker"] = lockedBalance
      BY <2>1, <2>4, <2>5, <3>3 DEF Tokens
    <3>5. /\ bal'["usdc"] = bal["usdc"]
          /\ \A u \in StockTokens : bal'[u] = bal[u]
      BY <2>1, <2>4, <2>5 DEF Tokens, StockTokens
    <3>6. Custody'
      BY <2>2, <3>4, <3>5 DEF BooksInv, Custody, TypeInv, TypeOK
    <3> QED BY <2>3, <3>6 DEF BooksInv
  <2>6. CASE t # "pass"
    <3>1. vaultExcess = ExcessOver(bal[t]["vault"], reserved) /\ first = bal[t]
      BY <2>6
    <3>2. bal[t]["vault"] - vaultExcess >= reserved \/ bal[t]["vault"] < reserved
      BY <2>4, <3>1 DEF ExcessOver, Accounts
    <3>3. row["vault"] = bal[t]["vault"] - vaultExcess
      <4> HIDE DEF vaultExcess, first
      <4> QED BY <2>4, <3>1 DEF Move, Accounts, Owner
    <3> HIDE DEF row, vaultExcess, first, reserved
    <3>4. bal'[t] = row /\ \A u \in Tokens \ {t} : bal'[u] = bal[u]
      BY <2>1, <2>4
    <3>5. bal'["pass"] = bal["pass"]
      BY <2>6, <3>4 DEF Tokens
    <3>6. bal'["usdc"]["vault"] >= trackedUsdcBalance
      <4>1. CASE t = "usdc"
        <5>1. reserved = trackedUsdcBalance
          BY <4>1 DEF reserved, ReservedTrackedBalance, StockTokens
        <5>2. bal["usdc"]["vault"] \in Nat /\ trackedUsdcBalance \in Nat
          BY DEF TypeInv, TypeOK, Tokens, Accounts
        <5> QED BY <3>2, <3>3, <3>4, <4>1, <5>1, <5>2 DEF BooksInv, Custody
      <4>2. CASE t # "usdc"
        BY <3>4, <4>2 DEF Tokens, BooksInv, Custody
      <4> QED BY <4>1, <4>2
    <3>7. \A u \in StockTokens : bal'[u]["vault"] >= trackedPosition[u]
      <4> SUFFICES ASSUME NEW u \in StockTokens PROVE bal'[u]["vault"] >= trackedPosition[u]
        OBVIOUS
      <4>0. bal[u]["vault"] \in Nat /\ trackedPosition[u] \in Nat /\ bal[u]["vault"] >= trackedPosition[u]
        BY DEF TypeInv, TypeOK, Tokens, Accounts, StockTokens, BooksInv, Custody
      <4>1. CASE t = u
        <5>1. reserved = trackedPosition[u]
          BY <4>1 DEF reserved, ReservedTrackedBalance, StockTokens
        <5> QED BY <3>2, <3>3, <3>4, <4>0, <4>1, <5>1
      <4>2. CASE t # u
        BY <3>4, <4>0, <4>2 DEF Tokens, StockTokens
      <4> QED BY <4>1, <4>2
    <3>8. Custody'
      BY <2>2, <3>5, <3>6, <3>7 DEF BooksInv, Custody
    <3> QED BY <2>3, <3>8 DEF BooksInv
  <2> QED BY <2>5, <2>6
<1> QED BY <1>1, <1>2

\* A buy turns cash into cost one for one.
LEMMA BuyBooks ==
    ASSUME TypeInv, BooksInv, NEW o \in inflight, ExecuteBuy(o) PROVE BooksInv'
<1> DEFINE out == SwapOutput(TRUE, o.input)
           previous == trackedPosition["target"]
<1>1. o.buy = TRUE /\ Executable(o)
  BY DEF ExecuteBuy, TypeInv, TypeOK, Orders
<1>2. /\ o.input \in Nat \ {0} /\ o.input <= trackedUsdcBalance
      /\ SwapGuard("vault", TRUE, o.input, o.minOut)
  BY <1>1, ExecutableFacts
<1>3. /\ out \in Nat \ {0}
      /\ bal'["usdc"]["vault"] = bal["usdc"]["vault"] - o.input
      /\ bal'["target"]["vault"] = bal["target"]["vault"] + out
      /\ \A t \in Tokens, a \in Accounts :
           t \notin {"usdc", "target"} \/ a \notin {"vault", "reserve"} => bal'[t][a] = bal[t][a]
  BY <1>2, SwapMoves DEF ExecuteBuy, InToken, OutToken
<1>4. bal'["pass"]["locker"] = bal["pass"]["locker"] /\ bal'["other"]["vault"] = bal["other"]["vault"]
  BY <1>3 DEF Tokens, Accounts
<1>5. /\ trackedUsdcBalance' = trackedUsdcBalance - o.input
      /\ positionCostUsdc' = positionCostUsdc + o.input
      /\ trackedPosition' = [trackedPosition EXCEPT !["target"] = previous + out]
      /\ UNCHANGED <<principalBasis, closed, lockedBalance, realizedTradingPnl, profitPaid>>
  BY DEF ExecuteBuy
<1> HIDE DEF out, previous
<1>6. trackedPosition'["target"] = previous + out /\ trackedPosition'["other"] = trackedPosition["other"]
  BY <1>5 DEF TypeInv, TypeOK, StockTokens
<1>7. CapacityBacked'
  BY <1>5 DEF BooksInv, CapacityBacked, UsdcToPassRaw
<1>8. LedgerIdentity'
  BY <1>2, <1>5 DEF BooksInv, LedgerIdentity, TypeInv, TypeOK
<1>9. /\ bal["usdc"]["vault"] \in Nat /\ bal["target"]["vault"] \in Nat
      /\ trackedUsdcBalance \in Nat /\ previous \in Nat
      /\ bal["usdc"]["vault"] >= trackedUsdcBalance /\ bal["target"]["vault"] >= previous
      /\ bal["other"]["vault"] >= trackedPosition["other"] /\ bal["pass"]["locker"] >= lockedBalance
  BY DEF TypeInv, TypeOK, Tokens, Accounts, StockTokens, BooksInv, Custody, previous
<1>10. Custody'
  BY <1>2, <1>3, <1>4, <1>5, <1>6, <1>9 DEF Custody, StockTokens
<1> QED BY <1>7, <1>8, <1>10 DEF BooksInv

\* A sale realises the difference between its output and the cost it takes out.
LEMMA SellBooks ==
    ASSUME TypeInv, BooksInv, NEW o \in inflight, ExecuteSell(o) PROVE BooksInv'
<1> DEFINE out == SwapOutput(FALSE, o.input)
           previous == trackedPosition["target"]
           exited == ExitedCost(o.input, previous)
<1>1. o.buy = FALSE /\ Executable(o)
  BY DEF ExecuteSell, TypeInv, TypeOK, Orders
<1>2. /\ o.input \in Nat \ {0} /\ o.input <= previous
      /\ SwapGuard("vault", FALSE, o.input, o.minOut)
  BY <1>1, ExecutableFacts
<1>3. /\ out \in Nat \ {0}
      /\ bal'["target"]["vault"] = bal["target"]["vault"] - o.input
      /\ bal'["usdc"]["vault"] = bal["usdc"]["vault"] + out
      /\ \A t \in Tokens, a \in Accounts :
           t \notin {"usdc", "target"} \/ a \notin {"vault", "reserve"} => bal'[t][a] = bal[t][a]
  BY <1>2, SwapMoves DEF ExecuteSell, InToken, OutToken
<1>4. bal'["pass"]["locker"] = bal["pass"]["locker"] /\ bal'["other"]["vault"] = bal["other"]["vault"]
  BY <1>3 DEF Tokens, Accounts
<1>5. /\ trackedUsdcBalance' = trackedUsdcBalance + out
      /\ positionCostUsdc' = positionCostUsdc - exited
      /\ realizedTradingPnl' = realizedTradingPnl + out - exited
      /\ trackedPosition' = [trackedPosition EXCEPT !["target"] = previous - o.input]
      /\ UNCHANGED <<principalBasis, closed, lockedBalance, profitPaid>>
  BY DEF ExecuteSell, PnlAfter
<1>6. exited \in Nat
  BY <1>2, ExitedCostBounds
<1> HIDE DEF out, previous, exited
<1>7. trackedPosition'["target"] = previous - o.input /\ trackedPosition'["other"] = trackedPosition["other"]
  BY <1>5 DEF TypeInv, TypeOK, StockTokens
<1>8. CapacityBacked'
  BY <1>5 DEF BooksInv, CapacityBacked, UsdcToPassRaw
<1>9. LedgerIdentity'
  <2>1. /\ trackedUsdcBalance \in Nat /\ positionCostUsdc \in Nat /\ principalBasis \in Nat
        /\ realizedTradingPnl \in Int /\ profitPaid \in Nat
    BY DEF TypeInv, TypeOK
  <2> QED BY <1>3, <1>5, <1>6, <2>1 DEF BooksInv, LedgerIdentity
<1>10. /\ bal["usdc"]["vault"] \in Nat /\ bal["target"]["vault"] \in Nat
       /\ trackedUsdcBalance \in Nat /\ previous \in Nat
       /\ bal["usdc"]["vault"] >= trackedUsdcBalance /\ bal["target"]["vault"] >= previous
       /\ bal["other"]["vault"] >= trackedPosition["other"] /\ bal["pass"]["locker"] >= lockedBalance
  BY DEF TypeInv, TypeOK, Tokens, Accounts, StockTokens, BooksInv, Custody, previous
<1>11. Custody'
  BY <1>2, <1>3, <1>4, <1>5, <1>7, <1>10 DEF Custody, StockTokens
<1> QED BY <1>8, <1>9, <1>11 DEF BooksInv

\* A transfer from outside the Vault and its locker only adds to them.
LEMMA TransferIncoming ==
    ASSUME TypeInv, NEW token \in Tokens, NEW from \in Accounts, NEW to \in Accounts,
           from # to, from \notin {"vault", "locker"}, NEW amount \in Nat,
           bal' = [bal EXCEPT ![token] = Move(@, from, to, amount)]
    PROVE  /\ \A t \in Tokens : bal'[t]["vault"] >= bal[t]["vault"]
           /\ bal'["pass"]["locker"] >= bal["pass"]["locker"]
<1> DEFINE row == Move(bal[token], from, to, amount)
<1>1. bal \in [Tokens -> [Accounts -> Nat]]
  BY DEF TypeInv, TypeOK
<1>2. row["vault"] >= bal[token]["vault"] /\ row["locker"] >= bal[token]["locker"]
  BY <1>1 DEF Move, Accounts
<1> HIDE DEF row
<1>3. bal'[token] = row /\ \A t \in Tokens \ {token} : bal'[t] = bal[t]
  BY <1>1 DEF row
<1>4. \A t \in Tokens : bal[t]["vault"] \in Nat /\ bal[t]["locker"] \in Nat
  BY <1>1 DEF Accounts
<1> QED BY <1>2, <1>3, <1>4 DEF Tokens

\* Nothing the others do takes from the Vault or its locker.
LEMMA EnvironmentBooks == ASSUME TypeInv, BooksInv, EnvironmentStep PROVE BooksInv'
<1> USE VaultAssumption
<1>0. TypeInv'
  BY EnvironmentTypes
<1>1. ASSUME NEW p \in BOOLEAN, SetPaused(p) PROVE BooksInv'
  BY <1>1, BooksUntouched DEF SetPaused
<1>2. ASSUME NEW t \in {"usdc", "target"}, NEW a \in OutsideAmounts, FundReserve(t, a)
      PROVE  BooksInv'
  BY <1>0, <1>2, TransferIncoming, IncomingBooks DEF FundReserve, Tokens, Accounts
<1>3. ASSUME NEW t \in {"usdc", "target"}, NEW a \in OutsideAmounts, WithdrawReserve(t, a)
      PROVE  BooksInv'
  BY <1>0, <1>3, TransferIncoming, IncomingBooks DEF WithdrawReserve, Tokens, Accounts
<1>4. ASSUME NEW b \in BOOLEAN, NEW a \in OutsideAmounts, NEW m \in MinOuts, TraderSwap(b, a, m)
      PROVE  BooksInv'
  <2>1. \A t \in Tokens, x \in Accounts :
          t \notin {"usdc", "target"} \/ x \notin {"others", "reserve"} => bal'[t][x] = bal[t][x]
    BY <1>4, SwapMoves DEF TraderSwap
  <2>2. /\ \A t \in Tokens : bal'[t]["vault"] = bal[t]["vault"]
        /\ bal'["pass"]["locker"] = bal["pass"]["locker"]
    BY <2>1 DEF Tokens, Accounts
  <2>3. \A t \in Tokens : bal[t]["vault"] \in Nat /\ bal[t]["locker"] \in Nat
    BY DEF TypeInv, TypeOK, Accounts
  <2>4. /\ \A t \in Tokens : bal'[t]["vault"] >= bal[t]["vault"]
        /\ bal'["pass"]["locker"] >= bal["pass"]["locker"]
    BY <2>2, <2>3 DEF Tokens
  <2>5. OnlyBalancesChange
    BY <1>4 DEF TraderSwap
  <2> QED BY <1>0, <2>4, <2>5, IncomingBooks
<1>5. ASSUME NEW t \in Tokens, NEW to \in {"vault", "locker"}, NEW a \in OutsideAmounts,
             Donate(t, to, a)
      PROVE  BooksInv'
  BY <1>0, <1>5, TransferIncoming, IncomingBooks DEF Donate, Accounts
<1> QED BY <1>1, <1>2, <1>3, <1>4, <1>5 DEF EnvironmentStep

\* The books of a new Vault are empty.
LEMMA InitBooks == Init => BooksInv
<1> SUFFICES ASSUME Init PROVE BooksInv
  OBVIOUS
<1>1. CapacityBacked /\ LedgerIdentity
  BY VaultAssumption DEF Init, CapacityBacked, LedgerIdentity, UsdcToPassRaw
<1>2. \A t \in Tokens, a \in Accounts : bal[t][a] >= 0
  BY VaultAssumption DEF Init
<1>3. \A t \in StockTokens : trackedPosition[t] = 0
  BY DEF Init
<1>4. trackedUsdcBalance = 0 /\ lockedBalance = 0
  BY DEF Init
<1>5. Custody
  BY <1>2, <1>3, <1>4 DEF Custody, Tokens, Accounts, StockTokens
<1> QED BY <1>1, <1>5 DEF BooksInv

\* Every step keeps the books.
LEMMA NextBooks == TypeInv /\ BooksInv /\ [Next]_vars => BooksInv'
<1> SUFFICES ASSUME TypeInv, BooksInv, [Next]_vars PROVE BooksInv'
  OBVIOUS
<1>1. CASE FeedStep
  BY <1>1, BooksUntouched DEF FeedStep, vaultVars
<1>2. CASE OwnerStep
  <2>1. ASSUME RevokeExecutor \/ \E g \in Grants : ConfigureExecutor(g) PROVE BooksInv'
    BY <2>1, BooksUntouched DEF RevokeExecutor, ConfigureExecutor
  <2> QED BY <1>2, <2>1, DepositBooks, WithdrawBooks, CloseBooks, RescueBooks DEF OwnerStep
<1>3. CASE OrderStep
  <2>1. ASSUME NEW c, NEW b, NEW i, NEW m, NEW d, SignOrder(c, b, i, m, d) PROVE BooksInv'
    BY <2>1, BooksUntouched DEF SignOrder
  <2>2. ASSUME NEW o \in inflight, DropOrder(o) PROVE BooksInv'
    BY <2>2, BooksUntouched DEF DropOrder
  <2> QED BY <1>3, <2>1, <2>2, BuyBooks, SellBooks DEF OrderStep
<1>4. CASE EnvironmentStep
  BY <1>4, EnvironmentBooks
<1>5. CASE UNCHANGED vars
  BY <1>5, BooksUntouched DEF vars, vaultVars
<1> QED BY <1>1, <1>2, <1>3, <1>4, <1>5 DEF Next

\* The books hold in every reachable state.
LEMMA BooksInvariance == Spec => []BooksInv
BY TypeInvariance, InitBooks, NextBooks, PTL DEF Spec

\* No principal without its PASS and no PASS held back, in every order of
\* deposits, partial withdrawals and close.
THEOREM CapacityCorrect == Spec => []CapacityBacked
<1>1. BooksInv => CapacityBacked
  BY DEF BooksInv
<1> QED BY <1>1, BooksInvariance, PTL

\* What the Vault and its locker account for is always in their balances,
\* whatever strangers transfer and whatever the rescue functions move.
THEOREM CustodyCorrect == Spec => []Custody
<1>1. BooksInv => Custody
  BY DEF BooksInv
<1> QED BY <1>1, BooksInvariance, PTL

\* Cash and cost are principal and realised result less the profit paid out.
THEOREM LedgerCorrect == Spec => []LedgerIdentity
<1>1. BooksInv => LedgerIdentity
  BY DEF BooksInv
<1> QED BY <1>1, BooksInvariance, PTL

\* A withdrawal that pays profit out while a position is open pays only what
\* trading realised beyond the cost still invested.
THEOREM ProfitCorrect == Spec => ProfitOnlyFromRealizedGain
<1> DEFINE Paid == profitPaid' > profitPaid => profitPaid' + positionCostUsdc <= realizedTradingPnl
<1>1. TypeInv /\ BooksInv /\ [Next]_vars => [Paid]_vars
  <2> SUFFICES ASSUME TypeInv, BooksInv, [Next]_vars PROVE Paid
    OBVIOUS
  <2>0. profitPaid \in Nat
    BY DEF TypeInv, TypeOK
  <2>1. ASSUME NEW a \in Amounts, Withdraw(a) PROVE Paid
    <3> DEFINE profitAmount == IF a < RealizedProfit THEN a ELSE RealizedProfit
    <3>1. profitPaid' = profitPaid + profitAmount /\ ~closed
      BY <2>1 DEF Withdraw
    <3>2. /\ trackedUsdcBalance \in Nat /\ positionCostUsdc \in Nat /\ principalBasis \in Nat
          /\ realizedTradingPnl \in Int /\ a \in Nat
      BY VaultAssumption DEF TypeInv, TypeOK
    <3>3. profitAmount \in Nat
      BY <3>2 DEF RealizedProfit
    <3>4. trackedUsdcBalance + positionCostUsdc = principalBasis + realizedTradingPnl - profitPaid
      BY <3>1 DEF BooksInv, LedgerIdentity
    <3>5. profitAmount # 0 => profitAmount <= trackedUsdcBalance - principalBasis
      BY <3>2 DEF RealizedProfit
    <3> HIDE DEF profitAmount
    <3> QED BY <2>0, <3>1, <3>2, <3>3, <3>4, <3>5
  <2>2. CASE profitPaid' = profitPaid
    BY <2>0, <2>2
  <2>3. (\E a \in Amounts : Withdraw(a)) \/ profitPaid' = profitPaid
    BY DEF Next, FeedStep, OwnerStep, OrderStep, EnvironmentStep, Deposit, Close,
           RescueUntrackedToken, RescueNative, ConfigureExecutor, RevokeExecutor, SignOrder,
           DropOrder, ExecuteBuy, ExecuteSell, SetPaused, FundReserve, WithdrawReserve,
           TraderSwap, Donate, OnlyBalancesChange, vars, vaultVars
  <2> QED BY <2>1, <2>2, <2>3
<1> QED BY <1>1, TypeInvariance, BooksInvariance, PTL DEF Spec, ProfitOnlyFromRealizedGain

----------------------------------------------------------------------------
(* Orders in flight and the executor's budget *)

\* An order was signed at the current version or before.  One that ran did so at
\* an earlier version, and one signed at the current version saw the grant that is
\* in force: every change of the grant and every execution moves the version on.
OrderInv ==
    \A o \in inflight :
        /\ o.version <= executionVersion
        /\ o.runs <= 1
        /\ o.runs # 0 => o.version < executionVersion
        /\ o.version = executionVersion => o.sawGrant = grant

\* No order is in flight both before and after its run.
After(o) == [o EXCEPT !.runs = @ + 1]

NoTwins == \A o \in inflight : After(o) \notin inflight

\* What a run changes in an order, and that it can be undone.
LEMMA AfterFacts ==
    ASSUME NEW o \in Orders
    PROVE  /\ After(o) \in Orders
           /\ After(o).runs = o.runs + 1 /\ o.runs \in Nat
           /\ After(o).version = o.version /\ After(o).sawGrant = o.sawGrant
BY DEF After, Orders

\* Two orders that are the same after a run were the same before it.
LEMMA AfterInjective ==
    ASSUME NEW o \in Orders, NEW q \in Orders, After(o) = After(q)
    PROVE  o = q
<1>1. \A r \in Orders :
        /\ After(r).caller = r.caller /\ After(r).buy = r.buy /\ After(r).input = r.input
        /\ After(r).minOut = r.minOut /\ After(r).deadline = r.deadline
        /\ After(r).version = r.version /\ After(r).sawGrant = r.sawGrant
        /\ After(r).runs = r.runs + 1 /\ r.runs \in Nat
  BY DEF After, Orders
<1>2. /\ o.caller = q.caller /\ o.buy = q.buy /\ o.input = q.input /\ o.minOut = q.minOut
      /\ o.deadline = q.deadline /\ o.version = q.version /\ o.sawGrant = q.sawGrant
      /\ o.runs = q.runs
  BY <1>1
<1> QED BY <1>2 DEF Orders

BudgetInv ==
    /\ executorSpent <= totalBuyUsdc
    /\ ExecutorBudget

ControlInv == OrderInv /\ NoTwins /\ BudgetInv

\* Steps that touch neither orders nor grant.
LEMMA ControlUntouched ==
    ASSUME ControlInv,
           UNCHANGED <<inflight, executionVersion, grant, totalBuyUsdc, executorSpent>>
    PROVE  ControlInv'
BY DEF ControlInv, OrderInv, NoTwins, BudgetInv, ExecutorBudget

\* A change of the grant puts every order in flight behind the version.
LEMMA GrantControl ==
    ASSUME TypeInv, ControlInv, RevokeExecutor \/ \E g \in Grants : ConfigureExecutor(g)
    PROVE  ControlInv'
<1>1. /\ inflight' = inflight /\ executionVersion' = executionVersion + 1 /\ executorSpent' = 0
      /\ totalBuyUsdc' \in {0, totalBuyUsdc} /\ grant' \in Grants \cup {NoGrant}
  BY DEF RevokeExecutor, ConfigureExecutor
<1>2. \A o \in inflight : o.version \in Nat /\ o.runs \in Nat
  BY DEF TypeInv, TypeOK, Orders
<1>3. executionVersion \in Nat /\ totalBuyUsdc \in Nat
  BY DEF TypeInv, TypeOK
<1>4. OrderInv'
  BY <1>1, <1>2, <1>3 DEF ControlInv, OrderInv
<1>5. NoTwins'
  BY <1>1 DEF ControlInv, NoTwins
<1>6. BudgetInv'
  <2>1. executorSpent' <= totalBuyUsdc'
    BY <1>1, <1>3
  <2>2. ASSUME grant' # NoGrant PROVE executorSpent' <= grant'.maxTotalBuyUsdc
    <3>1. grant' \in Grants
      BY <1>1, <2>2
    <3>2. grant'.maxTotalBuyUsdc \in Nat
      BY <3>1, VaultAssumption DEF GrantType
    <3> QED BY <1>1, <3>2
  <2> QED BY <2>1, <2>2 DEF BudgetInv, ExecutorBudget
<1> QED BY <1>4, <1>5, <1>6 DEF ControlInv

\* A new order saw the grant in force and has not run.
LEMMA SignControl ==
    ASSUME TypeInv, ControlInv,
           NEW c \in Callers, NEW b \in BOOLEAN, NEW i \in Nat, NEW m \in MinOuts,
           NEW d \in Deadlines, SignOrder(c, b, i, m, d)
    PROVE  ControlInv'
<1> DEFINE signed == [caller |-> c, buy |-> b, input |-> i, minOut |-> m, deadline |-> d,
                      version |-> executionVersion, sawGrant |-> grant, runs |-> 0]
<1>1. /\ inflight' = inflight \cup {signed}
      /\ UNCHANGED <<executionVersion, grant, totalBuyUsdc, executorSpent>>
  BY DEF SignOrder
<1>2. executionVersion \in Nat
  BY DEF TypeInv, TypeOK
<1>3. /\ signed.version = executionVersion /\ signed.runs = 0 /\ signed.sawGrant = grant
      /\ After(signed).version = executionVersion /\ After(signed).runs = 1
  BY DEF After
<1> HIDE DEF signed
<1>4. OrderInv'
  BY <1>1, <1>2, <1>3 DEF ControlInv, OrderInv
<1>5. NoTwins'
  <2>1. After(signed) \notin inflight'
    <3>1. After(signed) # signed
      BY <1>3
    <3>2. After(signed) \notin inflight
      BY <1>2, <1>3 DEF ControlInv, OrderInv
    <3> QED BY <1>1, <3>1, <3>2
  <2>2. \A o \in inflight : After(o) # signed
    BY <1>3, AfterFacts DEF TypeInv, TypeOK
  <2>3. \A o \in inflight : After(o) \notin inflight
    BY DEF ControlInv, NoTwins
  <2>4. \A o \in inflight' : After(o) \notin inflight'
    BY <1>1, <2>1, <2>2, <2>3
  <2> QED BY <2>4 DEF NoTwins
<1>6. BudgetInv'
  BY <1>1 DEF ControlInv, BudgetInv, ExecutorBudget
<1> QED BY <1>4, <1>5, <1>6 DEF ControlInv

\* Dropping an order keeps what holds of the others.
LEMMA DropControl ==
    ASSUME ControlInv, NEW o \in inflight, DropOrder(o) PROVE ControlInv'
<1>1. /\ inflight' \subseteq inflight
      /\ UNCHANGED <<executionVersion, grant, totalBuyUsdc, executorSpent>>
  BY DEF DropOrder
<1> QED BY <1>1 DEF ControlInv, OrderInv, NoTwins, BudgetInv, ExecutorBudget

\* A run moves the order out of reach of the current version.
LEMMA RanControl ==
    ASSUME TypeInv, OrderInv, NoTwins, NEW o \in inflight, Ran(o), CurrentVersion(o),
           executionVersion' = executionVersion + 1, grant' = grant
    PROVE  OrderInv' /\ NoTwins'
<1> DEFINE done == After(o)
<1>1. \A q \in inflight : q \in Orders /\ q.version \in Nat /\ q.runs \in Nat
  BY DEF TypeInv, TypeOK, Orders
<1>2. executionVersion \in Nat
  BY DEF TypeInv, TypeOK
<1>3. o.version = executionVersion /\ o.runs = 0
  BY <1>1, <1>2 DEF CurrentVersion, OrderInv
<1>4. done \in Orders /\ done.runs = 1 /\ done.version = executionVersion
  BY <1>1, <1>3, AfterFacts
<1>5. inflight' = (inflight \ {o}) \cup {done}
  BY DEF Ran, After
<1>6. \A q \in inflight : After(q) = done => q = o
  BY <1>1, AfterInjective
<1>7. After(done).runs = 2
  BY <1>4, AfterFacts
<1> HIDE DEF done
<1>8. OrderInv'
  BY <1>1, <1>2, <1>4, <1>5 DEF OrderInv
<1>9. NoTwins'
  <2>1. After(done) \notin inflight'
    BY <1>4, <1>5, <1>7 DEF OrderInv
  <2>2. \A q \in inflight \ {o} : After(q) # done /\ After(q) \notin inflight
    BY <1>6 DEF NoTwins
  <2>3. \A q \in inflight' : After(q) \notin inflight'
    BY <1>5, <2>1, <2>2
  <2> QED BY <2>3 DEF NoTwins
<1> QED BY <1>8, <1>9

\* A buy runs its order once and is charged to the budget it was checked against.
LEMMA BuyControl ==
    ASSUME TypeInv, ControlInv, NEW o \in inflight, ExecuteBuy(o) PROVE ControlInv'
<1>1. /\ Executable(o) /\ Ran(o) /\ executionVersion' = executionVersion + 1 /\ grant' = grant
      /\ totalBuyUsdc' = totalBuyUsdc + o.input
      /\ executorSpent' = IF o.caller = Owner THEN executorSpent ELSE executorSpent + o.input
      /\ o.buy
  BY DEF ExecuteBuy
<1>2. OrderInv' /\ NoTwins'
  BY <1>1, RanControl DEF Executable, ControlInv
<1>3. o.input \in Nat /\ totalBuyUsdc \in Nat /\ executorSpent \in Nat
  BY <1>1, ExecutableFacts DEF TypeInv, TypeOK
<1>4. o.caller # Owner => totalBuyUsdc + o.input <= grant.maxTotalBuyUsdc
  BY <1>1 DEF Executable, WithinGrant
<1>5. grant # NoGrant => grant.maxTotalBuyUsdc \in Nat
  BY VaultAssumption DEF TypeInv, TypeOK, GrantType
<1>6. BudgetInv'
  BY <1>1, <1>3, <1>4, <1>5 DEF ControlInv, BudgetInv, ExecutorBudget
<1> QED BY <1>2, <1>6 DEF ControlInv

\* A sale runs its order once and charges no budget.
LEMMA SellControl ==
    ASSUME TypeInv, ControlInv, NEW o \in inflight, ExecuteSell(o) PROVE ControlInv'
<1>1. /\ Executable(o) /\ Ran(o) /\ executionVersion' = executionVersion + 1
      /\ UNCHANGED <<grant, totalBuyUsdc, executorSpent>>
  BY DEF ExecuteSell
<1>2. OrderInv' /\ NoTwins'
  BY <1>1, RanControl DEF Executable, ControlInv
<1>3. BudgetInv'
  BY <1>1 DEF ControlInv, BudgetInv, ExecutorBudget
<1> QED BY <1>2, <1>3 DEF ControlInv

\* A new Vault has no order and no grant.
LEMMA InitControl == Init => ControlInv
BY DEF Init, ControlInv, OrderInv, NoTwins, BudgetInv, ExecutorBudget

\* Every step keeps orders and budget.
LEMMA NextControl == TypeInv /\ ControlInv /\ [Next]_vars => ControlInv'
<1> SUFFICES ASSUME TypeInv, ControlInv, [Next]_vars PROVE ControlInv'
  OBVIOUS
<1>1. CASE FeedStep
  BY <1>1, ControlUntouched DEF FeedStep, vaultVars
<1>2. CASE OwnerStep
  <2>1. ASSUME \/ \E a \in Amounts : Deposit(a) \/ Withdraw(a)
               \/ Close \/ RescueNative
               \/ \E t \in Tokens : RescueUntrackedToken(t)
        PROVE  ControlInv'
    BY <2>1, ControlUntouched DEF Deposit, Withdraw, Close, RescueNative, RescueUntrackedToken
  <2> QED BY <1>2, <2>1, GrantControl DEF OwnerStep
<1>3. CASE OrderStep
  <2>1. ASSUME NEW c \in Callers, NEW b \in BOOLEAN, NEW m \in MinOuts, NEW d \in Deadlines,
               NEW i \in IF b THEN Amounts ELSE Units, SignOrder(c, b, i, m, d)
        PROVE  ControlInv'
    <3>1. i \in Nat
      BY VaultAssumption
    <3> QED BY <2>1, <3>1, SignControl
  <2> QED BY <1>3, <2>1, DropControl, BuyControl, SellControl DEF OrderStep
<1>4. CASE EnvironmentStep
  BY <1>4, ControlUntouched
     DEF EnvironmentStep, SetPaused, FundReserve, WithdrawReserve, TraderSwap, Donate,
         OnlyBalancesChange
<1>5. CASE UNCHANGED vars
  BY <1>5, ControlUntouched DEF vars, vaultVars
<1> QED BY <1>1, <1>2, <1>3, <1>4, <1>5 DEF Next

\* Orders and budget hold in every reachable state.
LEMMA ControlInvariance == Spec => []ControlInv
BY TypeInvariance, InitControl, NextControl, PTL DEF Spec

\* However often an execute call is broadcast, it takes effect at most once
\* (the version check of _validateExecution and the increment of execute).
THEOREM OrderOnceCorrect == Spec => []OrderRunsOnce
<1>1. ControlInv => OrderRunsOnce
  BY DEF ControlInv, OrderInv, OrderRunsOnce
<1> QED BY <1>1, ControlInvariance, PTL

\* What the executor buys under one grant stays within that grant's
\* maxTotalBuyUsdc, although the owner's own buys share its counter.
THEOREM BudgetCorrect == Spec => []ExecutorBudget
<1>1. ControlInv => ExecutorBudget
  BY DEF ControlInv, BudgetInv
<1> QED BY <1>1, ControlInvariance, PTL

\* A call takes effect only under the grant its signer saw.
THEOREM StaleOrderCorrect == Spec => StaleOrderNeverRuns
<1> DEFINE Fresh == \A o \in inflight :
                      [o EXCEPT !.runs = @ + 1] \in inflight' => o.sawGrant = grant
<1>1. TypeInv /\ ControlInv /\ [Next]_vars => [Fresh]_vars
  <2> SUFFICES ASSUME TypeInv, ControlInv, Next,
                      NEW o \in inflight, [o EXCEPT !.runs = @ + 1] \in inflight'
               PROVE  o.sawGrant = grant
    OBVIOUS
  <2>1. After(o) \notin inflight /\ After(o) \in inflight'
    BY DEF ControlInv, NoTwins, After
  <2>2. o \in Orders
    BY DEF TypeInv, TypeOK
  <2>3. ASSUME NEW q \in inflight, ExecuteBuy(q) \/ ExecuteSell(q)
        PROVE  o.sawGrant = grant
    <3>1. Ran(q) /\ CurrentVersion(q)
      <4>1. CASE ExecuteBuy(q)
        BY <4>1 DEF ExecuteBuy, Executable
      <4>2. CASE ExecuteSell(q)
        BY <4>2 DEF ExecuteSell, Executable
      <4> QED BY <2>3, <4>1, <4>2
    <3>2. inflight' = (inflight \ {q}) \cup {After(q)}
      BY <3>1 DEF Ran, After
    <3>3. After(o) = After(q)
      BY <2>1, <3>2
    <3>4. o = q
      BY <2>2, <3>3, AfterInjective DEF TypeInv, TypeOK
    <3> QED BY <3>1, <3>4 DEF ControlInv, OrderInv, CurrentVersion
  <2>4. ASSUME NEW c, NEW b, NEW i, NEW m, NEW d, SignOrder(c, b, i, m, d) PROVE FALSE
    <3> DEFINE signed == [caller |-> c, buy |-> b, input |-> i, minOut |-> m, deadline |-> d,
                          version |-> executionVersion, sawGrant |-> grant, runs |-> 0]
    <3>1. inflight' = inflight \cup {signed} /\ signed.runs = 0
      BY <2>4 DEF SignOrder
    <3> HIDE DEF signed
    <3>2. After(o) = signed
      BY <2>1, <3>1
    <3>3. After(o).runs = o.runs + 1 /\ o.runs \in Nat
      BY <2>2, AfterFacts
    <3> QED BY <3>1, <3>2, <3>3
  <2>5. \/ \E q \in inflight : ExecuteBuy(q) \/ ExecuteSell(q)
        \/ \E c, b, i, m, d : SignOrder(c, b, i, m, d)
        \/ inflight' \subseteq inflight
    BY DEF Next, FeedStep, OwnerStep, OrderStep, EnvironmentStep, Deposit, Withdraw, Close,
           RescueUntrackedToken, RescueNative, ConfigureExecutor, RevokeExecutor,
           DropOrder, SetPaused, FundReserve, WithdrawReserve,
           TraderSwap, Donate, OnlyBalancesChange, vaultVars
  <2> QED BY <2>1, <2>3, <2>4, <2>5
<1> QED BY <1>1, TypeInvariance, ControlInvariance, PTL DEF Spec, StaleOrderNeverRuns

\* The books balance after every call, for every amount, price and grant: the
\* conjunction of the three invariants above.
THEOREM BooksCorrect == Spec => []BooksBalance
<1>1. CapacityBacked /\ PositionBooks /\ LedgerIdentity => BooksBalance
  BY DEF BooksBalance
<1> QED BY <1>1, CapacityCorrect, PositionBooksCorrect, LedgerCorrect, PTL

\* However often a signed execute call is included, and whatever grants are
\* made and revoked before it is, it takes effect once and under its own grant.
THEOREM OrdersCorrect == Spec => OrdersHonoured
  BY OrderOnceCorrect, StaleOrderCorrect, PTL DEF OrdersHonoured
=============================================================================
