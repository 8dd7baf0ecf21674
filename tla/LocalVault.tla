----------------------------- MODULE LocalVault -----------------------------
(***************************************************************************)
(* The simulator's vault (packages/domain/src/vault.ts) behind its store   *)
(* (apps/server/src/store.ts).  Every command is one transaction.  A       *)
(* command that is sent again, or was made for another revision, changes   *)
(* nothing, so commands carry neither id nor revision here.  execute ends  *)
(* with assertInvariant; the model leaves that last check out and states   *)
(* it as a property: the guards alone keep it.                             *)
(***************************************************************************)
EXTENDS Integers, FiniteSets, Functions

CONSTANTS
    Cash,          \* amounts a command may name
    Prices,        \* values a position may be marked at or settled for
    OrderIds, WithdrawalIds,
    Allowance,     \* passes, in units of cash
    HistoryLimit   \* the most events a vault has

ASSUME LocalAssumption == Cash \subseteq Nat \ {0} /\ Prices \subseteq Nat /\ Allowance \in Nat /\ HistoryLimit \in Nat

VARIABLES
    vault,   \* VaultState; an order or withdrawal of 0 does not exist
    botActive  \* an active row of automata_runs names the vault

localVaultVars == <<vault, botActive>>

NoLock == [on |-> FALSE, closed |-> FALSE, principal |-> 0, split |-> [w \in WithdrawalIds |-> [profit |-> 0, principal |-> 0]]]

createVault(lock) ==
    [revision |-> 0, status |-> "stopped", idle |-> 0, activeCash |-> 0, positionCost |-> 0, positionValue |-> 0,
     feeLiability |-> 0, deposits |-> 0, withdrawalsPaid |-> 0, realizedPnl |-> 0, feesAccrued |-> 0, feesPaid |-> 0,
     orders |-> [o \in OrderIds |-> 0], pending |-> [w \in WithdrawalIds |-> 0], lock |-> lock]

----------------------------------------------------------------------------
(* Accounting *)

Total(amounts) == FoldFunction(LAMBDA a, b : a + b, 0, amounts)
Ordered(v) == Total(v.orders)
Pending(v) == Total(v.pending)
ActiveNet(v) == v.activeCash + Ordered(v) + v.positionValue - v.feeLiability
Equity(v) == v.idle + ActiveNet(v) + Pending(v)
Available(v) == v.activeCash - v.feeLiability

ReservedProfit(v) == Total([w \in WithdrawalIds |-> v.lock.split[w].profit])
ReservedPrincipal(v) == Total([w \in WithdrawalIds |-> v.lock.split[w].principal])
NoOpen(v) == v.positionCost = 0 /\ v.positionValue = 0 /\ Ordered(v) = 0

\* passAccounting: what cash there is beyond the principal; positions and orders do not count.
AvailableProfit(v) ==
    LET cash == v.idle + v.activeCash + Pending(v) - v.feeLiability
        owed == v.lock.principal + ReservedProfit(v)
    IN IF cash > owed THEN cash - owed ELSE 0

----------------------------------------------------------------------------
(* execute: one operator per command, [ok, v] *)

Turned == [ok |-> FALSE]
Edit(guard, v) == IF guard THEN [ok |-> TRUE, v |-> v] ELSE Turned

Deposit(v, amount) ==
    Edit(v.lock.on => amount <= Allowance - v.lock.principal,
         [v EXCEPT !.idle = @ + amount, !.deposits = @ + amount, !.lock.principal = IF v.lock.on THEN @ + amount ELSE @])

Allocate(v, amount) ==
    Edit(amount <= v.idle /\ ActiveNet(v) + amount <= Allowance,
         [v EXCEPT !.idle = @ - amount, !.activeCash = @ + amount])

Deallocate(v, amount) ==
    Edit(amount <= Available(v), [v EXCEPT !.idle = @ + amount, !.activeCash = @ - amount])

\* The part of a withdrawal that is profit comes first; the rest unlocks principal.
Split(v, amount) ==
    LET profit == IF amount < AvailableProfit(v) THEN amount ELSE AvailableProfit(v)
    IN [profit |-> profit, principal |-> amount - profit]

RequestWithdrawal(v, w, amount) ==
    LET split == Split(v, amount) IN
    Edit(/\ amount <= v.idle /\ v.pending[w] = 0
         /\ v.lock.on => split.principal <= v.lock.principal - ReservedPrincipal(v) /\ (split.principal > 0 => NoOpen(v)),
         [v EXCEPT !.idle = @ - amount, !.pending[w] = amount, !.lock.split[w] = IF v.lock.on THEN split ELSE @])

Dropped(v, w) == [v EXCEPT !.pending[w] = 0, !.lock.split[w] = [profit |-> 0, principal |-> 0]]

ConfirmWithdrawal(v, w) ==
    LET principal == v.lock.split[w].principal IN
    Edit(v.pending[w] > 0 /\ (principal > 0 => NoOpen(v)),
         [Dropped(v, w) EXCEPT !.withdrawalsPaid = @ + v.pending[w], !.lock.principal = @ - principal])

CancelWithdrawal(v, w) == Edit(v.pending[w] > 0, [Dropped(v, w) EXCEPT !.idle = @ + v.pending[w]])

Start(v) == Edit(ActiveNet(v) > 0 /\ v.status = "stopped", [v EXCEPT !.status = "running"])

StopVault(v) == Edit(TRUE, [v EXCEPT !.status = IF v.positionCost > 0 \/ Ordered(v) > 0 THEN "stopping" ELSE "stopped"])

ReserveBuy(v, o, amount) ==
    Edit(v.status = "running" /\ v.orders[o] = 0 /\ amount <= Available(v),
         [v EXCEPT !.activeCash = @ - amount, !.orders[o] = amount])

CancelOrder(v, o) == Edit(v.orders[o] > 0, [v EXCEPT !.activeCash = @ + v.orders[o], !.orders[o] = 0])

FillBuy(v, o) ==
    Edit(v.orders[o] > 0,
         [v EXCEPT !.positionCost = @ + v.orders[o], !.positionValue = @ + v.orders[o], !.orders[o] = 0])

MarkPosition(v, value) == Edit(v.positionCost > 0, [v EXCEPT !.positionValue = value])

\* The policy chooses the fee and what goes back to idle; its answer is checked.
SettlePosition(v, proceeds, fee, excess) ==
    LET gain == IF proceeds > v.positionCost THEN proceeds - v.positionCost ELSE 0 IN
    Edit(/\ v.positionCost > 0 /\ Ordered(v) = 0
         /\ fee <= gain /\ excess <= v.activeCash + proceeds - v.feeLiability - fee,
         [v EXCEPT !.activeCash = @ + proceeds - excess, !.idle = @ + excess, !.feeLiability = @ + fee, !.feesAccrued = @ + fee,
                   !.realizedPnl = @ + proceeds - v.positionCost, !.positionCost = 0, !.positionValue = 0])

PayFees(v, amount) ==
    Edit(amount <= v.feeLiability,
         [v EXCEPT !.feeLiability = @ - amount, !.activeCash = @ - amount, !.feesPaid = @ + amount])

EnablePassLocking(v) ==
    Edit(/\ ~v.lock.on /\ v.status = "stopped" /\ v.withdrawalsPaid = 0 /\ Pending(v) = 0
         /\ NoOpen(v) /\ v.feeLiability = 0 /\ v.deposits <= Allowance,
         [v EXCEPT !.lock = [NoLock EXCEPT !.on = TRUE, !.principal = v.deposits]])

CloseVault(v) ==
    Edit(v.lock.on /\ v.status = "stopped" /\ NoOpen(v) /\ Pending(v) = 0 /\ v.feeLiability = 0,
         [v EXCEPT !.withdrawalsPaid = @ + v.idle + v.activeCash, !.idle = 0, !.activeCash = 0,
                   !.lock = [NoLock EXCEPT !.on = TRUE, !.closed = TRUE]])

\* What the owner does with the idle side, allowed beside a bot.
IdleCommands(v) ==
    {Deposit(v, a) : a \in Cash} \cup {RequestWithdrawal(v, w, a) : w \in WithdrawalIds, a \in Cash}
    \cup {ConfirmWithdrawal(v, w) : w \in WithdrawalIds} \cup {CancelWithdrawal(v, w) : w \in WithdrawalIds}

ActiveCommands(v) ==
    {Allocate(v, a) : a \in Cash} \cup {Deallocate(v, a) : a \in Cash} \cup {PayFees(v, a) : a \in Cash}
    \cup {Start(v), StopVault(v), EnablePassLocking(v), CloseVault(v)}
    \cup {ReserveBuy(v, o, a) : o \in OrderIds, a \in Cash} \cup {CancelOrder(v, o) : o \in OrderIds}
    \cup {FillBuy(v, o) : o \in OrderIds} \cup {MarkPosition(v, p) : p \in Prices}
    \cup {SettlePosition(v, p, f, x) : p \in Prices, f \in Cash \cup {0}, x \in Cash \cup {0}}

\* The end of execute.
Recorded(v) ==
    [v EXCEPT !.revision = @ + 1,
              !.status = IF @ = "stopping" /\ v.positionCost = 0 /\ Ordered(v) = 0 THEN "stopped" ELSE @]

\* Mutant: the owner's commands reach the side that a bot holds.
AllowedMutant == IdleCommands(vault) \cup ActiveCommands(vault)

\* LocalStore.command: BOT_OWNS_ALLOCATION.
Allowed == IF botActive THEN IdleCommands(vault) ELSE IdleCommands(vault) \cup ActiveCommands(vault)

Command ==
    /\ vault.revision < HistoryLimit /\ ~vault.lock.closed
    /\ \E c \in Allowed : c.ok /\ vault' = Recorded(c.v)
    /\ UNCHANGED botActive

----------------------------------------------------------------------------
(* Properties *)

\* The checks of assertInvariant that a sequence of commands could break: fees, equity, the
\* split of withdrawals and the lock.
Balanced(v) ==
    /\ {v.idle, v.activeCash, v.positionCost, v.positionValue, v.feeLiability} \subseteq Nat
    /\ v.feeLiability <= v.activeCash /\ v.feesAccrued = v.feesPaid + v.feeLiability
    /\ Equity(v) = v.deposits - v.withdrawalsPaid + v.realizedPnl + v.positionValue - v.positionCost - v.feesAccrued
    /\ v.lock.on =>
          /\ v.lock.principal \in 0..Allowance /\ ReservedPrincipal(v) <= v.lock.principal
          /\ \A w \in WithdrawalIds : v.lock.split[w].profit + v.lock.split[w].principal = v.pending[w]
    /\ v.lock.closed => v.idle = 0 /\ v.activeCash = 0 /\ NoOpen(v) /\ Pending(v) = 0 /\ v.lock.principal = 0

\* What execute and checkpoint assert at their end holds whatever was done before, by the guards
\* alone: no legal command is ever lost to an assertion (assertInvariant).
GuardsKeepLedger == Balanced(vault)

\* While a pass lock holds, taking money that is called profit leaves the principal in cash:
\* what is not reserved of it is still there, whatever is open (passAccounting).
ProfitLeavesPrincipal ==
    [][\A w \in WithdrawalIds :
          vault.lock.on /\ vault.pending[w] = 0 /\ vault'.lock.split[w].profit > 0 =>
              vault'.idle + vault'.activeCash - vault'.feeLiability >= vault'.lock.principal - ReservedPrincipal(vault')]_localVaultVars

----------------------------------------------------------------------------
LocalVaultInit ==
    /\ vault \in {createVault(NoLock), createVault([NoLock EXCEPT !.on = TRUE])}
    /\ botActive = FALSE

LocalVaultNext == Command
LocalVaultSpec == LocalVaultInit /\ [][LocalVaultNext]_localVaultVars
=============================================================================
