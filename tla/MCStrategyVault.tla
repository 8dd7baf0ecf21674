-------------------------- MODULE MCStrategyVault --------------------------
(***************************************************************************)
(* Three Vaults for TLC, one in each behaviour: the orders of an executor  *)
(* under changing grants (the constants of the configuration), the books   *)
(* of an owner who trades for himself, and a Vault among strangers who     *)
(* move the reserve's funds and send it assets.                            *)
(***************************************************************************)
EXTENDS StrategyVault

VARIABLE part

MCGrant(expires, total) ==
    [executor |-> "e1", expiresAt |-> expires, maxOrderUsdc |-> 2,
     maxTotalBuyUsdc |-> total, maxSlippageBps |-> 500]
MCGrants == {MCGrant(2, 1), MCGrant(3, 2)}
MCWindows == {<<1, 4>>}

MCHolding(reserveUsdc, reserveTarget, others) ==
    [t \in Tokens |-> [a \in Accounts |->
        CASE t = "usdc" /\ a = Owner -> 2
          [] t = "usdc" /\ a = "reserve" -> reserveUsdc
          [] t = "pass" /\ a = Owner -> 4
          [] t = "target" /\ a = "reserve" -> reserveTarget
          [] t \in others /\ a = "others" -> 1
          [] OTHER -> 0]]

MCBalance == MCHolding(2, 4, {})

Books == INSTANCE StrategyVault WITH
    Executors <- {}, Grants <- {}, Amounts <- {1, 2}, Units <- {1, 2},
    MinOuts <- {1, 2}, Deadlines <- {3}, MaxTime <- 3, MaxVersion <- 6,
    MaxInFlight <- 1, InitialBalance <- MCHolding(2, 2, {})

Strangers(holding) == INSTANCE StrategyVault WITH
    Executors <- {}, Grants <- {}, OutsideAmounts <- {1}, Deadlines <- {2},
    MaxVersion <- 2, MaxInFlight <- 1,
    InitialBalance <- holding

MCInit ==
    \/ part = "orders" /\ Init
    \/ part = "books" /\ Books!Init
    \/ part = "strangers" /\ \E t \in {{"pass", "usdc"}, {"native"}} : Strangers(MCHolding(0, 2, t))!Init

MCNext ==
    \/ part = "orders" /\ Next /\ UNCHANGED part
    \/ part = "books" /\ Books!Next /\ UNCHANGED part
    \/ part = "strangers" /\ Strangers(MCBalance)!Next /\ UNCHANGED part

MCSpec == MCInit /\ [][MCNext]_<<vars, part>>
=============================================================================
