---------------------------- MODULE MCContracts ----------------------------
(***************************************************************************)
(* The contracts of the two product lines for TLC, one in each behaviour:  *)
(* the PASS market (the constants of the configuration), the same market   *)
(* with the native reserve and its router, and the trading Vault.          *)
(***************************************************************************)
EXTENDS NativeMarket, TradingVault, TLC

VARIABLE part

----------------------------------------------------------------------------
(* The PASS market: eight units, four sold at two per AF-USDC, and a pool of  *)
(* four against two, its last funding still with the administrator.           *)

MCBalance ==
    [t \in Tokens |-> [a \in Accounts |->
        CASE t = "pass" /\ a = "admin" -> 4
          [] t = "pass" /\ a = "launch" -> 4
          [] t = "usdc" /\ a = "admin" -> 4
          [] t = "usdc" /\ a \in Users -> 2
          [] OTHER -> 0]]

----------------------------------------------------------------------------
(* With ETH: a pool of four PASS against twenty AF-USDC, and a reserve whose  *)
(* daily budget covers one sale at the low price but not two.                 *)

EthBalance ==
    [t \in Tokens |-> [a \in Accounts |->
        CASE t = "pass" /\ a = "launch" -> 8
          [] t = "usdc" /\ a = "launch" -> 20
          [] t = "usdc" /\ a = "reserve" -> 8
          [] t = "usdc" /\ a = "lp" -> 2
          [] OTHER -> 0]]

MCEth ==
    [a \in Accounts |-> CASE a = "reserve" -> 12 [] a = "u" -> 6 [] OTHER -> 0]

MCLimits ==
    {[perTransaction |-> p, perAccountDaily |-> 6, globalDaily |-> 7, minReserve |-> 1] :
        p \in {3, 6}}

\* Both directions run, or both are paused.
MCPauses == {<<FALSE, FALSE>>, <<TRUE, TRUE>>}

Native == INSTANCE NativeMarket WITH
    LpUsdc <- 20, InitialShares <- 8, Amounts <- {2}, ShareAmounts <- {},
    GiftAmounts <- {}, GiftTargets <- {}, InitialBalance <- EthBalance

----------------------------------------------------------------------------
(* The trading Vault: two stocks, a grant that expires during the run, and    *)
(* prices on both sides of its bounds.                                        *)

MCStocks == {"msft", "nvda"}
MCGrants == {[executor |-> TRUE, expires |-> 3, window |-> 1, maxOrder |-> 4, maxTotal |-> 4, slip |-> 1]}
MCPrices == "msft" :> {3, 6} @@ "nvda" :> {4}
MCBounds == {NoBounds, [NoBounds EXCEPT !.lower = 2, !.high = [s \in Stocks |-> 6]]}

----------------------------------------------------------------------------

MCInit ==
    /\ TradingInit
    /\ \/ part \in {"pass", "trading"} /\ NativeInit /\ reserve.limits.perTransaction = 3
       \/ part = "native" /\ Native!NativeInit

MCNext ==
    /\ UNCHANGED part
    /\ \/ part = "pass" /\ MarketNext /\ UNCHANGED <<nativeOnly, tradingVars>>
       \/ part = "native" /\ Native!NativeNext /\ UNCHANGED tradingVars
       \/ part = "trading" /\ TradingNext /\ UNCHANGED nativeVars

MCSpec == MCInit /\ [][MCNext]_<<nativeVars, tradingVars, part>>
=============================================================================
