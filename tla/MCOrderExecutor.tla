--------------------------- MODULE MCOrderExecutor ---------------------------
(***************************************************************************)
(* What may act with a signature and what it runs in, one part in each     *)
(* behaviour: the order executor, with two configurations that hold the    *)
(* same keys and enough blocks for one order to be final; the issuer of    *)
(* execution permits; and the container with its volume and recovery.      *)
(***************************************************************************)
EXTENDS OrderExecutor, PermitIssuer, ContainerHost

VARIABLE part

MCConfigs == {"a", "b"}
MCPurposes == {"EXECUTE", "FEED_UPDATE"}
MCMaxOrders == "a" :> 2 @@ "b" :> 1

----------------------------------------------------------------------------
(* The inputs of the risk engine: an honest one of each kind and its variations *)

MCInstruments == {"btc", "eth"}
MCPolicy == [venues |-> {"venue"}, instruments |-> MCInstruments, maxPosition |-> 3, maxOrder |-> 4, maxGross |-> 4,
             leverage |-> 2, maxLoss |-> 2, maxAge |-> 2, maxAccountAge |-> 1, skew |-> 1, ttl |-> 1]
MCGrant == [by |-> "user", user |-> "user", id |-> "g", family |-> "f", from |-> 0, until |-> 4,
            permissions |-> {"readAccount", "readMarketData", "placeOrders"}, policy |-> MCPolicy]
MCGrants == {MCGrant, [MCGrant EXCEPT !.by = "other"], [MCGrant EXCEPT !.policy.maxGross = 0]}

To(b, e) == <<[instrument |-> "btc", amount |-> b], [instrument |-> "eth", amount |-> e]>>
MCDecision == [by |-> "runtime", nonce |-> 1, grant |-> "g", family |-> "f", version |-> "v", measurement |-> "m",
               policyHash |-> MCPolicy, venue |-> "venue", targets |-> To(2, 1), issued |-> 0, expires |-> 2]
MCDecisions ==
    {[MCDecision EXCEPT !.nonce = w[1], !.issued = w[2], !.expires = w[3]] : w \in {<<1, 0, 2>>, <<1, 2, 4>>, <<2, 1, 2>>}}
    \cup {[MCDecision EXCEPT !.targets = t] : t \in {<<[instrument |-> "btc", amount |-> 3]>>, To(-1, 0), To(1, 1), To(4, 0),
               To(Malformed, 0), To(1, 1) \o <<[instrument |-> "btc", amount |-> 1]>>}}
    \cup {[MCDecision EXCEPT !.by = "other"], [MCDecision EXCEPT !.version = "w"], [MCDecision EXCEPT !.expires = Malformed],
          [MCDecision EXCEPT !.policyHash.ttl = 2]}

MCReleases == {[family |-> "f", version |-> "v", measurement |-> "m", key |-> "runtime"]}

MCAccount == [user |-> "user", venue |-> "venue", captured |-> 0, equity |-> 4, pnl |-> 0,
              positions |-> [btc |-> 1, eth |-> -2]]
MCAccounts ==
    {MCAccount, [MCAccount EXCEPT !.captured = 2], [MCAccount EXCEPT !.equity = 0], [MCAccount EXCEPT !.equity = 1],
     [MCAccount EXCEPT !.pnl = -2], [MCAccount EXCEPT !.positions["eth"] = Malformed], [MCAccount EXCEPT !.positions = [btc |-> 0, eth |-> 3]],
     [MCAccount EXCEPT !.positions = [btc |-> 2, eth |-> 2], !.pnl = -3]}

----------------------------------------------------------------------------

(* The container: restarts, mishaps of each kind, and recoveries between two runs *)

MCCrowded == [starts |-> 1, writes |-> 1, mishaps |-> 1, recoveries |-> 1]
MCRation ==
    {MCCrowded, [MCCrowded EXCEPT !.writes = 0, !.mishaps = 2, !.recoveries = 0],
     [MCCrowded EXCEPT !.starts = 2, !.writes = 0, !.recoveries = 0], [MCCrowded EXCEPT !.starts = 0, !.writes = 0, !.recoveries = 2]}

----------------------------------------------------------------------------

MCInit ==
    /\ part \in {"executor", "permits", "container"}
    /\ ExecutorInit /\ PermitInit /\ HostInit
    /\ part # "container" => ration = MCCrowded

MCNext ==
    /\ UNCHANGED part
    /\ \/ part = "executor" /\ ExecutorNext /\ UNCHANGED <<permitVars, hostVars>>
       \/ part = "permits" /\ PermitNext /\ UNCHANGED <<executorVars, hostVars>>
       \/ part = "container" /\ HostNext /\ UNCHANGED <<executorVars, permitVars>>

\* The fairness of the executor's processes and of the container's (see ExecutorSpec, HostSpec).
MCSpec ==
    /\ MCInit /\ [][MCNext]_<<executorVars, permitVars, hostVars, part>>
    /\ \A c \in Configs : WF_executorVars(part = "executor" /\ Cycle(c) /\ UNCHANGED <<permitVars, hostVars, part>>)
    /\ WF_hostVars(part = "container" /\ Reacts /\ UNCHANGED <<executorVars, permitVars, part>>)
=============================================================================
