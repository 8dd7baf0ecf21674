------------------------------ MODULE MCIndex ------------------------------
(***************************************************************************)
(* The pollers that must catch up, one in each behaviour: the market's     *)
(* indexer with the claims of its accounts, the backend of the M3 product  *)
(* with the operations users report to it, and one chain synchronizer; and *)
(* the offline copies of the stores they keep.                             *)
(***************************************************************************)
EXTENDS MCMarketIndexer, M3Server, OfflineCopies

VARIABLES part, remoteTip, canon, events, cp, lease, projection, op, sync, track, owed, resting

----------------------------------------------------------------------------
(* The M3 backend: what users report, and the faults around it *)

Claim(t, c, k) == [tx |-> t, target |-> c, kind |-> k]
Honest == Claim("x", "vault", "true")
Foreign == Claim("x", "vault", "other")
Calm == [reports |-> {<<1, Honest>>}, reorgs |-> 0, faults |-> 0, lost |-> 0, closes |-> 0]
MCFaults ==
    {[Calm EXCEPT !.reports = {<<1, Claim("x", "vault", "stranger")>>, <<2, Foreign>>, <<3, Honest>>}],
     [Calm EXCEPT !.reports = {<<1, Foreign>>, <<2, Honest>>}, !.reorgs = 1],
     [Calm EXCEPT !.reports = {<<1, Honest>>, <<2, Claim("y", "pass", "true")>>}, !.faults = 1],
     [Calm EXCEPT !.reorgs = 1, !.lost = 1],
     [Calm EXCEPT !.closes = 1]}

----------------------------------------------------------------------------
(* The synchronizer, over two branches of three blocks *)

SyncBlocks == {"a1", "a2", "a3", "b2", "b3"}
SyncParent == [b \in SyncBlocks |->
    CASE b = "a1" -> "none" [] b \in {"a2", "b2"} -> "a1"
      [] b = "a3" -> "a2" [] b = "b3" -> "b2"]
SyncNumber == [b \in SyncBlocks |->
    CASE b = "a1" -> 1 [] b \in {"a2", "b2"} -> 2 [] b \in {"a3", "b3"} -> 3]
SyncTx == [b \in SyncBlocks |-> IF b \in {"a2", "b3"} THEN "SUCCESS" ELSE "none"]

Sync == INSTANCE ChainSync WITH
    tip <- remoteTip, settled <- resting, Blocks <- SyncBlocks,
    Parent <- SyncParent, Number <- SyncNumber, TxResult <- SyncTx,
    Syncers <- {"s1"}, NoOwner <- "nobody", Trackers <- {}, Preemptible <- FALSE,
    MaxBlocksPerSync <- 1, ReorgSearchLimit <- 2, SoftReadyDepth <- 2

----------------------------------------------------------------------------
(* The copies: two writes under one copy, a chain of two with a fault or of three without, and the chain's *)

MCCopies == [writes |-> 1, copies |-> 2, faults |-> 1, chainWrites |-> 0, chainCopies |-> 0]
MCSlack == {MCCopies, [MCCopies EXCEPT !.writes = 2, !.copies = 1], [MCCopies EXCEPT !.copies = 3, !.faults = 0],
            [MCCopies EXCEPT !.writes = 0, !.copies = 0, !.chainWrites = 2, !.chainCopies = 3]}

----------------------------------------------------------------------------

syncVars == <<remoteTip, canon, events, cp, lease, projection, op, sync, track, owed, resting>>

MCInit ==
    /\ part \in {"market", "m3", "sync", "copies"}
    /\ Init /\ M3ServerInit /\ Sync!Init /\ CopyInit
    /\ part # "market" => tip = "a1"
    /\ part # "m3" => pool = CHOOSE f \in M3Faults : TRUE
    /\ part # "copies" => slack = MCCopies
    /\ part # "sync" => remoteTip = CHOOSE b \in SyncBlocks : TRUE

MCNext ==
    \/ part = "market" /\ Next /\ UNCHANGED <<m3ServerVars, syncVars, copyVars, part>>
    \/ part = "m3" /\ M3ServerNext /\ UNCHANGED <<vars, syncVars, copyVars, part>>
    \/ part = "sync" /\ Sync!Next /\ UNCHANGED <<vars, m3ServerVars, copyVars, part>>
    \/ part = "copies" /\ CopyNext /\ UNCHANGED <<vars, m3ServerVars, syncVars, part>>

\* The poller of the part that runs.
PollerStep ==
    \/ part = "market" /\ TickStep /\ UNCHANGED <<m3ServerVars, syncVars, copyVars, part>>
    \/ part = "m3" /\ ServerStep /\ UNCHANGED <<vars, syncVars, copyVars, part>>
    \/ part = "sync" /\ Sync!SyncStep("s1") /\ UNCHANGED <<vars, m3ServerVars, copyVars, part>>

\* The fairness of each: see FairSpec of MarketIndexer and ChainSync, and M3ServerSpec.
MCSpec ==
    /\ MCInit /\ [][MCNext]_<<vars, m3ServerVars, syncVars, copyVars, part>>
    /\ WF_<<vars, m3ServerVars, syncVars>>(PollerStep)
    /\ WF_m3ServerVars(part = "m3" /\ Grow /\ UNCHANGED <<vars, syncVars, copyVars, part>>)

\* Once the chain rests each poller catches up with it: the market's indexer and the synchronizer
\* publish its tip, and a true report settles.  One formula for the part that runs says what
\* EventuallyHealthy, EventuallyReadable and TrueReportSettles say of MarketIndexer, ChainSync and M3Server.
Behind ==
    \/ part = "market" /\ settled
    \/ part = "sync" /\ resting
    \/ part = "m3" /\ \E o \in OpIds : Unsettled(o)
InTime ==
    \/ part = "market" /\ Published
    \/ part = "sync" /\ Sync!CaughtUp
    \/ part = "m3" /\ \A o \in OpIds : ~Unsettled(o)
PollersCatchUp == Behind ~> InTime
=============================================================================
