-------------------------- MODULE MCMarketIndexer --------------------------
(***************************************************************************)
(* Two branches from different deployment blocks.  A claim succeeds in     *)
(* b1.                                                                     *)
(***************************************************************************)
EXTENDS MarketIndexer

MCBlocks == {"a1", "b1", "b2"}
MCParent == [b \in MCBlocks |-> IF b = "b2" THEN "b1" ELSE "none"]
MCNumber == [b \in MCBlocks |-> IF b = "b2" THEN 2 ELSE 1]
MCOutcome == [b \in MCBlocks |-> [a \in Accounts |-> IF b = "b1" THEN "SUCCESS" ELSE "none"]]
=============================================================================
