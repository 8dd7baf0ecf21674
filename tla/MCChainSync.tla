---------------------------- MODULE MCChainSync ----------------------------
(***************************************************************************)
(* The chain synchronizer for TLC, one part in each behaviour.  Over a     *)
(* forest of five blocks: one synchronizer and a fork deeper than its      *)
(* search (the constants of the configuration); two synchronizers that     *)
(* take the lease from one another; one synchronizer with one tracker of   *)
(* an operation.  Beside them the market's accounts, and the reads of the  *)
(* chain that answer for one block.                                        *)
(***************************************************************************)
EXTENDS ChainSync, MarketAccounts, PinnedReads, TLC

CONSTANT MCSyncers   \* the synchronizers that share a lease
VARIABLE part

MCBlocks == {"a1", "a2", "a3", "b2", "b3"}
MCParent == [b \in MCBlocks |->
    CASE b = "a1" -> "none" [] b \in {"a2", "b2"} -> "a1"
      [] b = "a3" -> "a2" [] b = "b3" -> "b2"]
MCNumber == [b \in MCBlocks |->
    CASE b = "a1" -> 1 [] b \in {"a2", "b2"} -> 2 [] b \in {"a3", "b3"} -> 3]
\* The operation's transaction succeeds on one branch and reverts on the other.
MCTx == [b \in MCBlocks |->
    CASE b = "b2" -> "SUCCESS" [] b = "a2" -> "REVERTED" [] OTHER -> "none"]

Short == MCBlocks \ {"a3"}
Within(f) == [b \in Short |-> f[b]]

Lease == INSTANCE ChainSync WITH
    Syncers <- MCSyncers, Blocks <- Short, Parent <- Within(Parent),
    Number <- Within(Number), TxResult <- Within(TxResult)

Tracking == INSTANCE ChainSync WITH
    Trackers <- {"t1"}, ReorgSearchLimit <- 2, Blocks <- Short,
    Parent <- Within(Parent), Number <- Within(Number), TxResult <- Within(TxResult)

----------------------------------------------------------------------------
(* The accounts and the reads *)

MCUsers == {[email |-> "e1", subject |-> "s1"], [email |-> "e2", subject |-> "s2"], [email |-> "e1", subject |-> "s2"]}

\* A login, a link and a claim, in a new store and in one of the first schema; relinking that one, and
\* two claims of it; an expiry and a change of the policy; two logins.
OneOfEach == [links |-> 1, logins |-> 2, requests |-> 1, atOnce |-> 1, expiries |-> 0, switches |-> 0, migrated |-> FALSE]
MCRegistryBudgets ==
    {OneOfEach, [OneOfEach EXCEPT !.migrated = TRUE], [OneOfEach EXCEPT !.links = 3, !.logins = 0, !.migrated = TRUE],
     [OneOfEach EXCEPT !.links = 2, !.logins = 0, !.requests = 2, !.migrated = TRUE],
     [OneOfEach EXCEPT !.links = 0, !.expiries = 1, !.switches = 1],
     [OneOfEach EXCEPT !.logins = 4, !.requests = 0]}

MCHeads == {"a1", "a2", "b2"}
MCHeadParent == [b \in MCHeads |-> IF b = "a1" THEN "none" ELSE "a1"]
MCHeadNumber == [b \in MCHeads |-> IF b = "a1" THEN 1 ELSE 2]
MCPinnedBudgets ==
    {[calls |-> 3, changes |-> 1, kinds |-> {"snapshot", "indexed"}],
     [calls |-> 2, changes |-> 2, kinds |-> {"snapshot", "indexed"}],
     [calls |-> 1, changes |-> 3, kinds |-> {"indexed", "wallet", "quote", "simulate", "policy", "capture"}]}

\* Accounts, links and claims stay together, and what is read of the chain is of the block it names:
\* see MarketAccounts and PinnedReads.
MarketHonest ==
    /\ RegistrySound /\ ClaimsOnce /\ SpeaksForItsWallet
    /\ AnswersPinned /\ CacheIsLive

----------------------------------------------------------------------------

SyncAtRest ==
    /\ tip = "a1" /\ settled = FALSE
    /\ canon = {} /\ events = {} /\ cp = NoRow /\ lease = NoLease /\ projection = NoProjection
    /\ op = NoOperation /\ sync = <<>> /\ track = <<>> /\ owed = Null

SyncInit == \/ part = "deep" /\ Init
            \/ part = "lease" /\ Lease!Init
            \/ part = "track" /\ Tracking!Init
            \/ part \in {"accounts", "reads"} /\ SyncAtRest

MCInit == /\ SyncInit /\ RegistryInit /\ PinnedInit
          /\ part # "accounts" => room = OneOfEach
          /\ registry[1].email # "e2" /\ registry[1].wallet # "w2"   \* the names do not matter
          /\ part # "reads" => budget.calls = 3 /\ view = "a1"

sideVars == <<registryVars, pinnedVars>>

MCNext == /\ UNCHANGED part
          /\ \/ part = "deep" /\ Next /\ UNCHANGED sideVars
             \/ part = "lease" /\ Lease!Next /\ UNCHANGED sideVars
             \/ part = "track" /\ Tracking!Next /\ UNCHANGED sideVars
             \/ part = "accounts" /\ RegistryNext /\ UNCHANGED <<vars, pinnedVars>>
             \/ part = "reads" /\ PinnedNext /\ UNCHANGED <<vars, registryVars>>
             \/ part \in {"accounts", "reads"} /\ UNCHANGED <<vars, sideVars>>  \* the end of their bounds

MCSpec == MCInit /\ [][MCNext]_<<vars, sideVars, part>>
MCSymmetry == Permutations(MCSyncers)
=============================================================================
