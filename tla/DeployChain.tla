----------------------------- MODULE DeployChain -----------------------------
(***************************************************************************)
(* The chain as the deployment tools see it: one account, its transactions *)
(* and the blocks that hold them.  A hash is a position in txs.  A block   *)
(* holds at most one of these transactions; a reorganisation takes the tip *)
(* away, and a block that replaces it has a new id.                        *)
(***************************************************************************)
EXTENDS Integers, Sequences, FiniteSets

CONSTANTS
    PlanLength,     \* transactions of the plan (41 in the code)
    MaxHeight,      \* bound on the chain's height
    Nil

Confirmations == 2  \* blocks on top of the one that holds the transaction

ASSUME DeployAssumption == PlanLength \in Nat \ {0} /\ MaxHeight \in Nat

VARIABLES
    txs,     \* every transaction that reached the network: [step, nonce, planned]; step 0 is not of the plan
    pool,    \* those that wait to be mined
    chain,   \* the canonical blocks: [id, tx, ok]
    blocks   \* how many blocks were ever mined

networkVars == <<txs, pool, chain, blocks>>

Height == Len(chain)
MinedIn(h) == {b \in DOMAIN chain : chain[b].tx = h}
Mined(h) == MinedIn(h) # {}
LatestNonce == Cardinality({b \in DOMAIN chain : chain[b].tx # 0})
PendingNonce == Cardinality({txs[h].nonce : h \in {g \in DOMAIN txs : Mined(g) \/ g \in pool}})

\* A receipt: where the transaction is, and whether it succeeded.
Receipt(h) == LET b == CHOOSE b \in DOMAIN chain : chain[b].tx = h
              IN [block |-> b, id |-> chain[b].id, ok |-> chain[b].ok]
Canonical(receipt) == receipt.block <= Height /\ chain[receipt.block].id = receipt.id
Confirmed(receipt) == Height >= receipt.block + Confirmations

\* Every step before s has a successful transaction of the plan on the canonical chain.
DependenciesMined(s) ==
    \A d \in 1..(s - 1) : \E b \in DOMAIN chain :
        chain[b].tx # 0 /\ chain[b].ok /\ txs[chain[b].tx].step = d /\ txs[chain[b].tx].planned

----------------------------------------------------------------------------
Broadcast(tx) ==
    /\ txs' = Append(txs, tx)
    /\ pool' = pool \cup {Len(txs) + 1}

Mine ==
    /\ Height < MaxHeight
    /\ \/ \E h \in pool : /\ txs[h].nonce = LatestNonce
                          /\ \E ok \in BOOLEAN : chain' = Append(chain, [id |-> blocks + 1, tx |-> h, ok |-> ok])
                          /\ pool' = {g \in pool : txs[g].nonce # txs[h].nonce}
       \/ chain' = Append(chain, [id |-> blocks + 1, tx |-> 0, ok |-> TRUE]) /\ pool' = pool
    /\ blocks' = blocks + 1
    /\ UNCHANGED txs

DropTip ==
    /\ chain # <<>>
    /\ chain' = SubSeq(chain, 1, Height - 1)
    /\ pool' = IF chain[Height].tx = 0 THEN pool ELSE pool \cup {chain[Height].tx}
    /\ UNCHANGED <<txs, blocks>>

NetworkInit == txs = <<>> /\ pool = {} /\ chain = <<>> /\ blocks = 0
=============================================================================
