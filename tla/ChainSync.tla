----------------------------- MODULE ChainSync -----------------------------
(***************************************************************************)
(* The chain indexer of the product backend: ChainSynchronizer             *)
(* (chain-sync.ts) over the SQLite ChainStore (chain-store.ts), for one    *)
(* contract.  Several synchronizers, in one or several processes, share    *)
(* the store; each takes it over with a lease row (claimSync) and every    *)
(* write re-checks the lease in its own transaction.  A tracker follows    *)
(* one submitted operation through its lifecycle (trackOperation).         *)
(*                                                                         *)
(* A step is what one process does between two awaits: the RPC answer it   *)
(* waited for and the store transaction that follows.  The RPC answers     *)
(* with the chain that ends in tip at that moment; tip may move to any     *)
(* block at any time, which covers growth, reorganisations and a fail-over *)
(* to an endpoint with another view (rpc.ts tries up to 8 endpoints).      *)
(*                                                                         *)
(* The blocks are a finite forest given by Parent; a block's hash is its   *)
(* identity.  Every block of the model is at or after the deployment block.*)
(***************************************************************************)
EXTENDS Integers, FiniteSets

CONSTANTS
    Blocks,           \* block hashes
    NoBlock,          \* SQL NULL, a missing RPC block, the parent of a first block
    Parent,           \* [Blocks -> Blocks \cup {NoBlock}]
    Number,           \* [Blocks -> Nat], one more than the parent's
    TxResult,         \* [Blocks -> {"none", "SUCCESS", "REVERTED"}]: the operation's
                      \* transaction in that block
    Syncers,          \* synchronizers sharing the store
    NoOwner,          \* no lease row
    Trackers,         \* tasks that track the operation
    Preemptible,      \* other processes share the store, so that one of their steps may
                      \* fall between two store calls of a tracker
    DeploymentBlock,  \* manifest.deploymentBlock
    MaxBlocksPerSync,
    ReorgSearchLimit,
    SoftReadyDepth

VARIABLES
    tip,         \* the remote chain, by its last block
    canon,       \* chain_blocks with canonical = 1
    events,      \* canonical blocks whose log is in chain_events with canonical = 1
    cp,          \* the chain_checkpoints row; block = NoBlock when there is none
    lease,       \* the chain_sync_leases row
    projection,  \* what product_projections was built from
    op,          \* the operation's chain_transactions row
    sync,        \* per synchronizer: what its call holds in memory
    track,       \* per tracker: what its call holds in memory
    owed,        \* history: highest target claimed and not yet completed or given up
    settled      \* history: the remote chain moves no more and calls do not fail

storeVars == <<canon, events, cp, lease, projection, op, owed>>
vars == <<tip, canon, events, cp, lease, projection, op, sync, track, owed, settled>>

OrNone(S) == S \cup {NoBlock}
Null == -1

ASSUME ChainAssumption ==
    /\ NoBlock \notin Blocks
    /\ Parent \in [Blocks -> OrNone(Blocks)]
    /\ Number \in [Blocks -> Nat]
    /\ \A b \in Blocks : /\ Parent[b] = NoBlock => Number[b] = DeploymentBlock
                         /\ Parent[b] # NoBlock => Number[b] = Number[Parent[b]] + 1
    /\ TxResult \in [Blocks -> {"none", "SUCCESS", "REVERTED"}]
    /\ NoOwner \notin Syncers
    /\ Preemptible \in BOOLEAN
    /\ DeploymentBlock \in Nat
    /\ MaxBlocksPerSync \in Nat \ {0}
    /\ ReorgSearchLimit \in Nat \ {0}
    /\ SoftReadyDepth \in Nat \ {0}

\* The block and its ancestors.
Ancestry[b \in Blocks] ==
    {b} \cup (IF Parent[b] = NoBlock THEN {} ELSE Ancestry[Parent[b]])

\* The answer to rpc.block(n), and the block the store has at n.
BlockAt(chain, n) ==
    IF \E b \in chain : Number[b] = n THEN CHOOSE b \in chain : Number[b] = n
    ELSE NoBlock
RemoteAt(n) == BlockAt(Ancestry[tip], n)
LocalAt(n) == BlockAt(canon, n)

\* Blocks with a log of the contract: a reverted transaction leaves none.
Logged == {b \in Blocks : TxResult[b] = "SUCCESS"}

Larger(a, b) == IF a >= b THEN a ELSE b
Smaller(a, b) == IF a <= b THEN a ELSE b

NoRow == [block |-> NoBlock, projected |-> NoBlock, health |-> "OK", target |-> Null]
NoLease == [owner |-> NoOwner, target |-> Null]
NoProjection == [block |-> NoBlock, events |-> {}]
Resting == [pc |-> "idle", head |-> 0, target |-> 0, n |-> 0, searched |-> 0,
            cur |-> NoBlock, snap |-> {}]
NoOperation == [state |-> "ABSENT", block |-> NoBlock, confirmations |-> 0]
Untracked == [pc |-> "idle", seen |-> NoBlock, op |-> NoOperation,
              receipt |-> NoBlock, event |-> FALSE]

Lifecycle == {"ABSENT", "SUBMITTED", "MINED", "CONFIRMING", "CONFIRMED", "REVERTED",
              "REPLACED", "DROPPED", "REORGED", "RECONCILIATION_FAILED"}
Anchored == {"MINED", "CONFIRMING", "CONFIRMED", "REVERTED", "RECONCILIATION_FAILED"}
Trackable == {"MINED", "CONFIRMING", "RECONCILIATION_FAILED"}
Operations == [state : Lifecycle, block : OrNone(Blocks), confirmations : Nat]
SyncPcs == {"idle", "claim", "rewind", "search", "recover", "rebuild", "scan",
            "fetch", "logs", "project", "finish"}

TypeOK ==
    /\ tip \in Blocks
    /\ canon \subseteq Blocks
    /\ events \subseteq canon
    /\ cp \in [block : OrNone(Blocks), projected : OrNone(Blocks),
               health : {"OK", "INCOMPLETE", "DEPTH", "NO_ANCESTOR"},
               target : Nat \cup {Null}]
    /\ lease \in [owner : Syncers \cup {NoOwner}, target : Nat \cup {Null}]
    /\ projection \in [block : OrNone(Blocks), events : SUBSET Blocks]
    /\ op \in Operations
    /\ sync \in [Syncers -> [pc : SyncPcs, head : Nat, target : Nat, n : Int,
                             searched : Nat, cur : OrNone(Blocks),
                             snap : SUBSET Blocks]]
    /\ track \in [Trackers -> [pc : {"idle", "receipt", "mined", "reconcile"},
                               seen : OrNone(Blocks), op : Operations,
                               receipt : OrNone(Blocks), event : BOOLEAN]]
    /\ owed \in Nat \cup {Null}
    /\ settled \in BOOLEAN

Init ==
    /\ tip \in Blocks
    /\ canon = {}
    /\ events = {}
    /\ cp = NoRow
    /\ lease = NoLease
    /\ projection = NoProjection
    /\ op = NoOperation
    /\ sync = [s \in Syncers |-> Resting]
    /\ track = [t \in Trackers |-> Untracked]
    /\ owed = Null
    /\ settled = FALSE

----------------------------------------------------------------------------
(* Store transactions *)

\* #assertSyncOwner
OwnsLease(s) == lease.owner = s

\* What readers accept: projection() and syncHealth() in one statement.
SyncHealthy == lease.owner = NoOwner /\ cp.health = "OK"
Readable == SyncHealthy /\ cp.block # NoBlock /\ cp.projected = cp.block

\* rollbackFromBlock: blocks from n on are displaced with their events, their
\* operations are reorged, every projection is dropped and the checkpoint moves
\* to the last block left.
RollbackOperation(n) ==
    IF op.state \in Anchored /\ Number[op.block] >= n
    THEN [op EXCEPT !.state = "REORGED"] ELSE op

RollbackFromBlock(n) ==
    LET left == {b \in canon : Number[b] < n} IN
    /\ canon' = left
    /\ events' = events \cap left
    /\ op' = RollbackOperation(n)
    /\ projection' = NoProjection
    /\ cp' = IF left = {} THEN NoRow
             ELSE [cp EXCEPT !.block = CHOOSE b \in left :
                                         \A c \in left : Number[c] <= Number[b],
                             !.projected = NoBlock]

\* Mutant: the commit does not look at the checkpoint again.
CommitAnywhereMutant(s, block, snap) ==
    /\ block \in canon
    /\ projection' = [block |-> block, events |-> snap]
    /\ cp' = [cp EXCEPT !.projected = cp.block]

\* commitProjections
CommitProjections(s, block, snap) ==
    /\ OwnsLease(s)
    /\ block \in canon
    /\ cp.block = block
    /\ projection' = [block |-> block, events |-> snap]
    /\ cp' = [cp EXCEPT !.projected = block]

----------------------------------------------------------------------------
(* syncTo, one step per await *)

Goto(s, next) == sync' = [sync EXCEPT ![s].pc = next]

\* The runtime reads the head and bounds one call to MaxBlocksPerSync blocks.
BeginSync(s) ==
    LET start == IF cp.block = NoBlock THEN DeploymentBlock ELSE Number[cp.block] + 1
        head == Number[tip]
    IN
    /\ sync[s].pc = "idle"
    /\ sync' = [sync EXCEPT ![s] =
                 [Resting EXCEPT !.pc = "claim", !.target = head,
                    !.head = IF start <= head
                             THEN Smaller(start + MaxBlocksPerSync - 1, head) ELSE head]]
    /\ UNCHANGED <<tip, storeVars, track, settled>>

\* Mutant: a claim looks at the checkpoint row only.
RequiredTargetMutant == cp.target

\* The target no smaller claim may undercut.
RequiredTarget == Larger(lease.target, cp.target)

ClaimSync(s) ==
    LET target == sync[s].target IN
    /\ sync[s].pc = "claim"
    /\ RemoteAt(sync[s].head) # NoBlock
    /\ target >= RequiredTarget
    /\ lease' = [owner |-> s, target |-> Larger(target, lease.target)]
    /\ cp' = IF cp.block = NoBlock THEN cp
             ELSE [cp EXCEPT !.health = "INCOMPLETE", !.target = Larger(target, @)]
    /\ owed' = Larger(owed, target)
    /\ Goto(s, "rewind")
    /\ UNCHANGED <<tip, canon, events, projection, op, track, settled>>

\* #rewindIfNeeded: is the checkpoint still on the remote chain?
CheckCheckpoint(s) ==
    /\ sync[s].pc = "rewind"
    /\ \/ /\ cp.block = NoBlock
          /\ Goto(s, "recover")
       \/ /\ cp.block # NoBlock
          /\ RemoteAt(Number[cp.block]) = cp.block
          /\ Goto(s, "recover")
       \/ /\ cp.block # NoBlock
          /\ RemoteAt(Number[cp.block]) \notin {cp.block, NoBlock}
          /\ sync' = [sync EXCEPT ![s].pc = "search", ![s].searched = 1,
                                  ![s].n = Number[cp.block] - 1]
    /\ UNCHANGED <<tip, storeVars, track, settled>>

MaySearch(s) == sync[s].n >= DeploymentBlock /\ sync[s].searched <= ReorgSearchLimit

\* The common ancestor is found: displace what comes after it.
Rewind(s) ==
    /\ sync[s].pc = "search"
    /\ MaySearch(s)
    /\ LocalAt(sync[s].n) # NoBlock
    /\ LocalAt(sync[s].n) = RemoteAt(sync[s].n)
    /\ OwnsLease(s)
    /\ RollbackFromBlock(sync[s].n + 1)
    /\ Goto(s, "recover")
    /\ UNCHANGED <<tip, lease, track, owed, settled>>

SearchFurther(s) ==
    /\ sync[s].pc = "search"
    /\ MaySearch(s)
    /\ RemoteAt(sync[s].n) # NoBlock
    /\ LocalAt(sync[s].n) # RemoteAt(sync[s].n)
    /\ sync' = [sync EXCEPT ![s].n = @ - 1, ![s].searched = @ + 1]
    /\ UNCHANGED <<tip, storeVars, track, settled>>

\* markSyncUnhealthy: the search is exhausted; the lease is given back.
GiveUp(s) ==
    /\ sync[s].pc = "search"
    /\ ~MaySearch(s)
    /\ OwnsLease(s)
    /\ cp.block # NoBlock
    /\ cp' = [cp EXCEPT !.target = Null,
                        !.health = IF sync[s].n >= DeploymentBlock THEN "DEPTH"
                                   ELSE "NO_ANCESTOR"]
    /\ lease' = NoLease
    /\ owed' = Null
    /\ sync' = [sync EXCEPT ![s] = Resting]
    /\ UNCHANGED <<tip, canon, events, projection, op, track, settled>>

\* #recoverProjection: a checkpoint without its projection is rebuilt first.
RecoverProjection(s) ==
    /\ sync[s].pc = "recover"
    /\ IF cp.projected = cp.block THEN Goto(s, "scan")
       ELSE sync' = [sync EXCEPT ![s].pc = "rebuild", ![s].cur = cp.block,
                                 ![s].snap = events]
    /\ UNCHANGED <<tip, storeVars, track, settled>>

\* rebuildProjections reads the contract at the block's hash and requires it to be
\* canonical for the RPC.
CommitRecovered(s) ==
    /\ sync[s].pc = "rebuild"
    /\ sync[s].cur \in Ancestry[tip]
    /\ CommitProjections(s, sync[s].cur, sync[s].snap)
    /\ Goto(s, "scan")
    /\ UNCHANGED <<tip, canon, events, lease, op, track, owed, settled>>

ScanStart == IF cp.block = NoBlock THEN DeploymentBlock ELSE Number[cp.block] + 1

StartScan(s) ==
    /\ sync[s].pc = "scan"
    /\ \/ ScanStart > sync[s].head /\ Goto(s, "finish")
       \/ /\ ScanStart <= sync[s].head
          /\ sync[s].head - ScanStart + 1 <= MaxBlocksPerSync
          /\ sync' = [sync EXCEPT ![s].pc = "fetch", ![s].n = ScanStart]
    /\ UNCHANGED <<tip, storeVars, track, settled>>

\* The block extends the stored chain.
Follows(block) ==
    /\ block # NoBlock
    /\ cp.block # NoBlock => Parent[block] = cp.block

FetchBlock(s) ==
    LET block == RemoteAt(sync[s].n) IN
    /\ sync[s].pc = "fetch"
    /\ Follows(block)
    /\ sync' = [sync EXCEPT ![s].pc = "logs", ![s].cur = block]
    /\ UNCHANGED <<tip, storeVars, track, settled>>

\* rpc.logs is asked by number: another block's logs are refused (validLog), but
\* an answer without logs has no hash to check.
LogsAcceptable(n, block) == RemoteAt(n) \notin Logged \ {block}

LogsOf(n, block) == {block} \cap {RemoteAt(n)} \cap Logged

\* recordCanonicalBlock, with the event snapshot the rebuild starts from.
RecordCanonicalBlock(s) ==
    LET block == sync[s].cur
        target == sync[s].target
    IN
    /\ sync[s].pc = "logs"
    /\ LogsAcceptable(sync[s].n, block)
    /\ OwnsLease(s)
    /\ Follows(block)
    /\ canon' = canon \cup {block}
    /\ events' = events \cup LogsOf(sync[s].n, block)
    /\ cp' = [cp EXCEPT !.block = block, !.health = "INCOMPLETE",
                        !.target = Larger(target, @)]
    /\ sync' = [sync EXCEPT ![s].pc = "project", ![s].snap = events']
    /\ UNCHANGED <<tip, lease, projection, op, track, owed, settled>>

CommitProjected(s) ==
    /\ sync[s].pc = "project"
    /\ sync[s].cur \in Ancestry[tip]
    /\ CommitProjections(s, sync[s].cur, sync[s].snap)
    /\ sync' = [sync EXCEPT ![s].pc = IF sync[s].n < sync[s].head THEN "fetch" ELSE "finish",
                            ![s].n = @ + 1]
    /\ UNCHANGED <<tip, canon, events, lease, op, track, owed, settled>>

\* The rebuild failed: the block just recorded is taken back.
RollbackProjected(s) ==
    /\ sync[s].pc = "project"
    /\ ~settled \/ sync[s].cur \notin Ancestry[tip]
    /\ OwnsLease(s)
    /\ RollbackFromBlock(sync[s].n)
    /\ sync' = [sync EXCEPT ![s] = Resting]
    /\ UNCHANGED <<tip, lease, track, owed, settled>>

\* Part of the range is indexed: reads stay closed until the target is reached.
ReleaseSyncIncomplete(s) ==
    /\ sync[s].pc = "finish"
    /\ sync[s].head < sync[s].target
    /\ OwnsLease(s)
    /\ cp.block # NoBlock
    /\ cp' = [cp EXCEPT !.health = "INCOMPLETE", !.target = Larger(sync[s].target, @)]
    /\ lease' = NoLease
    /\ sync' = [sync EXCEPT ![s] = Resting]
    /\ UNCHANGED <<tip, canon, events, projection, op, track, owed, settled>>

CompletedBy(head) ==
    /\ cp.block # NoBlock
    /\ cp.health = "INCOMPLETE"
    /\ Number[cp.block] >= head
    /\ cp.projected = cp.block
    /\ cp.target # Null /\ cp.target <= head

MarkSyncHealthy(s) ==
    /\ sync[s].pc = "finish"
    /\ sync[s].head >= sync[s].target
    /\ OwnsLease(s)
    /\ CompletedBy(sync[s].head)
    /\ cp' = [cp EXCEPT !.health = "OK", !.target = Null]
    /\ lease' = NoLease
    /\ owed' = Null
    /\ sync' = [sync EXCEPT ![s] = Resting]
    /\ UNCHANGED <<tip, canon, events, projection, op, track, settled>>

\* A check of the code fails and the call throws; the lease stays.
Stuck(s) ==
    LET me == sync[s] IN
    \/ me.pc = "claim" /\ (RemoteAt(me.head) = NoBlock \/ me.target < RequiredTarget)
    \/ me.pc = "rewind" /\ cp.block # NoBlock /\ RemoteAt(Number[cp.block]) = NoBlock
    \/ me.pc = "search" /\ (\/ ~OwnsLease(s) /\ (MaySearch(s) => LocalAt(me.n) = RemoteAt(me.n))
                            \/ MaySearch(s) /\ RemoteAt(me.n) = NoBlock)
    \/ me.pc = "rebuild" /\ (me.cur \notin Ancestry[tip] \/ ~OwnsLease(s) \/ cp.block # me.cur)
    \/ me.pc = "scan" /\ me.head - ScanStart + 1 > MaxBlocksPerSync
    \/ me.pc = "fetch" /\ ~Follows(RemoteAt(me.n))
    \/ /\ me.pc = "logs"
       /\ ~LogsAcceptable(me.n, me.cur) \/ ~OwnsLease(s) \/ ~Follows(me.cur)
    \/ me.pc \in {"project", "finish"} /\ ~OwnsLease(s)
    \/ me.pc = "finish" /\ me.head >= me.target /\ ~CompletedBy(me.head)
    \/ me.pc = "finish" /\ me.head < me.target /\ cp.block = NoBlock

ThrowSync(s) ==
    /\ Stuck(s)
    /\ sync' = [sync EXCEPT ![s] = Resting]
    /\ UNCHANGED <<tip, storeVars, track, settled>>

\* An RPC error or a process that stops, anywhere in the call.
CrashSync(s) ==
    /\ ~settled
    /\ sync[s].pc # "idle"
    /\ sync' = [sync EXCEPT ![s] = Resting]
    /\ UNCHANGED <<tip, storeVars, track, settled>>

----------------------------------------------------------------------------
(* The operation's lifecycle *)

\* recordSubmission: created and submitted in one go.
RegisterSubmission ==
    /\ op.state = "ABSENT"
    /\ op' = [op EXCEPT !.state = "SUBMITTED"]
    /\ UNCHANGED <<tip, canon, events, cp, lease, projection, sync, track, owed, settled>>

\* recordReplacement and recordDropped, from the states the table allows.
RecordLost(state) ==
    /\ op.state \in {"SUBMITTED", "REORGED"}
    /\ op' = [op EXCEPT !.state = state]
    /\ UNCHANGED <<tip, canon, events, cp, lease, projection, sync, track, owed, settled>>

\* trackOperation: the synchronized head is the healthy checkpoint.
BeginTrack(t) ==
    /\ track[t].pc = "idle"
    /\ op.state # "ABSENT"
    /\ SyncHealthy
    /\ cp.block # NoBlock
    /\ track' = [track EXCEPT ![t] = [Untracked EXCEPT !.pc = "receipt",
                                          !.seen = cp.block, !.op = op]]
    /\ UNCHANGED <<tip, storeVars, sync, settled>>

\* saveOperationAtCheckpoint: nothing moved since the operation was read.
Unmoved(t) ==
    /\ lease.owner = NoOwner
    /\ cp.block = track[t].seen
    /\ cp.projected = cp.block
    /\ cp.health = "OK"
    /\ cp.target = Null
    /\ op = track[t].op

ReceiptBlocks == {b \in Ancestry[tip] : TxResult[b] # "none"}

\* The receipt's block is canonical in the store; a reverted transaction has
\* nothing to reconcile.
TrackReceipt(t) ==
    /\ track[t].pc = "receipt"
    /\ \E b \in ReceiptBlocks \cap canon :
         /\ \/ track[t].op.state \in {"SUBMITTED", "REORGED"}
            \/ track[t].op.state \in Trackable /\ b \in Logged
         /\ track' = [track EXCEPT
               ![t].pc = IF track[t].op.state \in Trackable THEN "reconcile" ELSE "mined",
               ![t].receipt = b,
               ![t].event = b \in events]
    /\ UNCHANGED <<tip, storeVars, sync, settled>>

\* SUBMITTED and REORGED become MINED or REVERTED.
SaveMined(t) ==
    LET b == track[t].receipt IN
    /\ track[t].pc = "mined"
    /\ Unmoved(t)
    /\ op' = [state |-> IF b \in Logged THEN "MINED" ELSE "REVERTED",
              block |-> b, confirmations |-> 0]
    /\ track' = [track EXCEPT ![t] =
         IF b \in Logged
         THEN [@ EXCEPT !.pc = "reconcile", !.op = op', !.event = b \in events]
         ELSE Untracked]
    /\ UNCHANGED <<tip, canon, events, cp, lease, projection, sync, owed, settled>>

\* The expected event is missing or the contract disagrees.
ReconcileMismatch(t) ==
    /\ track[t].pc = "reconcile"
    /\ track[t].op.state # "RECONCILIATION_FAILED"
    /\ Unmoved(t)
    /\ op' = [track[t].op EXCEPT !.state = "RECONCILIATION_FAILED"]
    /\ track' = [track EXCEPT ![t] = Untracked]
    /\ UNCHANGED <<tip, canon, events, cp, lease, projection, sync, owed, settled>>

DepthAt(head, block) == Number[head] - Number[block] + 1

\* Mutant: the inclusion block counts twice.
SoftReadyMutant(depth) == depth + 1 >= SoftReadyDepth

SoftReady(depth) == depth >= SoftReadyDepth

ReconcileMatch(t) ==
    LET me == track[t]
        depth == DepthAt(me.seen, me.receipt)
    IN
    /\ me.pc = "reconcile"
    /\ me.event
    /\ me.receipt \in Ancestry[tip]      \* readVault requires it to be canonical
    /\ depth >= me.op.confirmations
    /\ Unmoved(t)
    /\ op' = [me.op EXCEPT !.state = IF SoftReady(depth) THEN "CONFIRMED"
                                     ELSE "CONFIRMING",
                           !.confirmations = depth]
    /\ track' = [track EXCEPT ![t] = Untracked]
    /\ UNCHANGED <<tip, canon, events, cp, lease, projection, sync, owed, settled>>

\* No receipt yet, a superseded save, an RPC error, a process that stops: the
\* call ends without a trace.
EndTrack(t) ==
    /\ track[t].pc # "idle"
    /\ track' = [track EXCEPT ![t] = Untracked]
    /\ UNCHANGED <<tip, storeVars, sync, settled>>

----------------------------------------------------------------------------

MoveTip(b) ==
    /\ ~settled
    /\ tip' = b
    /\ UNCHANGED <<storeVars, sync, track, settled>>

\* The remote chain comes to rest at least as high as everything seen before.
Settle ==
    /\ ~settled
    /\ \A b \in Blocks : Number[b] <= Number[tip]
    /\ settled' = TRUE
    /\ UNCHANGED <<tip, storeVars, sync, track>>

SyncStep(s) ==
    \/ BeginSync(s) \/ ClaimSync(s) \/ CheckCheckpoint(s) \/ Rewind(s)
    \/ SearchFurther(s) \/ GiveUp(s) \/ RecoverProjection(s) \/ CommitRecovered(s)
    \/ StartScan(s) \/ FetchBlock(s) \/ RecordCanonicalBlock(s) \/ CommitProjected(s)
    \/ RollbackProjected(s) \/ ReleaseSyncIncomplete(s) \/ MarkSyncHealthy(s)
    \/ ThrowSync(s)

TrackStep(t) ==
    BeginTrack(t) \/ TrackReceipt(t) \/ ReconcileMismatch(t) \/ ReconcileMatch(t)

\* A tracker is between reading the canonical block and saving its receipt, with
\* no await in between: in one process nothing else runs.
Held == ~Preemptible /\ \E t \in Trackers : track[t].pc = "mined"

Next ==
    \/ ~Held /\ \E s \in Syncers : SyncStep(s) \/ CrashSync(s)
    \/ ~Held /\ \E t \in Trackers : TrackStep(t)
    \/ ~Held /\ Trackers # {} /\ (RegisterSubmission \/ \E l \in {"REPLACED", "DROPPED"} : RecordLost(l))
    \/ ~Held /\ \E b \in Blocks : MoveTip(b)
    \/ ~Held /\ Settle
    \/ \E t \in Trackers : SaveMined(t) \/ EndTrack(t)

Spec == Init /\ [][Next]_vars

\* The runtime polls: a synchronizer that can take a step takes one.
FairSpec == Spec /\ \A s \in Syncers : WF_vars(SyncStep(s))

----------------------------------------------------------------------------
(* Properties *)

\* The stored canonical blocks are one hash-linked chain that ends in the
\* checkpoint, whatever synchronizers took the store over from one another in the
\* middle of a rewind or a scan (recordCanonicalBlock, rollbackFromBlock).
LinkedChain ==
    /\ cp.block = NoBlock <=> canon = {}
    /\ cp.block # NoBlock =>
         /\ cp.block \in canon
         /\ \A b \in canon : /\ Number[b] <= Number[cp.block]
                             /\ Parent[b] # NoBlock => Parent[b] \in canon
                             /\ \A c \in canon : Number[b] = Number[c] => b = c

\* What a reader is given was built at the checkpoint from the events stored now
\* (projection(), commitProjections): no torn read between an event snapshot taken
\* before an await and a store that moved on.
ReadsMatchStore ==
    Readable => projection = [block |-> cp.block, events |-> events]

\* An operation with a receipt points into the canonical chain: a reorg cannot
\* leave a confirmation behind, nor can a tracker that awaited while the store was
\* rewound bring one back (saveOperationAtCheckpoint).
OperationAnchored == op.state \in Anchored => op.block \in canon

\* The blocks form one chain, reads give what the store holds, and an operation rests on a block
\* of it, whoever holds the lease and wherever a process stopped.
StoreCoherent == LinkedChain /\ ReadsMatchStore /\ OperationAnchored

\* CONFIRMED is granted only for a successful transaction whose event is stored
\* and that is SoftReadyDepth deep below the healthy checkpoint.
ConfirmedWithEvidence ==
    [][op'.state = "CONFIRMED" /\ op.state # "CONFIRMED" =>
         /\ Readable
         /\ op'.block \in events
         /\ op'.block \in Logged
         /\ DepthAt(cp.block, op'.block) >= SoftReadyDepth]_vars

\* Reads reopen only once every target claimed since they closed is indexed:
\* neither a restart nor a request for a lower head reopens them (claimSync,
\* markSyncHealthy).
TargetsHonoured ==
    [][Readable' /\ ~Readable => Number[cp'.block] >= owed]_vars

\* Reads are open at the head, or the store reports a reorg beyond its search.
CaughtUp == (Readable /\ cp.block = tip) \/ cp.health \in {"DEPTH", "NO_ANCESTOR"}

\* Once the remote chain rests and calls stop failing, the store catches up with it
\* (one synchronizer).
EventuallyReadable == settled ~> CaughtUp

\* "a new database can replay from the trusted deployment block and reconstruct
\* canonical events": what readers see is what a replay of the blocks would store.
EventsReplayable ==
    Readable => events = canon \cap Logged
=============================================================================
