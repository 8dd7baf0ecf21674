--------------------------- MODULE MarketIndexer ---------------------------
(***************************************************************************)
(* The fair-launch market backend around the free AF-USDC claim: the event *)
(* indexer (indexer.ts) with its own database, the projection and voucher  *)
(* registry in the market store (projection.ts, store.ts), and the service *)
(* calls that share them: quoting a claim, submitting its transaction and  *)
(* polling its operation (service.ts).  All run in one Node process; a     *)
(* step is what one of them does between two awaits.                       *)
(*                                                                         *)
(* The remote chain is a finite forest of blocks; the RPC answers from the *)
(* branch that ends in tip.  An account stands for its registry row and    *)
(* linked wallet, and has one claim transaction, whose outcome in each     *)
(* block is given.  Market figures other than the number of claims, the    *)
(* logs of other contracts and the discovery of their addresses are left   *)
(* out: no control depends on them.                                        *)
(***************************************************************************)
EXTENDS Integers, FiniteSets

CONSTANTS
    Blocks, NoBlock,
    Parent,          \* [Blocks -> Blocks \cup {NoBlock}]
    Number,          \* [Blocks -> Nat]
    Accounts,
    Outcome,         \* [Blocks -> [Accounts -> Outcomes]]: the account's claim in that block
    DeploymentBlock, \* manifest.deploymentBlock
    MaxBlocks,       \* maxBlocksPerPoll
    ReorgSearch,     \* 128 in rewind
    CompletedDepth,  \* 3 in observeClaim and operation
    MaxClaims,       \* MAX_CLAIMS of the claim reserve, 100 in reserveClaim
    KillInRewind     \* the process may be killed between the two databases' commits

VARIABLES
    tip,       \* the remote chain, by its last block
    mined,     \* history: blocks that were ever on the remote chain
    settled,   \* history: the remote chain rests and calls stop failing
    index,     \* indexer database: canonical blocks, Claim logs and the cursor
    snapshots, \* market store: blocks of the canonical market_snapshots
    observed,  \* market store: canonical market_claim_events, as <<account, block>>
    voucher,   \* market store: market_claim_vouchers
    saved,     \* market store: accounts whose claim quote was saved and handed out (market_quotes)
    operation, \* market store: market_operations
    health,    \* the indexer's state
    tick,      \* memory of the indexer's poll
    quote,     \* memory of a claim quote: the successfulClaims it read, or Signed
    poll       \* memory of an operation poll

chainVars == <<tip, mined, settled>>
storeVars == <<snapshots, observed, voucher, saved, operation>>
apiVars == <<quote, poll>>
vars == <<chainVars, index, storeVars, health, tick, apiVars>>

Outcomes == {"none", "SUCCESS", "REVERTED"}
OrNone(S) == S \cup {NoBlock}
Null == -1
Signed == -2   \* a voucher is reserved and signed, and its claim is being simulated

\* The block and its ancestors.
Ancestry[b \in Blocks] ==
    {b} \cup (IF Parent[b] = NoBlock THEN {} ELSE Ancestry[Parent[b]])

ASSUME IndexerAssumption ==
    /\ NoBlock \notin Blocks
    /\ Parent \in [Blocks -> OrNone(Blocks)]
    /\ Number \in [Blocks -> Nat]
    /\ \A b \in Blocks : /\ Parent[b] = NoBlock => Number[b] = DeploymentBlock
                         /\ Parent[b] # NoBlock => Number[b] = Number[Parent[b]] + 1
    /\ Outcome \in [Blocks -> [Accounts -> Outcomes]]
    /\ DeploymentBlock \in Nat
    /\ MaxBlocks \in Nat \ {0}
    /\ ReorgSearch \in Nat \ {0}
    /\ CompletedDepth \in Nat \ {0}
    /\ MaxClaims \in Nat
    /\ KillInRewind \in BOOLEAN
    /\ IsFiniteSet(Accounts)
    \* one transaction is mined at most once on a branch
    /\ \A b \in Blocks, a \in Accounts :
         Cardinality({c \in Ancestry[b] : Outcome[c][a] # "none"}) <= 1

\* Claim logs of a set of blocks: a reverted transaction leaves none.
ClaimsIn(chain) ==
    {c \in Accounts \X chain : Outcome[c[2]][c[1]] = "SUCCESS"}

\* The claim reserve's own count and cap (AlphaForgeClaimReserve.claim).
ASSUME ContractCap ==
    \A b \in Blocks : Cardinality(ClaimsIn(Ancestry[b])) <= MaxClaims

\* The answer to header(n), and the canonical block the index has at n.
BlockAt(chain, n) ==
    IF \E b \in chain : Number[b] = n THEN CHOOSE b \in chain : Number[b] = n
    ELSE NoBlock
RemoteAt(n) == BlockAt(Ancestry[tip], n)
LocalAt(n) == BlockAt(index.blocks, n)
Canonical(b) == RemoteAt(Number[b]) = b

\* MarketProjector.latest: the highest canonical snapshot.
Latest ==
    IF snapshots = {} THEN NoBlock
    ELSE CHOOSE b \in snapshots : \A c \in snapshots : Number[c] <= Number[b]

VoucherStatus == {"NONE", "ISSUED", "SUBMITTED", "INCLUDED", "COMPLETED",
                  "REORGED", "REVERTED"}
OperationState == {"NONE", "SUBMITTED", "INCLUDED", "COMPLETED", "REORGED", "REVERTED"}
TickPcs == {"idle", "check", "search", "rollback", "scan", "logs", "verify",
            "snapshot", "publish"}

NoVoucher == [status |-> "NONE", live |-> FALSE, tx |-> FALSE]
NoOperation == [state |-> "NONE", block |-> NoBlock, error |-> "none"]
Resting == [pc |-> "idle", head |-> NoBlock, n |-> 0, to |-> NoBlock, got |-> {}]
NotPolling == [pc |-> "idle", old |-> NoOperation, receipt |-> NoBlock, canonical |-> FALSE]

Operations == [state : OperationState, block : OrNone(Blocks),
               error : {"none", "RECEIPT_REMOVED", "NON_CANONICAL_RECEIPT"}]

TypeOK ==
    /\ tip \in mined /\ mined \subseteq Blocks /\ settled \in BOOLEAN
    /\ index \in [blocks : SUBSET Blocks, claims : SUBSET (Accounts \X index.blocks),
                  cursor : OrNone(index.blocks)]
    /\ snapshots \subseteq Blocks
    /\ observed \subseteq Accounts \X Blocks
    /\ voucher \in [Accounts -> [status : VoucherStatus, live : BOOLEAN, tx : BOOLEAN]]
    /\ saved \subseteq Accounts
    /\ operation \in [Accounts -> Operations]
    /\ health \in {"SYNCING", "HEALTHY", "DEGRADED", "TOO_DEEP"}
    /\ tick \in [pc : TickPcs, head : OrNone(Blocks), n : Int, to : OrNone(Blocks),
                 got : SUBSET (Accounts \X Blocks)]
    /\ quote \in [Accounts -> Nat \cup {Null, Signed}]
    /\ poll \in [Accounts -> [pc : {"idle", "canonical", "finish"}, old : Operations,
                              receipt : OrNone(Blocks), canonical : BOOLEAN]]

Init ==
    /\ tip \in {b \in Blocks : /\ Parent[b] = NoBlock
                               /\ \A a \in Accounts : Outcome[b][a] = "none"}
    /\ mined = {tip}
    /\ settled = FALSE
    /\ index = [blocks |-> {}, claims |-> {}, cursor |-> NoBlock]
    /\ snapshots = {}
    /\ observed = {}
    /\ voucher = [a \in Accounts |-> NoVoucher]
    /\ saved = {}
    /\ operation = [a \in Accounts |-> NoOperation]
    /\ health = "SYNCING"
    /\ tick = Resting
    /\ quote = [a \in Accounts |-> Null]
    /\ poll = [a \in Accounts |-> NotPolling]

----------------------------------------------------------------------------
(* The indexer's poll: MarketEventIndexer.tick *)

Goto(pc) == tick' = [tick EXCEPT !.pc = pc]

\* The head is read; without a cursor there is nothing to rewind, and a cursor
\* above the head is searched from the head downwards.
BeginTick ==
    /\ tick.pc = "idle"
    /\ health' = "SYNCING"
    /\ tick' = [Resting EXCEPT
         !.head = tip, !.n = Number[tip],
         !.pc = IF index.cursor = NoBlock THEN "scan"
                ELSE IF Number[index.cursor] <= Number[tip] THEN "check" ELSE "search"]
    /\ UNCHANGED <<chainVars, index, storeVars, apiVars>>

CheckCursor ==
    LET remote == RemoteAt(Number[index.cursor]) IN
    /\ tick.pc = "check"
    /\ remote # NoBlock
    /\ tick' = IF remote = index.cursor THEN [tick EXCEPT !.pc = "scan"]
               ELSE [tick EXCEPT !.pc = "search", !.n = Number[index.cursor] - 1]
    /\ UNCHANGED <<chainVars, index, storeVars, health, apiVars>>

InReach(n) == n >= DeploymentBlock /\ Number[index.cursor] - n <= ReorgSearch

\* rewind's transaction on the indexer database, keeping the blocks up to n; the
\* projection's rollback is a second transaction on another database.
RewindTo(n) ==
    /\ index' = [blocks |-> {b \in index.blocks : Number[b] <= n},
                 claims |-> {c \in index.claims : Number[c[2]] <= n},
                 cursor |-> LocalAt(n)]
    /\ tick' = [tick EXCEPT !.pc = "rollback", !.n = n]
    /\ UNCHANGED <<chainVars, storeVars, health, apiVars>>

SearchHit ==
    /\ tick.pc = "search" /\ InReach(tick.n)
    /\ RemoteAt(tick.n) = LocalAt(tick.n)
    /\ RewindTo(tick.n)

SearchMiss ==
    /\ tick.pc = "search" /\ InReach(tick.n)
    /\ RemoteAt(tick.n) \notin {NoBlock, LocalAt(tick.n)}
    /\ tick' = [tick EXCEPT !.n = @ - 1]
    /\ UNCHANGED <<chainVars, index, storeVars, health, apiVars>>

\* No common ancestor within the search: a short chain is replayed from the
\* deployment block, a longer one fails with INDEX_REORG_DEPTH_EXCEEDED.
SearchEnd ==
    /\ tick.pc = "search" /\ ~InReach(tick.n)
    /\ Number[index.cursor] - DeploymentBlock < ReorgSearch
    /\ RewindTo(DeploymentBlock - 1)

SearchExhausted ==
    /\ tick.pc = "search" /\ ~InReach(tick.n)
    /\ Number[index.cursor] - DeploymentBlock >= ReorgSearch
    /\ tick' = Resting
    /\ health' = "TOO_DEEP"
    /\ UNCHANGED <<chainVars, index, storeVars, apiVars>>

RolledBack(n) == {c \in observed : Number[c[2]] > n}

\* Off by one: what was projected at the first replaced height stays.
RollbackFromMutant(n) ==
    /\ snapshots' = {b \in snapshots : Number[b] <= n + 1}
    /\ observed' = {c \in observed : Number[c[2]] <= n + 1}
    /\ voucher' = voucher

\* A reorganised claim may be issued again.
RollbackReopensMutant(n) ==
    /\ snapshots' = {b \in snapshots : Number[b] <= n}
    /\ observed' = observed \ RolledBack(n)
    /\ voucher' = [a \in Accounts |->
         IF \E c \in RolledBack(n) : c[1] = a
         THEN [voucher[a] EXCEPT !.status = "ISSUED", !.tx = FALSE] ELSE voucher[a]]

\* MarketProjector.rollbackFrom and rollbackClaims, one transaction on the store.
RollbackFrom(n) ==
    /\ snapshots' = {b \in snapshots : Number[b] <= n}
    /\ observed' = observed \ RolledBack(n)
    /\ voucher' = [a \in Accounts |->
         IF voucher[a].tx /\ \E c \in RolledBack(n) : c[1] = a
         THEN [voucher[a] EXCEPT !.status = "REORGED"] ELSE voucher[a]]

RollbackProjection ==
    /\ tick.pc = "rollback"
    /\ RollbackFrom(tick.n)
    /\ Goto("scan")
    /\ UNCHANGED <<chainVars, index, saved, operation, health, apiVars>>

ScanFrom == IF index.cursor = NoBlock THEN DeploymentBlock ELSE Number[index.cursor] + 1
ScanTo ==
    IF ScanFrom + MaxBlocks - 1 < Number[tick.head] THEN ScanFrom + MaxBlocks - 1
    ELSE Number[tick.head]

NothingToScan ==
    /\ tick.pc = "scan"
    /\ ScanFrom > ScanTo
    /\ Goto("snapshot")
    /\ UNCHANGED <<chainVars, index, storeVars, health, apiVars>>

\* The blocks a scan covers, by the last one.
Segment(to) == {b \in Ancestry[to] : Number[b] >= ScanFrom}

\* Every header is there, its parent is the one before it, and the first one's
\* parent is the cursor.
Linked(to) ==
    /\ to # NoBlock
    /\ index.cursor # NoBlock => Parent[BlockAt(Segment(to), ScanFrom)] = index.cursor

FetchHeaders ==
    LET to == RemoteAt(ScanTo) IN
    /\ tick.pc = "scan"
    /\ ScanFrom <= ScanTo
    /\ Linked(to)
    /\ tick' = [tick EXCEPT !.pc = "logs", !.to = to]
    /\ UNCHANGED <<chainVars, index, storeVars, health, apiVars>>

\* eth_getLogs by height: a log of another block than the header's is refused, an
\* absent one cannot be noticed.
LogsAcceptable ==
    \A b \in Segment(tick.to) :
        LET remote == RemoteAt(Number[b]) IN
        remote # b /\ remote # NoBlock => ClaimsIn({remote}) = {}

FetchLogs ==
    /\ tick.pc = "logs"
    /\ LogsAcceptable
    /\ tick' = [tick EXCEPT !.pc = "verify",
                            !.got = ClaimsIn(Segment(tick.to) \cap Ancestry[tip])]
    /\ UNCHANGED <<chainVars, index, storeVars, health, apiVars>>

\* The last header is asked for again, then headers, logs and cursor are stored
\* in one transaction.  Below the head the poll ends here.
CommitScan ==
    /\ tick.pc = "verify"
    /\ Canonical(tick.to)
    /\ index' = [blocks |-> index.blocks \cup Segment(tick.to),
                 claims |-> index.claims \cup tick.got,
                 cursor |-> tick.to]
    /\ tick' = IF Number[tick.to] < Number[tick.head] THEN Resting
               ELSE [tick EXCEPT !.pc = "snapshot"]
    /\ UNCHANGED <<chainVars, storeVars, health, apiVars>>

\* readSnapshotAt(cursor): refused unless the cursor is canonical.
ReadSnapshot ==
    /\ tick.pc = "snapshot"
    /\ Canonical(index.cursor)
    /\ Goto("publish")
    /\ UNCHANGED <<chainVars, index, storeVars, health, apiVars>>

\* A republication of the latest block is taken for an old update.
MayCommitMutant(block) ==
    Latest # NoBlock => Number[block] > Number[Latest] /\ Canonical(Latest)

\* MarketProjector.commit: the new snapshot follows the latest one.
MayCommit(block) ==
    Latest # NoBlock =>
        \/ block = Latest /\ RemoteAt(Number[Latest]) # NoBlock
        \/ Number[block] > Number[Latest] /\ Canonical(Latest)

Depth(head, block) == Number[head] - Number[block] + 1

\* one_canonical_account_claim: a second canonical event of an account aborts.
OneClaimEach(events) == \A c, d \in events : c[1] = d[1] => c = d

\* observeClaim for every canonical Claim log of the index.
ObserveClaims(claims, block) ==
    /\ OneClaimEach(observed \cup claims)
    /\ observed' = observed \cup claims
    /\ voucher' = [a \in Accounts |->
         IF \E c \in claims : c[1] = a /\ voucher[a].status # "NONE"
         THEN LET c == CHOOSE c \in claims : c[1] = a IN
              [voucher[a] EXCEPT !.tx = TRUE,
                 !.status = IF Depth(block, c[2]) >= CompletedDepth THEN "COMPLETED"
                            ELSE "INCLUDED"]
         ELSE voucher[a]]

Publish ==
    /\ tick.pc = "publish"
    /\ MayCommit(index.cursor)
    /\ snapshots' = snapshots \cup {index.cursor}
    /\ ObserveClaims(index.claims, index.cursor)
    /\ health' = "HEALTHY"
    /\ tick' = Resting
    /\ UNCHANGED <<chainVars, index, saved, operation, apiVars>>

\* An answer the poll cannot go on with.
Refused ==
    \/ tick.pc = "check" /\ RemoteAt(Number[index.cursor]) = NoBlock
    \/ tick.pc = "search" /\ InReach(tick.n) /\ RemoteAt(tick.n) = NoBlock
    \/ tick.pc = "scan" /\ ScanFrom <= ScanTo /\ ~Linked(RemoteAt(ScanTo))
    \/ tick.pc = "logs" /\ ~LogsAcceptable
    \/ tick.pc = "verify" /\ ~Canonical(tick.to)
    \/ tick.pc = "snapshot" /\ ~Canonical(index.cursor)
    \/ /\ tick.pc = "publish"
       /\ ~MayCommit(index.cursor) \/ ~OneClaimEach(observed \cup index.claims)

\* A refused answer or a failed call ends the poll; the timer starts the next.
ThrowTick ==
    /\ tick.pc \notin {"idle", "rollback"}
    /\ Refused \/ ~settled
    /\ tick' = Resting
    /\ health' = "DEGRADED"
    /\ UNCHANGED <<chainVars, index, storeVars, apiVars>>

----------------------------------------------------------------------------
(* The service: claim quotes, submissions and operation polls *)

\* readIndexedSnapshot: the latest snapshot, or the remote head before the first
\* one; refused unless canonical at that moment.
SnapshotBlock == IF snapshots = {} THEN tip ELSE Latest
SnapshotAvailable == Canonical(SnapshotBlock)

\* quote reads the snapshot, then awaits the wallet and the signing policy.
QuoteClaim(a) ==
    LET claims == Cardinality(ClaimsIn(Ancestry[SnapshotBlock])) IN
    /\ quote[a] = Null
    /\ SnapshotAvailable
    /\ claims < MaxClaims
    /\ quote' = [quote EXCEPT ![a] = claims]
    /\ UNCHANGED <<chainVars, index, storeVars, health, tick, poll>>

Unresolved ==
    {a \in Accounts : \/ voucher[a].status = "ISSUED" /\ voucher[a].live
                      \/ voucher[a].status \in {"SUBMITTED", "REORGED", "REVERTED"}}

\* The registry accounts for every observed claim.
RegistryComplete ==
    \A c \in observed : voucher[c[1]].tx /\ voucher[c[1]].status \in {"INCLUDED", "COMPLETED"}

\* reserveClaim: a first voucher, the same one again with a new deadline once it expired unused, or
\* the live one as it is.
MayReserve(a) ==
    \/ voucher[a].status = "NONE"
    \/ ~voucher[a].tx /\ voucher[a].status = "ISSUED" /\ ~voucher[a].live

MayReuse(a) == ~voucher[a].tx /\ voucher[a].status = "ISSUED" /\ voucher[a].live

ReserveClaim(a) ==
    /\ quote[a] \notin {Null, Signed}
    /\ Cardinality(observed) = quote[a]
    /\ RegistryComplete
    /\ \A c \in observed : c[1] # a
    /\ \/ /\ MayReserve(a)
          /\ quote[a] + Cardinality(Unresolved) < MaxClaims
          /\ voucher' = [voucher EXCEPT ![a] = [status |-> "ISSUED", live |-> TRUE, tx |-> FALSE]]
       \/ MayReuse(a) /\ UNCHANGED voucher
    /\ quote' = [quote EXCEPT ![a] = Signed]
    /\ UNCHANGED <<chainVars, index, snapshots, observed, saved, operation, health, tick, poll>>

\* What the claim reserve accepts at the head: the cap, the account's first claim, the deadline.
ClaimAccepted(a) ==
    LET claims == ClaimsIn(Ancestry[tip]) IN
    /\ Cardinality(claims) < MaxClaims
    /\ \A c \in claims : c[1] # a
    /\ voucher[a].live

\* chain.simulate accepts the claim at the head: the quote is saved and handed out.
SimulateClaim(a) ==
    /\ quote[a] = Signed
    /\ ClaimAccepted(a)
    /\ saved' = saved \cup {a}
    /\ quote' = [quote EXCEPT ![a] = Null]
    /\ UNCHANGED <<chainVars, index, snapshots, observed, voucher, operation, health, tick, poll>>

\* Any error of the quote, the simulation's included: nothing is handed out, and a voucher that was
\* reserved stays reserved until its deadline.
EndQuote(a) ==
    /\ quote[a] # Null
    /\ quote' = [quote EXCEPT ![a] = Null]
    /\ UNCHANGED <<chainVars, index, storeVars, health, tick, poll>>

\* submit: the transaction of a saved quote was seen on the network; the voucher is
\* marked unless the indexer has already attached it.
Submit(a) ==
    /\ a \in saved
    /\ operation[a].state = "NONE"
    /\ operation' = [operation EXCEPT ![a].state = "SUBMITTED"]
    /\ voucher' = IF voucher[a].tx THEN voucher
                  ELSE [voucher EXCEPT ![a].status = "SUBMITTED", ![a].tx = TRUE]
    /\ UNCHANGED <<chainVars, index, snapshots, observed, saved, health, tick, apiVars>>

\* updateOperation: the operation's row and the status of the voucher with the
\* same transaction hash.
UpdateOperation(a, next) ==
    /\ operation' = [operation EXCEPT ![a] = next]
    /\ voucher' = IF voucher[a].tx THEN [voucher EXCEPT ![a].status = next.state]
                  ELSE voucher

Receipts(a) == {b \in Ancestry[tip] : Outcome[b][a] # "none"}

\* No receipt: an operation that had a place was reorganised away.
PollRemoved(a) ==
    LET next == [operation[a] EXCEPT !.state = "REORGED", !.error = "RECEIPT_REMOVED"] IN
    /\ poll[a].pc = "idle"
    /\ operation[a].block # NoBlock
    /\ Receipts(a) = {}
    /\ next # operation[a]
    /\ UpdateOperation(a, next)
    /\ UNCHANGED <<chainVars, index, snapshots, observed, saved, health, tick, apiVars>>

PollReceipt(a) ==
    /\ poll[a].pc = "idle"
    /\ operation[a].state # "NONE"
    /\ \E b \in Receipts(a) :
         poll' = [poll EXCEPT ![a] = [NotPolling EXCEPT
                    !.pc = "canonical", !.old = operation[a], !.receipt = b]]
    /\ UNCHANGED <<chainVars, index, storeVars, health, tick, quote>>

PollCanonical(a) ==
    /\ poll[a].pc = "canonical"
    /\ poll' = [poll EXCEPT ![a].pc = "finish", ![a].canonical = Canonical(poll[a].receipt)]
    /\ UNCHANGED <<chainVars, index, storeVars, health, tick, quote>>

Confirmations(b) ==
    LET depth == Depth(SnapshotBlock, b) IN IF depth > 0 THEN depth ELSE 0

\* What the operation becomes, from the row read before the awaits.
NextOperation(a) ==
    LET p == poll[a] IN
    IF ~p.canonical
    THEN [p.old EXCEPT !.state = "REORGED", !.error = "NON_CANONICAL_RECEIPT"]
    ELSE [block |-> p.receipt, error |-> "none",
          state |-> IF Outcome[p.receipt][a] = "REVERTED" THEN "REVERTED"
                    ELSE IF Confirmations(p.receipt) >= CompletedDepth THEN "COMPLETED"
                    ELSE "INCLUDED"]

PollFinish(a) ==
    LET next == NextOperation(a) IN
    /\ poll[a].pc = "finish"
    /\ SnapshotAvailable
    \* an equal row is not written; a located one may differ in the confirmations
    \* and the snapshot version it also carries
    /\ \/ (next # poll[a].old \/ poll[a].canonical) /\ UpdateOperation(a, next)
       \/ next = poll[a].old /\ UNCHANGED <<operation, voucher>>
    /\ poll' = [poll EXCEPT ![a] = NotPolling]
    /\ UNCHANGED <<chainVars, index, snapshots, observed, saved, health, tick, quote>>

PollFail(a) ==
    /\ poll[a].pc # "idle"
    /\ poll' = [poll EXCEPT ![a] = NotPolling]
    /\ UNCHANGED <<chainVars, index, storeVars, health, tick, quote>>

----------------------------------------------------------------------------
(* Time, the remote chain and the process *)

ExpireVoucher(a) ==
    /\ voucher[a].live
    /\ voucher' = [voucher EXCEPT ![a].live = FALSE]
    /\ UNCHANGED <<chainVars, index, snapshots, observed, saved, operation, health, tick, apiVars>>

\* A claim is first mined after it was handed out and while its voucher is live
\* (AlphaForgeClaimReserve.claim), one that reverts at any time after it was handed
\* out.  A voucher that is reserved again is not told from the quote it replaces.
MoveTip(b) ==
    /\ ~settled
    /\ \A c \in Ancestry[b] \ mined, a \in Accounts :
         /\ Outcome[c][a] = "SUCCESS" => a \in saved /\ voucher[a].live
         /\ Outcome[c][a] = "REVERTED" => a \in saved
    /\ tip' = b
    /\ mined' = mined \cup Ancestry[b]
    /\ UNCHANGED <<settled, index, storeVars, health, tick, apiVars>>

\* The remote chain comes to rest at least as high as everything seen before.
Settle ==
    /\ ~settled
    /\ \A b \in mined : Number[b] <= Number[tip]
    /\ settled' = TRUE
    /\ UNCHANGED <<tip, mined, index, storeVars, health, tick, apiVars>>

\* The process stops and starts again; both databases stay.
Crash ==
    /\ ~settled
    /\ tick.pc = "rollback" => KillInRewind
    /\ tick' = Resting
    /\ health' = "SYNCING"
    /\ quote' = [a \in Accounts |-> Null]
    /\ poll' = [a \in Accounts |-> NotPolling]
    /\ UNCHANGED <<chainVars, index, storeVars>>

----------------------------------------------------------------------------

TickStep ==
    \/ BeginTick \/ CheckCursor \/ SearchHit \/ SearchMiss \/ SearchEnd
    \/ SearchExhausted \/ RollbackProjection \/ NothingToScan \/ FetchHeaders
    \/ FetchLogs \/ CommitScan \/ ReadSnapshot \/ Publish \/ ThrowTick

ServiceStep(a) ==
    \/ QuoteClaim(a) \/ ReserveClaim(a) \/ SimulateClaim(a) \/ EndQuote(a) \/ Submit(a)
    \/ PollRemoved(a) \/ PollReceipt(a) \/ PollCanonical(a) \/ PollFinish(a)
    \/ PollFail(a) \/ ExpireVoucher(a)

\* No await separates rewind's two commits: nothing else of the process runs.
Held == tick.pc = "rollback"

Next ==
    \/ TickStep
    \/ Crash
    \/ ~Held /\ \E a \in Accounts : ServiceStep(a)
    \/ ~Held /\ \E b \in Blocks : MoveTip(b)
    \/ ~Held /\ Settle

Spec == Init /\ [][Next]_vars

\* The indexer's timer keeps polling.
FairSpec == Spec /\ WF_vars(TickStep)

----------------------------------------------------------------------------
(* Properties *)

\* The index's canonical blocks are exactly the chain that ends in its cursor,
\* although head, headers and logs are read by separate calls while the remote
\* chain reorganises (rewind, scan).
IndexIsOneChain ==
    index.blocks = IF index.cursor = NoBlock THEN {} ELSE Ancestry[index.cursor]

\* What the market store holds as canonical is on the index's chain: no snapshot
\* or claim of a replaced branch outlives the rewind that replaced it (rewind,
\* rollbackFrom), as long as both commits of a rewind happen.
ProjectionFollowsIndex ==
    ~Held => snapshots \subseteq index.blocks /\ observed \subseteq index.claims

\* HEALTHY means the projection is at the cursor and every indexed claim is
\* observed (tick, publish).
HealthyMeansPublished ==
    health = "HEALTHY" => Latest = index.cursor /\ observed = index.claims

\* All three: of the store as long as the process is not killed between the two commits of a rewind.
IndexCoherent ==
    /\ TypeOK /\ IndexIsOneChain
    /\ ~KillInRewind => ProjectionFollowsIndex /\ HealthyMeansPublished

\* "no second voucher is silently issued": an account whose transaction was
\* submitted or observed never gets a fresh voucher, whatever reorgs and late
\* polls do to its status (reserveClaim, rollbackClaims, updateOperation).
SpentStaysSpent ==
    [][\A a \in Accounts : voucher[a].tx => voucher'[a].tx /\ voucher'[a].status # "ISSUED"]_vars

\* What the market keeps of the chain stays coherent (rewind, scan, publish), and what it knows to be
\* spent stays spent (reserveClaim, rollbackClaims).
MarketCoherent == []IndexCoherent /\ SpentStaysSpent

\* The head is published, or too far from what is indexed.
Published == (health = "HEALTHY" /\ Latest = tip) \/ health = "TOO_DEEP"

\* "durable projections support replay, reconnects, and reorg recovery": once the
\* chain rests and calls stop failing, the indexer publishes its head, unless the
\* reorg was deeper than its search.
EventuallyHealthy == settled ~> Published
=============================================================================
