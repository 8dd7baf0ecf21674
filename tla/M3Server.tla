------------------------------ MODULE M3Server ------------------------------
(***************************************************************************)
(* The Vault backend around the chain indexer: m3-startup.ts polls one     *)
(* M3ChainRuntime, which brings its two contracts (the Vault and its PASS) *)
(* up to the head and then tracks a page of the reported operations.  Here *)
(* an operation is the whole ChainOperation of lifecycle.ts, as the store  *)
(* validates it (validateOperationEvidence), the rollback's UPDATE changes *)
(* it and the evidence route reads it.  Reports are not verified when they *)
(* arrive: several of them, true or not, may name one transaction.         *)
(*                                                                         *)
(* One synchronisation of a contract is one step here; ChainSync has its   *)
(* parts.  The network's chain is the sequence of its block hashes: a      *)
(* reorganisation replaces the last blocks by as many others.              *)
(***************************************************************************)
EXTENDS Integers, Sequences, FiniteSets

CONSTANTS
    OpIds,          \* operation ids, numbers in their SQL order
    PageLimit,      \* operations tracked in one poll (100)
    PerSync,        \* maxBlocksPerSync
    ReadyDepth,     \* softReadyDepth
    AncestryLimit,  \* MAX_PRODUCT_EVIDENCE_ANCESTRY_BLOCKS
    MaxHeight,      \* bound on the chain
    M3Faults        \* what a behaviour may start with: [reports, reorgs, faults, lost, closes],
                    \* the reports <<id, claim>> that may arrive, and the bounds.  A claim is [tx, target,
                    \* kind]: kind is "true", "stranger" (another owner than the sender) or "other" (a
                    \* call that was not made)

VARIABLES
    net,      \* the network: its chain, the transactions ever included, the next hash, at rest or not
    rows,     \* chain_transactions
    indexes,    \* per contract: the canonical blocks and the health of its checkpoint
    daemon,   \* the process: runtime, poll and page
    refused,  \* the store refused an operation's evidence
    pool      \* what is left of the bounds

m3ServerVars == <<net, rows, indexes, daemon, refused, pool>>

Contracts == {"vault", "pass"}

ASSUME M3Assumption ==
    /\ OpIds \subseteq Nat \ {0} /\ IsFiniteSet(OpIds) /\ {PageLimit, PerSync, ReadyDepth, AncestryLimit, MaxHeight} \subseteq Nat
    /\ \A f \in M3Faults :
          /\ f \in [reports : {f.reports}, reorgs : Nat, faults : Nat, lost : Nat, closes : Nat]
          /\ \A r \in f.reports :
                r[1] \in OpIds /\ r[2] \in [tx : {r[2].tx}, target : Contracts, kind : {"true", "stranger", "other"}]

NoOp == [state |-> "NONE"]

\* createOperation, then SUBMITTED
Submitted(claim) ==
    [claim |-> claim, state |-> "SUBMITTED", sent |-> TRUE, n |-> 0, at |-> 0, receipt |-> "none",
     confirmations |-> 0, replacement |-> FALSE, canonical |-> FALSE, reconciled |-> FALSE,
     confirmedAt |-> FALSE, error |-> "none"]

Transitions ==
    [SUBMITTED |-> {"MINED", "REVERTED", "REPLACED", "DROPPED"},
     MINED |-> {"CONFIRMING", "RECONCILIATION_FAILED", "REORGED"},
     CONFIRMING |-> {"CONFIRMING", "CONFIRMED", "RECONCILIATION_FAILED", "REORGED"},
     CONFIRMED |-> {"REORGED"}, REVERTED |-> {"REORGED"}, REPLACED |-> {}, DROPPED |-> {},
     REORGED |-> {"MINED", "REVERTED", "REPLACED", "DROPPED"},
     RECONCILIATION_FAILED |-> {"CONFIRMING", "REORGED"}]

Allowed(row, state) == state \in Transitions[row.state]

\* transitionOperation to MINED and REVERTED
Included(row, n, at, ok) ==
    [row EXCEPT !.state = IF ok THEN "MINED" ELSE "REVERTED", !.n = n, !.at = at,
                !.receipt = IF ok THEN "SUCCESS" ELSE "REVERTED", !.confirmations = 0,
                !.canonical = TRUE, !.reconciled = FALSE, !.confirmedAt = FALSE,
                !.error = IF ok THEN "none" ELSE "TRANSACTION_REVERTED"]

\* to CONFIRMING and CONFIRMED
Matched(row, depth) ==
    [row EXCEPT !.state = IF depth >= ReadyDepth THEN "CONFIRMED" ELSE "CONFIRMING",
                !.confirmations = depth, !.canonical = IF depth >= ReadyDepth THEN TRUE ELSE @,
                !.reconciled = TRUE, !.confirmedAt = depth >= ReadyDepth, !.error = "none"]

\* to RECONCILIATION_FAILED
Mismatched(row, code) ==
    [row EXCEPT !.state = "RECONCILIATION_FAILED", !.reconciled = FALSE, !.confirmedAt = FALSE, !.error = code]

\* to REPLACED and DROPPED
GivenUp(row, state) ==
    [row EXCEPT !.state = state, !.replacement = state = "REPLACED", !.canonical = FALSE, !.reconciled = FALSE,
                !.confirmedAt = FALSE,
                !.error = IF state = "REPLACED" THEN "TRANSACTION_REPLACED" ELSE "TRANSACTION_DROPPED"]

\* The UPDATE of rollbackFromBlock
Displaced(row, from) ==
    IF row.state \in {"MINED", "CONFIRMING", "CONFIRMED", "REVERTED", "RECONCILIATION_FAILED"} /\ row.n >= from
    THEN [row EXCEPT !.state = "REORGED", !.canonical = FALSE, !.reconciled = FALSE, !.confirmedAt = FALSE,
                     !.error = "CHAIN_REORG"]
    ELSE row

\* validateOperationEvidence
ValidEvidence(row) ==
    LET noBlock == row.at = 0 /\ row.receipt = "none"
        pending == ~row.confirmedAt /\ ~row.canonical /\ ~row.reconciled
        lost == (noBlock /\ row.confirmations = 0) \/ (row.at # 0 /\ row.receipt # "none")
        success == row.at # 0 /\ row.receipt = "SUCCESS" /\ ~row.replacement /\ row.canonical
    IN
    /\ row.sent
    /\ CASE row.state = "SUBMITTED" ->
                noBlock /\ row.confirmations = 0 /\ ~row.replacement /\ pending /\ row.error = "none"
         [] row.state = "MINED" ->
                success /\ row.confirmations = 0 /\ ~row.reconciled /\ ~row.confirmedAt /\ row.error = "none"
         [] row.state = "CONFIRMING" -> success /\ ~row.confirmedAt /\ row.error = "none"
         [] row.state = "CONFIRMED" -> success /\ row.reconciled /\ row.confirmedAt /\ row.error = "none"
         [] row.state = "REVERTED" ->
                /\ row.at # 0 /\ row.receipt = "REVERTED" /\ ~row.replacement /\ row.canonical
                /\ ~row.reconciled /\ ~row.confirmedAt /\ row.error = "TRANSACTION_REVERTED"
         [] row.state = "REPLACED" -> lost /\ row.replacement /\ pending /\ row.error = "TRANSACTION_REPLACED"
         [] row.state = "DROPPED" -> lost /\ ~row.replacement /\ pending /\ row.error = "TRANSACTION_DROPPED"
         [] row.state = "REORGED" ->
                row.at # 0 /\ row.receipt # "none" /\ ~row.replacement /\ pending /\ row.error = "CHAIN_REORG"
         [] row.state = "RECONCILIATION_FAILED" ->
                /\ success /\ ~row.reconciled /\ ~row.confirmedAt
                /\ row.error \in {"EVENT_EVIDENCE_MISMATCH", "CONTRACT_STATE_MISMATCH"}

Stored == {o \in OpIds : rows[o] # NoOp}

\* saveOperation: the evidence is validated, and the unique index has one reconciled operation
\* for a transaction.  Otherwise the call throws.
Save(o, row) ==
    LET taken == \E p \in Stored \ {o} : rows[p].reconciled /\ row.reconciled /\ rows[p].claim.tx = row.claim.tx IN
    /\ refused' = (refused \/ ~ValidEvidence(row))
    /\ rows' = IF ValidEvidence(row) /\ ~taken THEN [rows EXCEPT ![o] = row] ELSE rows

----------------------------------------------------------------------------
(* The network *)

Hashes == {net.chain[i] : i \in 1 .. Len(net.chain)}
ReceiptOf(tx) == {f \in net.facts : f.tx = tx /\ f.at \in Hashes}
Txs == {r[2].tx : r \in pool.reports}

\* A new block, with some of the pending transactions.  The last blocks are empty.
Grow ==
    /\ Len(net.chain) < MaxHeight
    /\ \E txs \in SUBSET {tx \in Txs : ReceiptOf(tx) = {}}, ok \in BOOLEAN :
         /\ txs # {} => Len(net.chain) + 1 + ReadyDepth - 1 <= MaxHeight
         /\ txs = {} => ok
         /\ net' = [net EXCEPT !.chain = Append(@, net.next), !.next = @ + 1,
                               !.facts = @ \cup {[tx |-> tx, at |-> net.next, ok |-> ok] : tx \in txs}]
    /\ UNCHANGED <<rows, indexes, daemon, refused, pool>>

\* The last k blocks are replaced; their transactions are pending again or in the first of the others.
Reorganise ==
    /\ ~net.calm /\ pool.reorgs > 0
    /\ \E k \in 1 .. Len(net.chain) - 1, again \in BOOLEAN :
         LET kept == SubSeq(net.chain, 1, Len(net.chain) - k)
             gone == {f \in net.facts : f.at \in Hashes \ {kept[i] : i \in 1 .. Len(kept)}}
         IN  net' = [net EXCEPT !.chain = kept \o [i \in 1 .. k |-> net.next + i - 1], !.next = @ + k,
                                !.facts = IF again THEN @ \cup {[f EXCEPT !.at = net.next] : f \in gone} ELSE @]
    /\ pool' = [pool EXCEPT !.reorgs = @ - 1]
    /\ UNCHANGED <<rows, indexes, daemon, refused>>

\* No more reorganisations and failures.
ComeToRest ==
    /\ ~net.calm
    /\ net' = [net EXCEPT !.calm = TRUE]
    /\ UNCHANGED <<rows, indexes, daemon, refused, pool>>

----------------------------------------------------------------------------
(* Reports *)

\* operationByTransaction and operationBySubmission find nothing.
Bindable(claim) ==
    \A p \in Stored : (rows[p].claim.tx = claim.tx => ~rows[p].reconciled) /\ rows[p].claim # claim

\* recordSubmission: a new id, for a transaction no operation is bound to, and not the same again.
Report(o, claim) ==
    /\ daemon.phase \in {"open", "closing"}
    /\ rows[o] = NoOp
    /\ Bindable(claim)
    /\ Save(o, Submitted(claim))
    /\ UNCHANGED <<net, indexes, daemon, pool>>

\* recordReplacement and recordDropped
RecordGone(o, state) ==
    /\ daemon.phase \in {"open", "closing"} /\ pool.lost > 0
    /\ rows[o] # NoOp /\ Allowed(rows[o], state)
    /\ Save(o, GivenUp(rows[o], state))
    /\ pool' = [pool EXCEPT !.lost = @ - 1]
    /\ UNCHANGED <<net, indexes, daemon>>

----------------------------------------------------------------------------
(* One poll: syncToHead *)

Idle == [pc |-> "idle", head |-> <<>>, caught |-> TRUE, page |-> <<>>, seen |-> <<>>, row |-> NoOp, receipt |-> 0]
Booted == [phase |-> "starting", poll |-> Idle, cursor |-> [c \in Contracts |-> 0], last |-> "NOT_RUN"]
Poll == daemon.poll

SetPoll(poll) == daemon' = [daemon EXCEPT !.poll = poll]

\* The poll ends: the first one opens the server, whatever its result.
EndPoll(result) ==
    [daemon EXCEPT !.poll = Idle, !.last = result, !.phase = IF @ = "starting" THEN "open" ELSE @]

\* syncNow, the timer and the start: one poll at a time, on the head it reads.
BeginPoll ==
    /\ daemon.phase \in {"starting", "open"} /\ Poll.pc = "idle"
    /\ SetPoll([Idle EXCEPT !.pc = "vault", !.head = net.chain])
    /\ UNCHANGED <<net, rows, indexes, refused, pool>>

CommonLength(a, b) ==
    CHOOSE k \in 0 .. Len(a) :
        /\ k <= Len(b) /\ SubSeq(a, 1, k) = SubSeq(b, 1, k)
        /\ k < Len(a) /\ k < Len(b) => a[k + 1] # b[k + 1]

\* syncContract: rewind to the common ancestor, then at most PerSync blocks.  When the rewind makes the
\* range too long the call throws after it.
SyncTheContract(c) ==
    LET mine == indexes[c].chain
        start == Len(mine) + 1
        head == Len(Poll.head)
        bounded == IF start + PerSync - 1 < head THEN start + PerSync - 1 ELSE head
        common == CommonLength(mine, net.chain)
        fits == bounded - common <= PerSync
    IN
    /\ Poll.pc = c
    /\ rows' = [o \in OpIds |-> IF o \in Stored /\ rows[o].claim.target = c /\ common < Len(mine)
                                THEN Displaced(rows[o], common + 1) ELSE rows[o]]
    /\ indexes' = [indexes EXCEPT ![c] = [chain |-> SubSeq(net.chain, 1, IF fits THEN bounded ELSE common),
                                      healthy |-> fits /\ bounded = head]]
    /\ daemon' = IF fits THEN [daemon EXCEPT !.poll.pc = IF c = "vault" THEN "pass" ELSE "page",
                                             !.poll.caught = @ /\ bounded >= head]
                 ELSE EndPoll("FAILED")
    /\ UNCHANGED <<net, refused, pool>>

\* A call of the poll fails; a contract whose synchronisation was under way stays closed.
PollFails ==
    /\ ~net.calm /\ pool.faults > 0 /\ Poll.pc \in Contracts
    /\ indexes' = [indexes EXCEPT ![Poll.pc].healthy = FALSE]
    /\ daemon' = EndPoll("FAILED")
    /\ pool' = [pool EXCEPT !.faults = @ - 1]
    /\ UNCHANGED <<net, rows, refused>>

TrackableOf(c) ==
    {o \in Stored : /\ rows[o].claim.target = c
                    /\ rows[o].state \in {"SUBMITTED", "MINED", "CONFIRMING", "REORGED", "RECONCILIATION_FAILED"}}

\* The i-th of a set of numbers, in ascending order.
Ranked(S, i) == CHOOSE o \in S : Cardinality({p \in S : p < o}) = i - 1
Ascending(S) == [i \in 1 .. Cardinality(S) |-> Ranked(S, i)]
FirstOf(s, k) == SubSeq(s, 1, IF k < Len(s) THEN k ELSE Len(s))

\* trackableOperationIds: after the cursor, then from the start.
TrackableFrom(c) ==
    LET after == {o \in TrackableOf(c) : o > daemon.cursor[c]} IN
    FirstOf(Ascending(after) \o Ascending(TrackableOf(c) \ after), PageLimit)

\* Both contracts in turn, up to the limit.
Interleaved(a, b) ==
    LET turns == IF Len(a) < Len(b) THEN Len(a) ELSE Len(b)
        both == [i \in 1 .. Len(a) + Len(b) |->
                    IF i > 2 * turns THEN IF Len(a) > turns THEN a[i - turns] ELSE b[i - turns]
                    ELSE IF i % 2 = 1 THEN a[(i + 1) \div 2] ELSE b[i \div 2]]
    IN  FirstOf(both, PageLimit)

TakePage ==
    /\ Poll.pc = "page"
    /\ daemon' = IF Poll.caught
                 THEN [daemon EXCEPT !.poll.pc = "receipt",
                                     !.poll.page = Interleaved(TrackableFrom("vault"), TrackableFrom("pass"))]
                 ELSE EndPoll("SUCCEEDED")
    /\ UNCHANGED <<net, rows, indexes, refused, pool>>

\* The next operation of the page, whatever became of this one.
Onward == [Poll EXCEPT !.pc = "receipt", !.page = Tail(@), !.seen = Append(@, Head(Poll.page)), !.row = NoOp, !.receipt = 0]

\* The last of the page that belongs to the contract, or the cursor as it was.
CursorAfter(c) ==
    LET mine == SelectSeq(Poll.seen, LAMBDA o : rows[o].claim.target = c) IN
    IF mine = <<>> THEN daemon.cursor[c] ELSE mine[Len(mine)]

FinishPage ==
    /\ Poll.pc = "receipt" /\ Poll.page = <<>>
    /\ daemon' = [EndPoll("SUCCEEDED") EXCEPT !.cursor = [c \in Contracts |-> CursorAfter(c)]]
    /\ UNCHANGED <<net, rows, indexes, refused, pool>>

\* trackOperation, first part: the store is at the poll's head, the receipt is the reported one and its
\* block is canonical here.
TrackTheReceipt ==
    LET o == Head(Poll.page)
        row == rows[o]
        mine == indexes[row.claim.target]
        found == {f \in ReceiptOf(row.claim.tx) : \E i \in 1 .. Len(mine.chain) : mine.chain[i] = f.at}
        usable == mine.healthy /\ mine.chain = Poll.head /\ row.claim.kind # "stranger" /\ found # {}
        f == CHOOSE f \in found : TRUE
        n == CHOOSE i \in 1 .. Len(mine.chain) : mine.chain[i] = f.at
        new == Included(row, n, f.at, f.ok)
    IN
    /\ Poll.pc = "receipt" /\ Poll.page # <<>>
    /\ \/ /\ usable /\ row.state \in {"SUBMITTED", "REORGED"}
          /\ Save(o, new)
          /\ SetPoll(IF f.ok /\ ValidEvidence(new) THEN [Poll EXCEPT !.pc = "reconcile", !.row = new, !.receipt = n] ELSE Onward)
       \/ /\ usable /\ row.state \in {"MINED", "CONFIRMING", "RECONCILIATION_FAILED"} /\ f.ok
          /\ SetPoll([Poll EXCEPT !.pc = "reconcile", !.row = row, !.receipt = n])
          /\ UNCHANGED <<rows, refused>>
       \/ /\ \/ ~usable \/ row.state \in {"REPLACED", "DROPPED"}
             \/ usable /\ row.state \in {"MINED", "CONFIRMING", "RECONCILIATION_FAILED"} /\ ~f.ok
          /\ SetPoll(Onward)
          /\ UNCHANGED <<rows, refused>>
    /\ UNCHANGED <<net, indexes, pool>>

\* canonicalEvents of the transaction: what the call that was made left in the indexed blocks.
EventsOf(row) ==
    LET mine == indexes[row.claim.target].chain IN
    {"made" : f \in {f \in net.facts : /\ f.tx = row.claim.tx /\ f.ok
                                       /\ \E i \in 1 .. Len(mine) : mine[i] = f.at}}

\* The one event the reported call must have left.
ExpectedEvent(row) == IF row.claim.kind = "other" THEN "another" ELSE "made"

\* readVault, and the PASS's metadata and balances: at a block the network must still have.
VaultReadable(at) == at \in Hashes
PassReadable(at) == at \in Hashes

\* reconcileOperation of the Vault and of the PASS
VaultAgrees(row) == EventsOf(row) = {ExpectedEvent(row)} /\ VaultReadable(row.at)
PassAgrees(row) == EventsOf(row) = {ExpectedEvent(row)} /\ PassReadable(row.at)
Agrees(row) == IF row.claim.target = "vault" THEN VaultAgrees(row) ELSE PassAgrees(row)

\* trackOperation, second part: saved only if the operation is as it was read.
TrackTheOutcome ==
    LET o == Head(Poll.page)
        depth == Len(Poll.head) - Poll.receipt + 1
    IN
    /\ Poll.pc = "reconcile"
    /\ \/ /\ rows[o] = Poll.row /\ Agrees(Poll.row) /\ depth >= Poll.row.confirmations
          /\ Save(o, Matched(Poll.row, depth))
       \/ /\ rows[o] = Poll.row /\ ~Agrees(Poll.row) /\ Poll.row.state # "RECONCILIATION_FAILED"
          /\ Save(o, Mismatched(Poll.row, IF EventsOf(Poll.row) # {ExpectedEvent(Poll.row)} THEN "EVENT_EVIDENCE_MISMATCH"
                                          ELSE "CONTRACT_STATE_MISMATCH"))
       \/ /\ rows[o] = Poll.row => IF Agrees(Poll.row) THEN depth < Poll.row.confirmations
                                  ELSE Poll.row.state = "RECONCILIATION_FAILED"
          /\ UNCHANGED <<rows, refused>>
    /\ SetPoll(Onward)
    /\ UNCHANGED <<net, indexes, pool>>

----------------------------------------------------------------------------
(* The process *)

\* close: the poll under way is waited for.
CloseM3 ==
    /\ daemon.phase = "open" /\ pool.closes > 0
    /\ daemon' = [daemon EXCEPT !.phase = "closing"]
    /\ pool' = [pool EXCEPT !.closes = @ - 1]
    /\ UNCHANGED <<net, rows, indexes, refused>>

ClosedM3 ==
    /\ daemon.phase = "closing" /\ Poll.pc = "idle"
    /\ daemon' = [daemon EXCEPT !.phase = "closed"]
    /\ UNCHANGED <<net, rows, indexes, refused, pool>>

\* startM3Server, after a stop or a crash: the cursors start over.
RestartM3 ==
    /\ \/ daemon.phase = "closed" /\ UNCHANGED pool
       \/ /\ ~net.calm /\ pool.faults > 0 /\ daemon.phase # "closed"
          /\ pool' = [pool EXCEPT !.faults = @ - 1]
    /\ daemon' = Booted
    /\ indexes' = [c \in Contracts |-> IF c = Poll.pc THEN [indexes[c] EXCEPT !.healthy = FALSE] ELSE indexes[c]]
    /\ UNCHANGED <<net, rows, refused>>

M3ServerInit ==
    /\ net = [chain |-> <<1>>, facts |-> {}, next |-> 2, calm |-> FALSE]
    /\ rows = [o \in OpIds |-> NoOp]
    /\ indexes = [c \in Contracts |-> [chain |-> <<>>, healthy |-> FALSE]]
    /\ daemon = Booted
    /\ refused = FALSE
    /\ pool \in M3Faults

PollStep ==
    \/ BeginPoll \/ TakePage \/ FinishPage \/ TrackTheReceipt \/ TrackTheOutcome
    \/ \E c \in Contracts : SyncTheContract(c)

M3ServerNext ==
    \/ PollStep \/ PollFails \/ Grow \/ Reorganise \/ ComeToRest \/ CloseM3 \/ ClosedM3 \/ RestartM3
    \/ \E r \in pool.reports : Report(r[1], r[2])
    \/ \E o \in OpIds, state \in {"REPLACED", "DROPPED"} : RecordGone(o, state)

\* What the server does by itself: at most one of these is possible at a time.
ServerStep == PollStep \/ ClosedM3 \/ (daemon.phase = "closed" /\ RestartM3)

\* The timer polls again and again, a stopped server is started again, and the network produces blocks.
M3ServerSpec ==
    /\ M3ServerInit /\ [][M3ServerNext]_m3ServerVars
    /\ WF_m3ServerVars(ServerStep) /\ WF_m3ServerVars(Grow)

----------------------------------------------------------------------------
(* Properties *)

\* Mutant: an operation counts as ready once its event is matched.
ProductReadyMutant(o) ==
    LET row == rows[o]
        mine == indexes[row.claim.target]
    IN  /\ row.state \in {"CONFIRMING", "CONFIRMED"} /\ row.canonical /\ row.reconciled /\ mine.healthy
        /\ row.n <= Len(mine.chain) /\ mine.chain[row.n] = row.at
        /\ Len(mine.chain) - row.n + 1 <= AncestryLimit

\* operationEvidence, productReady: confirmed, reconciled, and the projection's chain goes back to the
\* operation's block.
ProductReady(o) ==
    LET row == rows[o]
        mine == indexes[row.claim.target]
    IN  /\ row.state = "CONFIRMED" /\ row.canonical /\ row.reconciled /\ mine.healthy
        /\ row.n <= Len(mine.chain) /\ mine.chain[row.n] = row.at
        /\ Len(mine.chain) - row.n + 1 <= AncestryLimit

\* The evidence route answers with productReady.
ShownReady(o) == daemon.phase \in {"open", "closing"} /\ daemon.last # "FAILED" /\ ProductReady(o)

\* Whatever transitions, rollback and reports do to an operation, the store accepts it
\* (validateOperationEvidence): a row it would refuse could never be tracked again.
EvidenceAccepted == ~refused /\ \A o \in Stored : ValidEvidence(rows[o])

\* An operation is shown as ready only when the reported call was made, succeeded in the block it names,
\* and that block is ReadyDepth deep in the indexed chain (operationEvidence).
ReadyIsTrue ==
    \A o \in Stored : ShownReady(o) =>
        LET row == rows[o] IN
        /\ row.claim.kind = "true"
        /\ [tx |-> row.claim.tx, at |-> row.at, ok |-> TRUE] \in net.facts
        /\ Len(indexes[row.claim.target].chain) - row.n + 1 >= ReadyDepth

\* The operations of the M3 backend: its store accepts every row it comes to hold, and what it shows
\* as ready is deep in the chain.
OperationsSound == EvidenceAccepted /\ ReadyIsTrue

\* A true report of an included transaction that is not settled though the network rests.
Unsettled(o) ==
    /\ net.calm /\ rows[o] # NoOp /\ rows[o].claim.kind = "true" /\ ReceiptOf(rows[o].claim.tx) # {}
    /\ rows[o].state \notin {"CONFIRMED", "REVERTED", "REPLACED", "DROPPED"}

\* However many reports that can never be settled stand in the queue, the true ones of included transactions
\* are settled once the network rests (trackableOperationIds, #vaultOperationCursor).
TrueReportSettles == (\E o \in OpIds : Unsettled(o)) ~> (\A o \in OpIds : ~Unsettled(o))
=============================================================================
