---------------------------- MODULE OrderExecutor ----------------------------
(***************************************************************************)
(* The restricted testnet executor: the process that signs and broadcasts  *)
(* orders (tools/testnet/executor.ts, TestnetExecutorService), its order   *)
(* journal (OrderJournal), the nonce ownership files shared by every       *)
(* process of the host, and the reconciler that follows the orders on the  *)
(* chain.                                                                  *)
(*                                                                         *)
(* A configuration owns a data folder, hence a journal; two configurations *)
(* may hold the same keys.  The code between two awaits is one step; a     *)
(* crash, a failed call or a reorganisation may fall between any two.      *)
(***************************************************************************)
EXTENDS Integers, Sequences, FiniteSets, TLC

CONSTANTS
    Configs,       \* executor configurations, one data folder each
    Purposes,      \* of FEED_UPDATE, RISK_CHECK and EXECUTE, the ones ticks may choose
    Depth,         \* confirmations the reconciler asks for (3 in the code)
    PageSize,      \* LIMIT of reconcileCandidates (100 in the code)
    Budget,        \* maxTotalGasCostWei \div maxGasCostWei
    MaxOrders,     \* config -> bound on the rows of its journal
    MaxBlocks,     \* bound on the blocks ever mined
    MaxReorgs,     \* bound on reorganisations
    MaxTroubles,   \* bound on crashes, orderly stops and failed calls together
    None           \* SQL NULL, an absent file, a null answer

Signers == {"executor", "keeper"}

\* The states of an order.
Unsigned == {"PREPARED", "CANCELLED"}
Blocking == {"RESERVED", "SIGNED", "BROADCAST_UNCERTAIN", "REORGED"}
Resolved == {"RECONCILED", "REVERTED", "REORGED"}
\* Orders that the network may know of.
Sent == Resolved \cup {"BROADCAST_UNCERTAIN"}
States == Unsigned \cup Blocking \cup Resolved

\* What an outcome rests on, and what the log keeps of it.
Evidence == [reason : {"RECEIPT_DISAPPEARED", "RECEIPT_NOT_CANONICAL"}, was : States] \cup [block : Nat, hash : Nat]
Outcomes == [state : Resolved, evidence : Evidence]

Ids == UNION {1..MaxOrders[c] : c \in Configs}

\* The signed envelope of an order.
Txs == [config : Configs, id : Ids, signer : Signers, nonce : Nat \cup {None}]

ASSUME ExecutorAssumption ==
    /\ None \notin Configs \cup Nat \cup Evidence \cup Outcomes \cup Txs
    /\ Purposes \subseteq {"FEED_UPDATE", "RISK_CHECK", "EXECUTE"}
    /\ Depth \in Nat \ {0} /\ PageSize \in Nat \ {0} /\ Budget \in Nat
    /\ MaxOrders \in [Configs -> Nat]
    /\ {MaxBlocks, MaxReorgs, MaxTroubles} \subseteq Nat

VARIABLES
    rows,         \* config -> sequence of order rows; an id is a position
    log,          \* config -> id -> last entry of order_outcomes, or None
    storageLock,  \* configurations whose folder holds .server.lock
    nonceLock,    \* configuration that holds the signers' lock files, or None
    identity,     \* namespace in the signers' identity files, or None
    proc,         \* config -> the process running on it
    chain,        \* canonical blocks
    mempool,      \* broadcast transactions that may still be mined
    used          \* what is left of the bounds: blocks, reorgs, troubles

diskVars == <<rows, log>>
lockVars == <<storageLock, nonceLock, identity>>
chainVars == <<chain, mempool>>
executorVars == <<rows, log, storageLock, nonceLock, identity, proc, chain, mempool, used>>

Signer(purpose) == IF purpose = "FEED_UPDATE" THEN "keeper" ELSE "executor"

\* A process that is not in a cycle holds its mode and its cursor.
Rest(mode, pc, cursor) ==
    [mode |-> mode, pc |-> pc, cursor |-> cursor, head |-> 0, page |-> {}, full |-> FALSE,
     receipt |-> None, id |-> 0, nonce |-> 0]
Off == Rest("off", "off", 0)

Row(c, id) == rows[c][id]
SetRow(c, id, row) == rows' = [rows EXCEPT ![c][id] = row]

Tx(c, id) == [config |-> c, id |-> id, signer |-> Row(c, id).signer, nonce |-> Row(c, id).nonce]

Step(c, next) == proc' = [proc EXCEPT ![c] = next]
At(c, pc) == proc[c].pc = pc
Idle(c) == Rest(proc[c].mode, "idle", proc[c].cursor)

----------------------------------------------------------------------------
(* The chain (external): one block at a time, reorganisations from the top *)

Mined == {chain[n].tx : n \in DOMAIN chain} \ {None}
Latest(s) == Cardinality({t \in Mined : t.signer = s})
Pending(s) == Latest(s) + Cardinality({t \in mempool : t.signer = s /\ t.nonce >= Latest(s)})

NewBlock(tx, ok) ==
    /\ used.blocks < MaxBlocks
    /\ chain' = Append(chain, [hash |-> used.blocks + 1, tx |-> tx, ok |-> ok])
    /\ used' = [used EXCEPT !.blocks = @ + 1]
    /\ UNCHANGED <<diskVars, lockVars, proc>>

MineEmpty == NewBlock(None, TRUE) /\ UNCHANGED mempool

MineTx(tx, ok) ==
    /\ tx.nonce = Latest(tx.signer)
    /\ NewBlock(tx, ok)
    /\ mempool' = mempool \ {tx}

\* The dropped transactions return to the mempool, or are forgotten with it.
Reorg(depth, kept) ==
    LET stays == Len(chain) - depth
        dropped == {chain[n].tx : n \in (stays + 1)..Len(chain)} \ {None}
    IN /\ used.reorgs < MaxReorgs
       /\ depth \in 1..Len(chain)
       /\ chain' = SubSeq(chain, 1, stays)
       /\ mempool' = IF kept THEN mempool \cup dropped ELSE mempool
       /\ used' = [used EXCEPT !.reorgs = @ + 1]
       /\ UNCHANGED <<diskVars, lockVars, proc>>

Forget(tx) ==
    /\ mempool' = mempool \ {tx}
    /\ UNCHANGED <<diskVars, lockVars, proc, chain, used>>

\* receipt(hash): the block that holds the transaction, or null.
Receipt(tx) ==
    LET at == {n \in DOMAIN chain : chain[n].tx = tx}
    IN IF at = {} THEN None
       ELSE LET n == CHOOSE n \in at : TRUE
            IN [number |-> n, hash |-> chain[n].hash, ok |-> chain[n].ok]

Canonical(receipt) ==
    receipt.number \in DOMAIN chain /\ chain[receipt.number].hash = receipt.hash

----------------------------------------------------------------------------
(* OrderJournal *)

Blocked(c, s) ==
    \E id \in DOMAIN rows[c] : Row(c, id).signer = s /\ Row(c, id).state \in Blocking

Attempts(c) == Cardinality({id \in DOMAIN rows[c] : Row(c, id).nonce # None})

Prepare(c, purpose) ==
    rows' = [rows EXCEPT ![c] = Append(@, [purpose |-> purpose, signer |-> Signer(purpose),
                                           state |-> "PREPARED", nonce |-> None, evidence |-> None])]

NonceTaken(c, s, nonce) ==
    \E id \in DOMAIN rows[c] : Row(c, id).signer = s /\ Row(c, id).nonce = nonce

CanReserve(c, id, nonce) ==
    /\ Row(c, id).state = "PREPARED"
    /\ ~NonceTaken(c, Row(c, id).signer, nonce)
    /\ ~Blocked(c, Row(c, id).signer)

Reserve(c, id, nonce) ==
    /\ CanReserve(c, id, nonce)
    /\ SetRow(c, id, [Row(c, id) EXCEPT !.nonce = nonce, !.state = "RESERVED"])

Signed(c, id) ==
    /\ Row(c, id).state = "RESERVED"
    /\ SetRow(c, id, [Row(c, id) EXCEPT !.state = "SIGNED"])

ClaimBroadcast(c, id) ==
    /\ Row(c, id).state = "SIGNED"
    /\ SetRow(c, id, [Row(c, id) EXCEPT !.state = "BROADCAST_UNCERTAIN"])

\* Mutant: a replacement block with the same outcome is not logged again.
RecordOutcomeMutant(c, id, state, evidence) ==
    /\ Row(c, id).state \in Sent
    /\ log' = IF Row(c, id).state # state
              THEN [log EXCEPT ![c][id] = [state |-> state, evidence |-> evidence]]
              ELSE log
    /\ SetRow(c, id, [Row(c, id) EXCEPT !.state = state, !.evidence = evidence])

RecordOutcome(c, id, state, evidence) ==
    /\ Row(c, id).state \in Sent
    /\ log' = IF Row(c, id).state # state \/ Row(c, id).evidence # evidence
              THEN [log EXCEPT ![c][id] = [state |-> state, evidence |-> evidence]]
              ELSE log
    /\ SetRow(c, id, [Row(c, id) EXCEPT !.state = state, !.evidence = evidence])

\* cancel: offered by the journal, called by an operator.
Cancel(c, id) ==
    /\ Row(c, id).state = "PREPARED"
    /\ SetRow(c, id, [Row(c, id) EXCEPT !.state = "CANCELLED"])
    /\ UNCHANGED <<log, lockVars, proc, chainVars, used>>

\* verifyRows: which columns a state may fill.
RowVerifies(c, id) ==
    LET row == Row(c, id)
    IN /\ (row.state \in Unsigned) = (row.nonce = None)
       /\ (row.state \in Resolved) = (row.evidence # None)

\* verifyOutcomes: the last entry of the log is what the row says.
OutcomeVerifies(c, id) ==
    /\ (log[c][id] # None) = (Row(c, id).state \in Resolved)
    /\ log[c][id] # None => log[c][id] = [state |-> Row(c, id).state, evidence |-> Row(c, id).evidence]

JournalOpens(c) == \A id \in DOMAIN rows[c] : RowVerifies(c, id) /\ OutcomeVerifies(c, id)

\* The candidates after the cursor, and the first PageSize of them by id: a page is the set of the
\* ids it still has to visit, the least one first.
ReconcileCandidates(c, after) == {id \in DOMAIN rows[c] : id > after /\ Row(c, id).state \in Sent}

FirstPage(ids) == {id \in ids : Cardinality({x \in ids : x < id}) < PageSize}

First(page) == CHOOSE id \in page : \A x \in page : id <= x

----------------------------------------------------------------------------
(* The process: start, stop and crash *)

Trouble == used.troubles < MaxTroubles /\ used' = [used EXCEPT !.troubles = @ + 1]

ClaimNonceOwnership(c) ==
    /\ nonceLock = None
    /\ identity \in {None, c}
    /\ nonceLock' = c
    /\ identity' = c

\* executorCli up to the first cycle, with and without --enable-signing.
StartSigning(c) ==
    /\ c \notin storageLock
    /\ JournalOpens(c)
    /\ \A s \in Signers : ~Blocked(c, s)
    /\ ClaimNonceOwnership(c)
    /\ storageLock' = storageLock \cup {c}
    /\ Step(c, Rest("sign", "idle", 0))
    /\ UNCHANGED <<diskVars, chainVars, used>>

StartWatching(c) ==
    /\ c \notin storageLock
    /\ JournalOpens(c)
    /\ storageLock' = storageLock \cup {c}
    /\ Step(c, Rest("watch", "idle", 0))
    /\ UNCHANGED <<diskVars, nonceLock, identity, chainVars, used>>

\* close: the running cycle is awaited first.
Stop(c) ==
    /\ At(c, "idle")
    /\ Trouble
    /\ Step(c, Off)
    /\ storageLock' = storageLock \ {c}
    /\ nonceLock' = IF proc[c].mode = "sign" THEN None ELSE nonceLock
    /\ UNCHANGED <<diskVars, identity, chainVars>>

Crash(c) ==
    /\ ~At(c, "off")
    /\ Trouble
    /\ Step(c, Off)
    /\ UNCHANGED <<diskVars, lockVars, chainVars>>

\* An operator removes what a dead process left behind; nothing does it automatically.
RemoveLocks(c) ==
    /\ At(c, "off")
    /\ c \in storageLock
    /\ storageLock' = storageLock \ {c}
    /\ nonceLock' = IF nonceLock = c THEN None ELSE nonceLock
    /\ UNCHANGED <<diskVars, identity, proc, chainVars, used>>

\* Any await may fail; the cycle ends there and the next one starts afresh.
Fail(c) ==
    /\ proc[c].pc \notin {"off", "idle"}
    /\ Trouble
    /\ Step(c, Idle(c))
    /\ UNCHANGED <<diskVars, lockVars, chainVars>>

----------------------------------------------------------------------------
(* The reconciler *)

\* An empty page resets the cursor and the cycle goes on to its orders.
Tick(c) ==
    /\ At(c, "idle")
    /\ LET page == FirstPage(ReconcileCandidates(c, proc[c].cursor))
       IN Step(c, [proc[c] EXCEPT !.head = IF page = {} THEN 0 ELSE Len(chain),
                                  !.page = page, !.full = Cardinality(page) = PageSize,
                                  !.cursor = IF page = {} THEN 0 ELSE First(page),
                                  !.pc = IF page = {} THEN "act" ELSE "receipt"])
    /\ UNCHANGED <<diskVars, lockVars, chainVars, used>>

\* The next order of the page; a page shorter than the limit starts over next time.
Turn(c) ==
    LET rest == proc[c].page \ {First(proc[c].page)}
    IN IF rest = {}
       THEN [proc[c] EXCEPT !.page = {}, !.full = FALSE, !.head = 0, !.receipt = None, !.pc = "act",
                            !.cursor = IF proc[c].full THEN @ ELSE 0]
       ELSE [proc[c] EXCEPT !.page = rest, !.receipt = None, !.pc = "receipt", !.cursor = First(rest)]

\* Mutant: an order whose receipt is gone is left as it is.
ReadReceiptMutant(c) ==
    /\ At(c, "receipt")
    /\ LET receipt == Receipt(Tx(c, First(proc[c].page)))
       IN Step(c, IF receipt # None THEN [proc[c] EXCEPT !.receipt = receipt, !.pc = "block"] ELSE Turn(c))
    /\ UNCHANGED <<diskVars, lockVars, chainVars, used>>

ReadReceipt(c) ==
    /\ At(c, "receipt")
    /\ LET id == First(proc[c].page)
           receipt == Receipt(Tx(c, id))
           state == Row(c, id).state
       IN IF receipt # None
          THEN /\ Step(c, [proc[c] EXCEPT !.receipt = receipt, !.pc = "block"])
               /\ UNCHANGED diskVars
          ELSE /\ Step(c, Turn(c))
               /\ IF state \in {"RECONCILED", "REVERTED"}
                  THEN RecordOutcome(c, id, "REORGED", [reason |-> "RECEIPT_DISAPPEARED", was |-> state])
                  ELSE UNCHANGED diskVars
    /\ UNCHANGED <<lockVars, chainVars, used>>

Deep(c) == proc[c].head - proc[c].receipt.number + 1 >= Depth

ReadBlock(c) ==
    /\ At(c, "block")
    /\ LET id == First(proc[c].page)
       IN \/ /\ ~Canonical(proc[c].receipt)
             /\ RecordOutcome(c, id, "REORGED",
                              [reason |-> "RECEIPT_NOT_CANONICAL", was |-> Row(c, id).state])
             /\ Step(c, Turn(c))
          \/ /\ Canonical(proc[c].receipt) /\ ~Deep(c)
             /\ Step(c, Turn(c))
             /\ UNCHANGED diskVars
          \/ /\ Canonical(proc[c].receipt) /\ Deep(c)
             /\ Step(c, [proc[c] EXCEPT !.pc = "settle"])
             /\ UNCHANGED diskVars
    /\ UNCHANGED <<lockVars, chainVars, used>>

\* Mutant: the outcome is taken from the receipt that was read before the other calls.
SettleMutant(c) ==
    /\ At(c, "settle")
    /\ RecordOutcome(c, First(proc[c].page), IF proc[c].receipt.ok THEN "RECONCILED" ELSE "REVERTED",
                     [block |-> proc[c].receipt.number, hash |-> proc[c].receipt.hash])
    /\ Step(c, Turn(c))
    /\ UNCHANGED <<lockVars, chainVars, used>>

\* The envelope and the fill are compared at the block; then the block is asked for once more.
Settle(c) ==
    /\ At(c, "settle")
    /\ LET receipt == proc[c].receipt
       IN IF Canonical(receipt)
          THEN /\ RecordOutcome(c, First(proc[c].page), IF receipt.ok THEN "RECONCILED" ELSE "REVERTED",
                                [block |-> receipt.number, hash |-> receipt.hash])
               /\ Step(c, Turn(c))
          ELSE Step(c, Idle(c)) /\ UNCHANGED diskVars
    /\ UNCHANGED <<lockVars, chainVars, used>>

----------------------------------------------------------------------------
(* One order of a cycle: submitRestrictedIntent *)

GasBudgetLeft(c) == Attempts(c) + 1 <= Budget

\* The rest of #tick finds nothing to do, or is paused.
NoAction(c) ==
    /\ At(c, "act")
    /\ Step(c, Idle(c))
    /\ UNCHANGED <<diskVars, lockVars, chainVars, used>>

\* The feeds, the risk bounds and the signals choose the purpose.
Submit(c, purpose) ==
    /\ At(c, "act")
    /\ proc[c].mode = "sign"
    /\ \A s \in Signers : ~Blocked(c, s)
    /\ GasBudgetLeft(c)
    /\ Len(rows[c]) < MaxOrders[c]
    /\ Prepare(c, purpose)
    /\ Step(c, [proc[c] EXCEPT !.id = Len(rows[c]) + 1, !.pc = "nonce"])
    /\ UNCHANGED <<log, lockVars, chainVars, used>>

NonceIs(c, nonce) ==
    LET s == Row(c, proc[c].id).signer IN Pending(s) = nonce /\ Latest(s) = nonce

ReadNonce(c) ==
    /\ At(c, "nonce")
    /\ LET s == Row(c, proc[c].id).signer
       IN IF Pending(s) = Latest(s)
          THEN Step(c, [proc[c] EXCEPT !.nonce = Latest(s), !.pc = "reserve"])
          ELSE Step(c, Idle(c))
    /\ UNCHANGED <<diskVars, lockVars, chainVars, used>>

ReserveNonce(c) ==
    /\ At(c, "reserve")
    /\ IF NonceIs(c, proc[c].nonce) /\ CanReserve(c, proc[c].id, proc[c].nonce)
       THEN Reserve(c, proc[c].id, proc[c].nonce) /\ Step(c, [proc[c] EXCEPT !.pc = "sign"])
       ELSE UNCHANGED rows /\ Step(c, Idle(c))
    /\ UNCHANGED <<log, lockVars, chainVars, used>>

SignOrder(c) ==
    /\ At(c, "sign")
    /\ Signed(c, proc[c].id)
    /\ Step(c, [proc[c] EXCEPT !.pc = "claim"])
    /\ UNCHANGED <<log, lockVars, chainVars, used>>

\* A changed nonce abandons the order in SIGNED: its signer stays blocked.
ClaimOrder(c) ==
    /\ At(c, "claim")
    /\ IF NonceIs(c, proc[c].nonce)
       THEN ClaimBroadcast(c, proc[c].id) /\ Step(c, [proc[c] EXCEPT !.pc = "send"])
       ELSE UNCHANGED rows /\ Step(c, Idle(c))
    /\ UNCHANGED <<log, lockVars, chainVars, used>>

\* One HTTP attempt: the node takes the envelope, whatever the caller learns of it.
Send(c) ==
    /\ At(c, "send")
    /\ mempool' = mempool \cup {Tx(c, proc[c].id)}
    /\ Step(c, Idle(c))
    /\ UNCHANGED <<diskVars, lockVars, chain, used>>

----------------------------------------------------------------------------
ExecutorInit ==
    /\ rows = [c \in Configs |-> <<>>]
    /\ log = [c \in Configs |-> [id \in Ids |-> None]]
    /\ storageLock = {}
    /\ nonceLock = None
    /\ identity = None
    /\ proc = [c \in Configs |-> Off]
    /\ chain = <<>>
    /\ mempool = {}
    /\ used = [blocks |-> 0, reorgs |-> 0, troubles |-> 0]

\* One cycle of the service on configuration c.
Cycle(c) ==
    \/ Tick(c) \/ ReadReceipt(c) \/ ReadBlock(c) \/ Settle(c)
    \/ NoAction(c) \/ \E p \in Purposes : Submit(c, p)
    \/ ReadNonce(c) \/ ReserveNonce(c) \/ SignOrder(c) \/ ClaimOrder(c) \/ Send(c)

Operate(c) ==
    \/ StartSigning(c) \/ StartWatching(c) \/ Stop(c) \/ Crash(c) \/ RemoveLocks(c) \/ Fail(c)
    \/ \E id \in DOMAIN rows[c] : Cancel(c, id)

ChainNext ==
    \/ MineEmpty
    \/ \E tx \in mempool : (\E ok \in BOOLEAN : MineTx(tx, ok)) \/ Forget(tx)
    \/ \E depth \in 1..Len(chain), kept \in BOOLEAN : Reorg(depth, kept)

ExecutorNext == ChainNext \/ \E c \in Configs : Cycle(c) \/ Operate(c)

\* A started service schedules its next cycle whatever the last one did, and every await ends.
ExecutorSpec ==
    /\ ExecutorInit /\ [][ExecutorNext]_executorVars
    /\ \A c \in Configs : WF_executorVars(Cycle(c))

----------------------------------------------------------------------------
(* Properties *)

Positions == {"off", "idle", "receipt", "block", "settle", "act", "nonce", "reserve", "sign", "claim", "send"}

Rows == [purpose : Purposes, signer : Signers, state : States, nonce : Nat \cup {None}, evidence : Evidence \cup {None}]
Receipts == [number : Nat, hash : Nat, ok : BOOLEAN]
Processes ==
    [mode : {"off", "watch", "sign"}, pc : Positions, cursor : Nat, head : Nat, page : SUBSET Nat, full : BOOLEAN,
     receipt : Receipts \cup {None}, id : Nat, nonce : Nat]

\* Types; in particular the journals keep their bound.
ExecutorTypeOK ==
    /\ rows \in [Configs -> Seq(Rows)] /\ \A c \in Configs : Len(rows[c]) <= MaxOrders[c]
    /\ log \in [Configs -> [Ids -> Outcomes \cup {None}]]
    /\ storageLock \subseteq Configs /\ {nonceLock, identity} \subseteq Configs \cup {None}
    /\ proc \in [Configs -> Processes]
    /\ chain \in Seq([hash : Nat, tx : Txs \cup {None}, ok : BOOLEAN])
    /\ mempool \in SUBSET Txs
    /\ used \in [blocks : Nat, reorgs : Nat, troubles : Nat]

\* Every pair (journal, order) that was given a nonce.
Numbered == {x \in Configs \X Ids : x[2] \in DOMAIN rows[x[1]] /\ Row(x[1], x[2]).nonce # None}

\* Whenever the process dies, the journal it leaves behind passes its own integrity checks.
JournalReopens == ExecutorTypeOK /\ \A c \in Configs : JournalOpens(c)

Entry(c, id) == [signer |-> Row(c, id).signer, nonce |-> Row(c, id).nonce, order |-> <<c, id>>]

BookEntries == {Entry(x[1], x[2]) : x \in Numbered}
OpenEntries == {Entry(x[1], x[2]) : x \in {y \in Numbered : Row(y[1], y[2]).state \in Blocking}}
Envelope(t) == [signer |-> t.signer, nonce |-> t.nonce, order |-> <<t.config, t.id>>]
WireEntries == {Envelope(t) : t \in mempool \cup Mined}

Book == INSTANCE NonceBook WITH book <- BookEntries, open <- OpenEntries, wire <- WireEntries

\* All the journals of the host together are one NonceBook: a nonce is never given again, an
\* envelope leaves once, and an order is let go only at a moment when the chain or the
\* mempool holds its envelope.
ImplementsNonceBook == Book!BookSpec

\* What the journal says of order id is what the chain says of its transaction, as far as
\* the chain has confirmed it.
Agrees(c, id) ==
    LET row == Row(c, id)
        receipt == Receipt(Tx(c, id))
    IN IF receipt = None
       THEN row.state \notin {"RECONCILED", "REVERTED"}
       ELSE Len(chain) - receipt.number + 1 >= Depth =>
              /\ row.state = IF receipt.ok THEN "RECONCILED" ELSE "REVERTED"
              /\ row.evidence = [block |-> receipt.number, hash |-> receipt.hash]

\* A process that stays up brings its journal to agree with the canonical chain, whatever
\* reorganisations, failed calls and restarts came before.
JournalCatchesUp ==
    \A c \in Configs :
        <>[](proc[c].mode # "off") => <>[](\A id \in DOMAIN rows[c] : Agrees(c, id))
=============================================================================
