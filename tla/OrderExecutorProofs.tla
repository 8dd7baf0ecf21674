------------------------- MODULE OrderExecutorProofs -------------------------
(***************************************************************************)
(* Two theorems about the testnet executor for every number of             *)
(* configurations, orders, blocks, crashes and reorganisations: a journal  *)
(* always passes the checks it is opened with, and all the journals of the *)
(* host together implement NonceBook.                                      *)
(***************************************************************************)
EXTENDS OrderExecutor, FiniteSetTheorems, WellFoundedInduction, TLAPS

----------------------------------------------------------------------------
(* The inductive invariant *)

\* Only the configuration in the identity files signs, and only it has numbered orders.
Owner(c) == proc[c].mode = "sign" \/ (\E id \in DOMAIN rows[c] : Row(c, id).nonce # None) => identity = c

\* Where a process p of c stands with its own order.
OrderInHand(c, p) ==
    /\ p.pc \in {"nonce", "reserve", "sign", "claim", "send"} => p.mode = "sign" /\ p.id \in DOMAIN rows[c]
    /\ p.pc \in {"nonce", "reserve"} => Row(c, p.id).state \in Unsigned
    /\ p.pc = "sign" => Row(c, p.id).state = "RESERVED"
    /\ p.pc = "claim" => Row(c, p.id).state = "SIGNED"
    /\ p.pc = "send" => Row(c, p.id).state = "BROADCAST_UNCERTAIN"

\* The orders its reconciler still has to visit, and what the receipt it holds is about.
PageInHand(c, p) ==
    /\ \A id \in p.page : id \in DOMAIN rows[c] /\ Row(c, id).state \in Sent
    /\ p.pc \in {"receipt", "block", "settle"} => p.page # {}
    /\ p.pc \in {"block", "settle"} =>
          /\ p.receipt \in Receipts /\ p.receipt.hash <= used.blocks
          /\ Canonical(p.receipt) => chain[p.receipt.number].tx = Tx(c, First(p.page))

\* Nothing is logged of an order that is not there yet.
FreshUnlogged(c) == \A id \in Ids : id \notin DOMAIN rows[c] => log[c][id] = None

ConfigInv(c) ==
    JournalOpens(c) /\ FreshUnlogged(c) /\ Owner(c) /\ OrderInHand(c, proc[c]) /\ PageInHand(c, proc[c])

\* The network holds an envelope only once its one broadcast was claimed and made.
Sound(t) ==
    /\ t.id \in DOMAIN rows[t.config] /\ t = Tx(t.config, t.id) /\ Row(t.config, t.id).state \in Sent
    /\ ~(proc[t.config].pc = "send" /\ proc[t.config].id = t.id)
WireSound == \A t \in mempool \cup Mined : Sound(t)

HashesBelow == \A n \in DOMAIN chain : chain[n].hash <= used.blocks

ExecutorInv == ExecutorTypeOK /\ (\A c \in Configs : ConfigInv(c)) /\ WireSound /\ HashesBelow

----------------------------------------------------------------------------
(* Pages, identifiers and nonces *)

\* A page that is not empty has a least order (reconcileCandidates orders by id).
LEMMA FirstOfPage ==
    ASSUME NEW S \in SUBSET Nat, S # {}
    PROVE  First(S) \in S
<1> DEFINE R == OpToRel(<, Nat)
<1>1. IsWellFoundedOn(R, Nat)
  BY NatLessThanWellFounded
<1>2. \A x, y \in Nat : x < y => <<x, y>> \in R
  BY DEF OpToRel
<1> HIDE DEF R
<1>3. \E x \in S : \A y \in S : ~(<<y, x>> \in R)
  BY <1>1, WFMin
<1>4. PICK n \in S : \A y \in S : ~(<<y, n>> \in R)
  BY <1>3
<1>5. ASSUME NEW m \in S
      PROVE  n <= m
  <2>1. n \in Nat /\ m \in Nat
    OBVIOUS
  <2>2. ~(<<m, n>> \in R)
    BY <1>4
  <2>3. ~(m < n)
    BY <1>2, <2>1, <2>2
  <2> QED
    BY <2>1, <2>3
<1> QED
  BY <1>5 DEF First

\* An order's id is within the bounds of its journal.
LEMMA IdsCover ==
    ASSUME ExecutorTypeOK, NEW c \in Configs, NEW id \in DOMAIN rows[c]
    PROVE  id \in Ids /\ id \in Nat /\ Row(c, id) \in Rows
<1>1. rows[c] \in Seq(Rows) /\ Len(rows[c]) <= MaxOrders[c] /\ MaxOrders[c] \in Nat
  BY ExecutorAssumption DEF ExecutorTypeOK
<1>2. id \in 1..MaxOrders[c] /\ id \in Nat /\ rows[c][id] \in Rows
  BY <1>1
<1> QED
  BY <1>2 DEF Ids, Row

\* The latest nonce of a signer is a number (the chain is finite).
LEMMA LatestType ==
    ASSUME ExecutorTypeOK, NEW s
    PROVE  Latest(s) \in Nat
<1> DEFINE D == DOMAIN chain
           T == {chain[n].tx : n \in D}
<1>1. IsFiniteSet(D)
  <2>1. D = 1..Len(chain) /\ Len(chain) \in Nat
    BY DEF ExecutorTypeOK
  <2> QED
    BY <2>1, FS_Interval
<1>2. IsFiniteSet(T)
  <2> DEFINE f == [n \in D |-> chain[n].tx]
  <2>1. f \in Surjection(D, T)
    BY DEF Surjection
  <2> QED
    BY <1>1, <2>1, FS_Surjection
<1>3. {t \in Mined : t.signer = s} \in SUBSET T
  BY DEF Mined
<1>4. IsFiniteSet({t \in Mined : t.signer = s})
  BY <1>2, <1>3, FS_Subset
<1> QED
  BY <1>4, FS_CardinalityType DEF Latest

LEMMA ElementType ==
    ASSUME NEW S, NEW s \in Seq(S), NEW n \in DOMAIN s
    PROVE  s[n] \in S /\ n \in 1..Len(s) /\ Len(s) \in Nat
OBVIOUS

LEMMA ChainLength ==
    ASSUME ExecutorTypeOK
    PROVE  Len(chain) \in Nat /\ DOMAIN chain = 1..Len(chain)
<1> DEFINE Blocks == [hash : Nat, tx : Txs \cup {None}, ok : BOOLEAN]
<1>1. chain \in Seq(Blocks)
  BY DEF ExecutorTypeOK
<1> HIDE DEF Blocks
<1> QED
  BY <1>1

LEMMA BlockType ==
    ASSUME ExecutorTypeOK, NEW n \in DOMAIN chain
    PROVE  /\ chain[n].hash \in Nat /\ chain[n].tx \in Txs \cup {None} /\ chain[n].ok \in BOOLEAN
           /\ n \in 1..Len(chain) /\ Len(chain) \in Nat
<1> DEFINE Blocks == [hash : Nat, tx : Txs \cup {None}, ok : BOOLEAN]
<1>1. chain \in Seq(Blocks)
  BY DEF ExecutorTypeOK
<1>2. chain[n] \in Blocks /\ n \in 1..Len(chain) /\ Len(chain) \in Nat
  <2> HIDE DEF Blocks
  <2> QED
    BY <1>1, ElementType
<1> QED
  BY <1>2

\* What a reorganisation leaves of the chain.
LEMMA PrefixFacts ==
    ASSUME NEW S, NEW s \in Seq(S), NEW n \in Nat, n <= Len(s)
    PROVE  /\ SubSeq(s, 1, n) \in Seq(S) /\ DOMAIN SubSeq(s, 1, n) \subseteq DOMAIN s
           /\ \A i \in DOMAIN SubSeq(s, 1, n) : SubSeq(s, 1, n)[i] = s[i]
OBVIOUS

\* What the network holds are envelopes.
LEMMA WireTypes ==
    ASSUME ExecutorTypeOK
    PROVE  mempool \cup Mined \subseteq Txs
<1>1. ASSUME NEW n \in DOMAIN chain
      PROVE  chain[n].tx \in Txs \cup {None}
  BY BlockType
<1> QED
  BY <1>1 DEF ExecutorTypeOK, Mined

----------------------------------------------------------------------------
(* What a step leaves alone *)

\* One row of one journal is written.
LEMMA SetRowFacts ==
    ASSUME ExecutorTypeOK, NEW c \in Configs, NEW id \in DOMAIN rows[c], NEW row \in Rows, SetRow(c, id, row)
    PROVE  /\ rows' \in [Configs -> Seq(Rows)]
           /\ \A d \in Configs : DOMAIN rows'[d] = DOMAIN rows[d] /\ Len(rows'[d]) = Len(rows[d])
           /\ rows'[c][id] = row
           /\ \A d \in Configs \ {c} : rows'[d] = rows[d]
           /\ \A x \in DOMAIN rows[c] \ {id} : rows'[c][x] = rows[c][x]
<1>1. rows \in [Configs -> Seq(Rows)] /\ rows[c] \in Seq(Rows)
  BY DEF ExecutorTypeOK
<1>2. rows' = [rows EXCEPT ![c] = [rows[c] EXCEPT ![id] = row]]
  BY DEF SetRow
<1> DEFINE new == [rows[c] EXCEPT ![id] = row]
<1>3. new \in Seq(Rows) /\ DOMAIN new = DOMAIN rows[c] /\ Len(new) = Len(rows[c])
  BY <1>1
<1>4. new[id] = row /\ \A x \in DOMAIN rows[c] \ {id} : new[x] = rows[c][x]
  BY <1>1
<1> HIDE DEF new
<1>5. rows' = [rows EXCEPT ![c] = new]
  BY <1>2 DEF new
<1> QED
  BY <1>1, <1>3, <1>4, <1>5

\* One process moves.
LEMMA StepFacts ==
    ASSUME ExecutorTypeOK, NEW c \in Configs, NEW next \in Processes, Step(c, next)
    PROVE  /\ proc' \in [Configs -> Processes] /\ proc'[c] = next
           /\ \A d \in Configs \ {c} : proc'[d] = proc[d]
BY DEF ExecutorTypeOK, Step

\* The journals and processes of the other configurations keep what they promise.
LEMMA OthersKeep ==
    ASSUME ExecutorInv, NEW d \in Configs, rows'[d] = rows[d], log'[d] = log[d], proc'[d] = proc[d],
           chain' = chain, used'.blocks = used.blocks,
           identity' = identity \/ (identity = None /\ identity' # d)
    PROVE  ConfigInv(d)'
<1>1. ConfigInv(d)
  BY DEF ExecutorInv
<1>2. JournalOpens(d)' /\ FreshUnlogged(d)'
  BY <1>1 DEF ConfigInv, FreshUnlogged, JournalOpens, RowVerifies, OutcomeVerifies, Row
<1>3. Owner(d)'
  BY <1>1, ExecutorAssumption DEF ConfigInv, Owner, Row
<1>4. OrderInHand(d, proc[d])'
  BY <1>1 DEF ConfigInv, OrderInHand, Row
<1>5. PageInHand(d, proc[d])'
  BY <1>1 DEF ConfigInv, PageInHand, Row, Canonical, Tx
<1> QED
  BY <1>2, <1>3, <1>4, <1>5 DEF ConfigInv

\* A step of configuration c that leaves the network alone keeps the invariant, when c's own part
\* is kept, its orders stay where the network can find them, and no envelope comes back in hand.
LEMMA Assemble ==
    ASSUME ExecutorInv, NEW c \in Configs, NEW next \in Processes, Step(c, next), ExecutorTypeOK',
           \A d \in Configs \ {c} : rows'[d] = rows[d] /\ log'[d] = log[d],
           chain' = chain, mempool' = mempool, used'.blocks = used.blocks,
           identity' = identity \/ (identity = None /\ identity' = c),
           \A id \in DOMAIN rows[c] : Row(c, id).state \in Sent =>
               /\ id \in DOMAIN rows'[c] /\ rows'[c][id].state \in Sent
               /\ rows'[c][id].signer = rows[c][id].signer /\ rows'[c][id].nonce = rows[c][id].nonce,
           ConfigInv(c)',
           next.pc = "send" => next = proc[c] \/ Row(c, next.id).state \notin Sent
    PROVE  ExecutorInv'
<1>1. proc'[c] = next /\ \A d \in Configs \ {c} : proc'[d] = proc[d]
  BY StepFacts DEF ExecutorInv
<1>2. ASSUME NEW d \in Configs
      PROVE  ConfigInv(d)'
  <2>1. CASE d # c
    BY <2>1, <1>1, OthersKeep
  <2> QED
    BY <2>1
<1>3. WireSound'
  <2>1. mempool' \cup Mined' = mempool \cup Mined
    BY DEF Mined
  <2>2. ASSUME NEW t \in mempool \cup Mined
        PROVE  Sound(t)'
    <3>1. Sound(t) /\ t.config \in Configs
      BY WireTypes DEF ExecutorInv, WireSound, Txs
    <3>2. CASE t.config # c
      BY <3>1, <3>2, <1>1 DEF Sound, Tx, Row
    <3>3. CASE t.config = c
      BY <3>1, <3>3, <1>1 DEF Sound, Tx, Row
    <3> QED
      BY <3>2, <3>3
  <2> QED
    BY <2>1, <2>2 DEF WireSound
<1>4. HashesBelow'
  BY DEF ExecutorInv, HashesBelow
<1> QED
  BY <1>2, <1>3, <1>4 DEF ExecutorInv
----------------------------------------------------------------------------
(* Steps that leave the journals alone *)

LEMMA QuietOwn ==
    ASSUME ExecutorInv, NEW c \in Configs, NEW next, proc'[c] = next, rows' = rows, log' = log, chain' = chain,
           used'.blocks = used.blocks, identity' = identity \/ (identity = None /\ identity' = c),
           next.mode = "sign" => identity' = c, OrderInHand(c, next), PageInHand(c, next)
    PROVE  ConfigInv(c)'
<1>1. ConfigInv(c)
  BY DEF ExecutorInv
<1>2. JournalOpens(c)' /\ FreshUnlogged(c)'
  BY <1>1 DEF ConfigInv, FreshUnlogged, JournalOpens, RowVerifies, OutcomeVerifies, Row
<1>3. Owner(c)'
  BY <1>1, ExecutorAssumption DEF ConfigInv, Owner, Row
<1>4. OrderInHand(c, proc[c])'
  BY DEF OrderInHand, Row
<1>5. PageInHand(c, proc[c])'
  BY DEF PageInHand, Row, Canonical, Tx
<1> QED
  BY <1>2, <1>3, <1>4, <1>5 DEF ConfigInv

LEMMA QuietStep ==
    ASSUME ExecutorInv, NEW c \in Configs, NEW next \in Processes, Step(c, next),
           UNCHANGED <<diskVars, chainVars>>, used'.blocks = used.blocks,
           used' \in [blocks : Nat, reorgs : Nat, troubles : Nat],
           storageLock' \subseteq Configs, {nonceLock', identity'} \subseteq Configs \cup {None},
           identity' = identity \/ (identity = None /\ identity' = c),
           next.mode = "sign" => identity' = c,
           OrderInHand(c, next), PageInHand(c, next), next.pc = "send" => next = proc[c]
    PROVE  ExecutorInv'
<1>0. rows' = rows /\ log' = log /\ chain' = chain /\ mempool' = mempool
  BY DEF diskVars, chainVars
<1>1. ExecutorTypeOK'
  BY <1>0, StepFacts DEF ExecutorInv, ExecutorTypeOK
<1>2. proc'[c] = next
  BY StepFacts DEF ExecutorInv
<1>3. ConfigInv(c)'
  BY <1>0, <1>2, QuietOwn
<1> QED
  <2>1. \A d \in Configs \ {c} : rows'[d] = rows[d] /\ log'[d] = log[d]
    BY <1>0
  <2>2. \A id \in DOMAIN rows[c] : Row(c, id).state \in Sent =>
            /\ id \in DOMAIN rows'[c] /\ rows'[c][id].state \in Sent
            /\ rows'[c][id].signer = rows[c][id].signer /\ rows'[c][id].nonce = rows[c][id].nonce
    BY <1>0 DEF Row
  <2> QED
    BY <1>0, <1>1, <1>3, <2>1, <2>2, Assemble

\* What a process is between two cycles, or when it is gone, needs nothing of its journal.
LEMMA AtRest ==
    ASSUME NEW c \in Configs, NEW mode \in {"off", "watch", "sign"}, NEW pc \in {"off", "idle"}, NEW cursor \in Nat
    PROVE  /\ Rest(mode, pc, cursor) \in Processes
           /\ Rest(mode, pc, cursor).mode = mode /\ Rest(mode, pc, cursor).pc = pc /\ Rest(mode, pc, cursor).page = {}
           /\ OrderInHand(c, Rest(mode, pc, cursor)) /\ PageInHand(c, Rest(mode, pc, cursor))
<1> DEFINE p == Rest(mode, pc, cursor)
<1>1. p \in Processes
  BY DEF Rest, Processes, Positions
<1>2. p.mode = mode /\ p.pc = pc /\ p.page = {}
  BY DEF Rest
<1> HIDE DEF p
<1>3. OrderInHand(c, p) /\ PageInHand(c, p)
  BY <1>2 DEF OrderInHand, PageInHand
<1> QED
  BY <1>1, <1>2, <1>3 DEF p

LEMMA IdleRests ==
    ASSUME ExecutorInv, NEW c \in Configs
    PROVE  /\ Idle(c) \in Processes /\ Idle(c).mode = proc[c].mode /\ Idle(c).pc = "idle" /\ Idle(c).page = {}
           /\ OrderInHand(c, Idle(c)) /\ PageInHand(c, Idle(c))
<1>1. proc[c] \in Processes
  BY DEF ExecutorInv, ExecutorTypeOK
<1>2. proc[c].mode \in {"off", "watch", "sign"} /\ proc[c].cursor \in Nat
  BY <1>1 DEF Processes
<1> QED
  BY <1>2, AtRest DEF Idle

LEMMA TroubleFacts ==
    ASSUME ExecutorInv, Trouble
    PROVE  used'.blocks = used.blocks /\ used' \in [blocks : Nat, reorgs : Nat, troubles : Nat]
<1>1. used \in [blocks : Nat, reorgs : Nat, troubles : Nat] /\ used' = [used EXCEPT !.troubles = @ + 1]
  BY DEF ExecutorInv, ExecutorTypeOK, Trouble
<1> QED
  BY <1>1

\* Starting, stopping, dying, cleaning up and a failed await.
LEMMA OperateKeeps ==
    ASSUME ExecutorInv, NEW c \in Configs,
           StartSigning(c) \/ StartWatching(c) \/ Stop(c) \/ Crash(c) \/ RemoveLocks(c) \/ Fail(c) \/ NoAction(c)
    PROVE  ExecutorInv'
<1>0. /\ used \in [blocks : Nat, reorgs : Nat, troubles : Nat] /\ storageLock \subseteq Configs
      /\ {nonceLock, identity} \subseteq Configs \cup {None} /\ proc[c] \in Processes
      /\ (proc[c].mode = "sign" => identity = c)
      /\ OrderInHand(c, proc[c]) /\ PageInHand(c, proc[c])
  BY DEF ExecutorInv, ExecutorTypeOK, ConfigInv, Owner
<1>1. CASE StartSigning(c)
  <2> DEFINE next == Rest("sign", "idle", 0)
  <2>1. next \in Processes /\ next.pc = "idle" /\ next.mode = "sign" /\ OrderInHand(c, next) /\ PageInHand(c, next)
    BY AtRest
  <2> HIDE DEF next
  <2>3. Step(c, next) /\ UNCHANGED <<diskVars, chainVars, used>>
    BY <1>1 DEF StartSigning, next
  <2>4. identity' = c /\ nonceLock' = c /\ identity \in {None, c} /\ storageLock' \subseteq Configs
    BY <1>0, <1>1 DEF StartSigning, ClaimNonceOwnership
  <2> QED
    BY <1>0, <2>1, <2>3, <2>4, QuietStep
<1>2. CASE StartWatching(c)
  <2> DEFINE next == Rest("watch", "idle", 0)
  <2>1. next \in Processes /\ next.pc = "idle" /\ next.mode = "watch" /\ OrderInHand(c, next) /\ PageInHand(c, next)
    BY AtRest
  <2> HIDE DEF next
  <2>3. Step(c, next) /\ UNCHANGED <<diskVars, nonceLock, identity, chainVars, used>> /\ storageLock' \subseteq Configs
    BY <1>0, <1>2 DEF StartWatching, next
  <2> QED
    BY <1>0, <2>1, <2>3, QuietStep
<1>3. CASE Stop(c) \/ Crash(c)
  <2>1. Off \in Processes /\ Off.pc = "off" /\ Off.mode = "off" /\ OrderInHand(c, Off) /\ PageInHand(c, Off)
    BY AtRest DEF Off
  <2>3. Step(c, Off) /\ Trouble /\ UNCHANGED <<diskVars, identity, chainVars>>
    BY <1>3 DEF Stop, Crash, lockVars
  <2>4. storageLock' \subseteq Configs /\ nonceLock' \in {nonceLock, None}
    BY <1>0, <1>3 DEF Stop, Crash, lockVars
  <2> QED
    BY <1>0, <2>1, <2>3, <2>4, TroubleFacts, QuietStep
<1>4. CASE RemoveLocks(c)
  <2>1. Step(c, proc[c])
    BY <1>4 DEF ExecutorInv, ExecutorTypeOK, RemoveLocks, Step
  <2>2. UNCHANGED <<diskVars, identity, chainVars, used>> /\ storageLock' \subseteq Configs /\ nonceLock' \in {nonceLock, None}
    BY <1>0, <1>4 DEF RemoveLocks
  <2> QED
    BY <1>0, <2>1, <2>2, QuietStep
<1>5. CASE Fail(c) \/ NoAction(c)
  <2> DEFINE next == Idle(c)
  <2>1. /\ next \in Processes /\ next.pc = "idle" /\ next.mode = proc[c].mode
        /\ OrderInHand(c, next) /\ PageInHand(c, next)
    BY IdleRests
  <2>3. Step(c, next) /\ UNCHANGED <<diskVars, lockVars, chainVars>> /\ (Trouble \/ UNCHANGED used)
    BY <1>5 DEF Fail, NoAction
  <2> HIDE DEF next
  <2>4. UNCHANGED <<storageLock, nonceLock, identity>>
    BY <2>3 DEF lockVars
  <2> QED
    BY <1>0, <2>1, <2>3, <2>4, TroubleFacts, QuietStep
<1> QED
  BY <1>1, <1>2, <1>3, <1>4, <1>5
LEMMA ProcType ==
    ASSUME ExecutorInv, NEW c \in Configs
    PROVE  /\ proc[c] \in Processes /\ proc[c].mode \in {"off", "watch", "sign"} /\ proc[c].pc \in Positions
           /\ proc[c].cursor \in Nat /\ proc[c].head \in Nat /\ proc[c].page \in SUBSET Nat /\ proc[c].full \in BOOLEAN
           /\ proc[c].receipt \in Receipts \cup {None} /\ proc[c].id \in Nat /\ proc[c].nonce \in Nat
<1>1. proc[c] \in Processes
  BY DEF ExecutorInv, ExecutorTypeOK
<1> QED
  BY <1>1 DEF Processes

\* The next order of a page, or the end of the page (#reconcileOrders).
LEMMA TurnFacts ==
    ASSUME ExecutorInv, NEW c \in Configs, proc[c].page # {}
    PROVE  /\ Turn(c) \in Processes /\ Turn(c).mode = proc[c].mode /\ Turn(c).pc \in {"act", "receipt"}
           /\ Turn(c).page \subseteq proc[c].page /\ (Turn(c).pc = "receipt" => Turn(c).page # {})
           /\ First(proc[c].page) \in proc[c].page
<1> DEFINE p == proc[c]
           rest == p.page \ {First(p.page)}
<1>1. rest \in SUBSET Nat /\ p.page \in SUBSET Nat
  BY ProcType
<1>2. CASE rest = {}
  <2> DEFINE next == [p EXCEPT !.page = {}, !.full = FALSE, !.head = 0, !.receipt = None, !.pc = "act",
                               !.cursor = IF p.full THEN @ ELSE 0]
  <2>1. next \in Processes /\ next.mode = p.mode /\ next.pc = "act" /\ next.page = {}
    BY ProcType DEF Processes, Positions
  <2>2. Turn(c) = next
    BY <1>2 DEF Turn
  <2> QED
    BY <1>1, <2>1, <2>2, FirstOfPage
<1>3. CASE rest # {}
  <2> DEFINE next == [p EXCEPT !.page = rest, !.receipt = None, !.pc = "receipt", !.cursor = First(rest)]
  <2>1. First(rest) \in Nat
    BY <1>1, <1>3, FirstOfPage
  <2>2. next \in Processes /\ next.mode = p.mode /\ next.pc = "receipt" /\ next.page = rest
    BY <1>1, <2>1, ProcType DEF Processes, Positions
  <2>3. Turn(c) = next
    BY <1>3 DEF Turn
  <2> QED
    BY <1>1, <1>3, <2>2, <2>3, FirstOfPage
<1> QED
  BY <1>2, <1>3
\* What every cycle step of c may use.
LEMMA InHand ==
    ASSUME ExecutorInv, NEW c \in Configs
    PROVE  /\ JournalOpens(c) /\ FreshUnlogged(c) /\ OrderInHand(c, proc[c]) /\ PageInHand(c, proc[c])
           /\ (proc[c].mode = "sign" => identity = c)
           /\ used \in [blocks : Nat, reorgs : Nat, troubles : Nat] /\ storageLock \subseteq Configs
           /\ {nonceLock, identity} \subseteq Configs \cup {None}
BY DEF ExecutorInv, ExecutorTypeOK, ConfigInv, Owner

\* A cycle step that only reads.
LEMMA CycleReads ==
    ASSUME ExecutorInv, NEW c \in Configs, NEW next \in Processes, Step(c, next),
           UNCHANGED <<diskVars, lockVars, chainVars, used>>, next.mode = proc[c].mode, next.pc # "send",
           OrderInHand(c, next), PageInHand(c, next)
    PROVE  ExecutorInv'
<1>1. UNCHANGED <<storageLock, nonceLock, identity, diskVars, chainVars, used>>
  BY DEF lockVars
<1> QED
  BY <1>1, InHand, QuietStep

LEMMA TurnInHand ==
    ASSUME ExecutorInv, NEW c \in Configs, proc[c].page # {}
    PROVE  OrderInHand(c, Turn(c)) /\ PageInHand(c, Turn(c))
<1>1. PageInHand(c, proc[c])
  BY InHand
<1> QED
  BY <1>1, TurnFacts DEF OrderInHand, PageInHand

LEMMA TickKeeps ==
    ASSUME ExecutorInv, NEW c \in Configs, Tick(c)
    PROVE  ExecutorInv'
<1> DEFINE page == FirstPage(ReconcileCandidates(c, proc[c].cursor))
           next == [proc[c] EXCEPT !.head = IF page = {} THEN 0 ELSE Len(chain),
                                   !.page = page, !.full = Cardinality(page) = PageSize,
                                   !.cursor = IF page = {} THEN 0 ELSE First(page),
                                   !.pc = IF page = {} THEN "act" ELSE "receipt"]
<1>1. Step(c, next) /\ UNCHANGED <<diskVars, lockVars, chainVars, used>>
  BY DEF Tick
<1>2. \A id \in page : id \in DOMAIN rows[c] /\ Row(c, id).state \in Sent /\ id \in Nat
  BY IdsCover DEF FirstPage, ReconcileCandidates, ExecutorInv
<1>3. page \in SUBSET Nat
  BY <1>2
<1> HIDE DEF page
<1>4. (page # {} => First(page) \in Nat) /\ Len(chain) \in Nat
  BY <1>3, FirstOfPage, ChainLength DEF ExecutorInv
<1>5. next \in Processes /\ next.mode = proc[c].mode /\ next.pc = (IF page = {} THEN "act" ELSE "receipt") /\ next.page = page
  BY <1>3, <1>4, ProcType DEF Processes, Positions
<1> HIDE DEF next
<1>6. OrderInHand(c, next) /\ PageInHand(c, next)
  BY <1>2, <1>5 DEF OrderInHand, PageInHand
<1> QED
  BY <1>1, <1>5, <1>6, CycleReads

\* A receipt that is not null names a block that holds the transaction (external: receipt).
LEMMA ReceiptFacts ==
    ASSUME ExecutorInv, NEW tx, Receipt(tx) # None
    PROVE  /\ Receipt(tx) \in Receipts /\ Receipt(tx).hash <= used.blocks
           /\ Receipt(tx).number \in DOMAIN chain /\ chain[Receipt(tx).number].tx = tx
           /\ chain[Receipt(tx).number].hash = Receipt(tx).hash
<1> DEFINE at == {n \in DOMAIN chain : chain[n].tx = tx}
           n == CHOOSE x \in at : TRUE
<1>1. at # {} /\ Receipt(tx) = [number |-> n, hash |-> chain[n].hash, ok |-> chain[n].ok]
  BY DEF Receipt
<1>2. n \in DOMAIN chain /\ chain[n].tx = tx
  BY <1>1
<1> HIDE DEF n
<1>3. n \in Nat /\ chain[n].hash \in Nat /\ chain[n].ok \in BOOLEAN /\ chain[n].hash <= used.blocks
  BY <1>2, BlockType DEF ExecutorInv, HashesBelow
<1> QED
  BY <1>1, <1>2, <1>3 DEF Receipts
----------------------------------------------------------------------------
(* Steps that write an order *)

\* The part of the invariant that a write to one order of c has to keep, once its types are known.
LEMMA WriteStep ==
    ASSUME ExecutorInv, NEW c \in Configs, NEW id \in DOMAIN rows[c], NEW row \in Rows, SetRow(c, id, row),
           NEW next \in Processes, Step(c, next),
           UNCHANGED <<lockVars, chainVars, used>>,
           log' \in [Configs -> [Ids -> Outcomes \cup {None}]],
           \A d \in Configs \ {c} : log'[d] = log[d],
           \A x \in Ids \ {id} : log'[c][x] = log[c][x],
           (row.state \in Unsigned) = (row.nonce = None), (row.state \in Resolved) = (row.evidence # None),
           (log'[c][id] # None) = (row.state \in Resolved),
           log'[c][id] # None => log'[c][id] = [state |-> row.state, evidence |-> row.evidence],
           next.mode = proc[c].mode, row.nonce # None => next.mode = "sign" \/ Row(c, id).nonce # None,
           OrderInHand(c, next)', PageInHand(c, next)',
           Row(c, id).state \in Sent =>
               row.state \in Sent /\ row.signer = Row(c, id).signer /\ row.nonce = Row(c, id).nonce,
           next.pc = "send" => next = proc[c] \/ Row(c, next.id).state \notin Sent
    PROVE  ExecutorInv'
<1>1. /\ rows' \in [Configs -> Seq(Rows)]
      /\ \A d \in Configs : DOMAIN rows'[d] = DOMAIN rows[d] /\ Len(rows'[d]) = Len(rows[d])
      /\ rows'[c][id] = row
      /\ \A d \in Configs \ {c} : rows'[d] = rows[d]
      /\ \A x \in DOMAIN rows[c] \ {id} : rows'[c][x] = rows[c][x]
  BY SetRowFacts DEF ExecutorInv
<1>2. /\ proc' \in [Configs -> Processes] /\ proc'[c] = next
      /\ \A d \in Configs \ {c} : proc'[d] = proc[d]
  BY StepFacts DEF ExecutorInv
<1>3. UNCHANGED <<storageLock, nonceLock, identity, chain, mempool, used>>
  BY DEF lockVars, chainVars
<1>4. ExecutorTypeOK'
  BY <1>1, <1>2, <1>3 DEF ExecutorInv, ExecutorTypeOK
<1>5. ConfigInv(c)
  BY DEF ExecutorInv
<1>6. JournalOpens(c)'
  <2>1. ASSUME NEW x \in DOMAIN rows[c]
        PROVE  RowVerifies(c, x)' /\ OutcomeVerifies(c, x)'
    <3>1. CASE x = id
      BY <1>1, <3>1 DEF RowVerifies, OutcomeVerifies, Row
    <3>2. CASE x # id
      <4>1. rows'[c][x] = rows[c][x] /\ log'[c][x] = log[c][x]
        BY <1>1, <3>2, IdsCover DEF ExecutorInv
      <4>2. RowVerifies(c, x) /\ OutcomeVerifies(c, x)
        BY <1>5 DEF ConfigInv, JournalOpens
      <4> QED
        BY <4>1, <4>2 DEF RowVerifies, OutcomeVerifies, Row
    <3> QED
      BY <3>1, <3>2
  <2> QED
    BY <1>1, <2>1 DEF JournalOpens
<1>7. Owner(c)'
  BY <1>1, <1>2, <1>3, <1>5 DEF ConfigInv, Owner, Row
<1>8. ConfigInv(c)'
  BY <1>1, <1>2, <1>5, <1>6, <1>7 DEF ConfigInv, FreshUnlogged
<1>9. \A d \in Configs \ {c} : rows'[d] = rows[d] /\ log'[d] = log[d]
  BY <1>1
<1>10. \A x \in DOMAIN rows[c] : Row(c, x).state \in Sent =>
           /\ x \in DOMAIN rows'[c] /\ rows'[c][x].state \in Sent
           /\ rows'[c][x].signer = rows[c][x].signer /\ rows'[c][x].nonce = rows[c][x].nonce
  BY <1>1 DEF Row
<1> QED
  BY <1>3, <1>4, <1>8, <1>9, <1>10, Assemble
\* An outcome is recorded for the first order of the page, and the reconciler turns to the next (recordOutcome).
LEMMA RecordKeeps ==
    ASSUME ExecutorInv, NEW c \in Configs, proc[c].page # {}, NEW state \in Resolved, NEW evidence \in Evidence,
           RecordOutcome(c, First(proc[c].page), state, evidence), Step(c, Turn(c)),
           UNCHANGED <<lockVars, chainVars, used>>
    PROVE  ExecutorInv'
<1>0. PICK next : next = Turn(c)
  OBVIOUS
<1>1. PICK id : id = First(proc[c].page)
  OBVIOUS
<1>2. /\ next \in Processes /\ next.mode = proc[c].mode /\ next.pc \in {"act", "receipt"}
      /\ next.page \subseteq proc[c].page /\ (next.pc = "receipt" => next.page # {})
      /\ id \in proc[c].page
  BY <1>0, <1>1, TurnFacts
<1>3. id \in DOMAIN rows[c] /\ \A x \in proc[c].page : x \in DOMAIN rows[c] /\ Row(c, x).state \in Sent
  BY <1>2, InHand DEF PageInHand
<1>4. Row(c, id) \in Rows /\ id \in Ids
  BY <1>3, IdsCover DEF ExecutorInv
<1>5. PICK row : row = [Row(c, id) EXCEPT !.state = state, !.evidence = evidence]
  OBVIOUS
<1>6. /\ row \in Rows /\ row.state = state /\ row.evidence = evidence
      /\ row.signer = Row(c, id).signer /\ row.nonce = Row(c, id).nonce
  BY <1>4, <1>5 DEF Rows, States
<1>7. /\ SetRow(c, id, row)
      /\ log' = IF Row(c, id).state # state \/ Row(c, id).evidence # evidence
                THEN [log EXCEPT ![c][id] = [state |-> state, evidence |-> evidence]]
                ELSE log
  BY <1>1, <1>5 DEF RecordOutcome
<1>8. RowVerifies(c, id) /\ OutcomeVerifies(c, id) /\ Row(c, id).state \in Sent
  BY <1>2, <1>3, InHand DEF JournalOpens
<1>9. row.nonce # None /\ evidence # None /\ state \notin Unsigned /\ state \in Sent
  BY <1>6, <1>8, ExecutorAssumption DEF RowVerifies, Sent, Resolved, Unsigned
<1>10. PICK out : out = [state |-> state, evidence |-> evidence]
  OBVIOUS
<1>11. out \in Outcomes /\ out # None
  BY <1>10, ExecutorAssumption DEF Outcomes
<1>12. log \in [Configs -> [Ids -> Outcomes \cup {None}]]
  BY DEF ExecutorInv, ExecutorTypeOK
<1>13. /\ log' \in [Configs -> [Ids -> Outcomes \cup {None}]]
       /\ \A d \in Configs \ {c} : log'[d] = log[d]
       /\ \A x \in Ids \ {id} : log'[c][x] = log[c][x]
       /\ log'[c][id] = out
  <2>1. CASE Row(c, id).state # state \/ Row(c, id).evidence # evidence
    <3>1. log' = [log EXCEPT ![c] = [log[c] EXCEPT ![id] = out]]
      BY <1>7, <1>10, <2>1
    <3>2. [log[c] EXCEPT ![id] = out] \in [Ids -> Outcomes \cup {None}]
      BY <1>4, <1>11, <1>12
    <3> QED
      BY <1>4, <1>12, <3>1, <3>2
  <2>2. CASE ~(Row(c, id).state # state \/ Row(c, id).evidence # evidence)
    <3>1. log' = log
      BY <1>7, <2>2
    <3>2. log[c][id] = out
      BY <1>8, <1>10, <2>2 DEF OutcomeVerifies
    <3> QED
      BY <1>12, <3>1, <3>2
  <2> QED
    BY <2>1, <2>2
<1>14. \A x \in proc[c].page : x \in DOMAIN rows'[c] /\ rows'[c][x].state \in Sent
  BY <1>3, <1>6, <1>7, <1>9, SetRowFacts DEF ExecutorInv, Row
<1>15. OrderInHand(c, next)' /\ PageInHand(c, next)'
  BY <1>2, <1>14 DEF OrderInHand, PageInHand, Row
<1>16. Step(c, next) /\ next.pc # "send"
  BY <1>0, <1>2
<1>17. /\ (row.state \in Unsigned) = (row.nonce = None) /\ (row.state \in Resolved) = (row.evidence # None)
       /\ (log'[c][id] # None) = (row.state \in Resolved)
       /\ log'[c][id] = [state |-> row.state, evidence |-> row.evidence]
  BY <1>6, <1>9, <1>10, <1>11, <1>13
<1> QED
  BY <1>2, <1>3, <1>6, <1>7, <1>9, <1>13, <1>15, <1>16, <1>17, WriteStep

LEMMA ReadReceiptKeeps ==
    ASSUME ExecutorInv, NEW c \in Configs, ReadReceipt(c)
    PROVE  ExecutorInv'
<1> DEFINE id == First(proc[c].page)
           receipt == Receipt(Tx(c, id))
<1>1. proc[c].pc = "receipt" /\ proc[c].page # {} /\ proc[c].page \in SUBSET Nat
  BY InHand, ProcType DEF ReadReceipt, At, PageInHand
<1>2. UNCHANGED <<lockVars, chainVars, used>>
  BY DEF ReadReceipt
<1>3. CASE receipt # None
  <2> DEFINE next == [proc[c] EXCEPT !.receipt = receipt, !.pc = "block"]
  <2>1. Step(c, next) /\ UNCHANGED diskVars
    BY <1>3 DEF ReadReceipt
  <2>2. /\ receipt \in Receipts /\ receipt.hash <= used.blocks
        /\ chain[receipt.number].tx = Tx(c, id)
    BY <1>3, ReceiptFacts
  <2> HIDE DEF receipt
  <2>3. /\ next \in Processes /\ next.mode = proc[c].mode /\ next.pc = "block" /\ next.page = proc[c].page
        /\ next.receipt = receipt
    BY <2>2, ProcType DEF Processes, Positions
  <2> HIDE DEF next
  <2>4. OrderInHand(c, next) /\ PageInHand(c, next)
    BY <1>1, <2>2, <2>3, InHand DEF OrderInHand, PageInHand
  <2> QED
    BY <1>2, <2>1, <2>3, <2>4, CycleReads
<1>4. CASE receipt = None /\ Row(c, id).state \in {"RECONCILED", "REVERTED"}
  <2>1. Step(c, Turn(c)) /\ RecordOutcome(c, id, "REORGED", [reason |-> "RECEIPT_DISAPPEARED", was |-> Row(c, id).state])
    BY <1>4 DEF ReadReceipt
  <2>2. [reason |-> "RECEIPT_DISAPPEARED", was |-> Row(c, id).state] \in Evidence /\ "REORGED" \in Resolved
    BY <1>4 DEF Evidence, States, Resolved
  <2> QED
    BY <1>1, <1>2, <2>1, <2>2, RecordKeeps
<1>5. CASE receipt = None /\ Row(c, id).state \notin {"RECONCILED", "REVERTED"}
  <2>1. Step(c, Turn(c)) /\ UNCHANGED diskVars
    BY <1>5 DEF ReadReceipt
  <2> QED
    BY <1>1, <1>2, <2>1, TurnFacts, TurnInHand, CycleReads
<1> QED
  BY <1>3, <1>4, <1>5

LEMMA ReadBlockKeeps ==
    ASSUME ExecutorInv, NEW c \in Configs, ReadBlock(c)
    PROVE  ExecutorInv'
<1> DEFINE id == First(proc[c].page)
<1>1. proc[c].pc = "block" /\ proc[c].page # {} /\ proc[c].page \in SUBSET Nat
  BY InHand, ProcType DEF ReadBlock, At, PageInHand
<1>2. UNCHANGED <<lockVars, chainVars, used>>
  BY DEF ReadBlock
<1>3. CASE /\ RecordOutcome(c, id, "REORGED", [reason |-> "RECEIPT_NOT_CANONICAL", was |-> Row(c, id).state])
           /\ Step(c, Turn(c))
  <2>1. Row(c, id).state \in States
    <3>1. id \in proc[c].page
      BY <1>1, FirstOfPage
    <3>2. id \in DOMAIN rows[c]
      BY <3>1, InHand DEF PageInHand
    <3> QED
      BY <3>2, IdsCover DEF ExecutorInv, Rows
  <2>2. [reason |-> "RECEIPT_NOT_CANONICAL", was |-> Row(c, id).state] \in Evidence /\ "REORGED" \in Resolved
    BY <2>1 DEF Evidence, Resolved
  <2> QED
    BY <1>1, <1>2, <1>3, <2>2, RecordKeeps
<1>4. CASE Step(c, Turn(c)) /\ UNCHANGED diskVars
  BY <1>1, <1>2, <1>4, TurnFacts, TurnInHand, CycleReads
<1>5. CASE Step(c, [proc[c] EXCEPT !.pc = "settle"]) /\ UNCHANGED diskVars
  <2> DEFINE next == [proc[c] EXCEPT !.pc = "settle"]
  <2>1. /\ next \in Processes /\ next.mode = proc[c].mode /\ next.pc = "settle" /\ next.page = proc[c].page
        /\ next.receipt = proc[c].receipt
    BY ProcType DEF Processes, Positions
  <2>2. Step(c, next)
    BY <1>5
  <2> HIDE DEF next
  <2>3. OrderInHand(c, next) /\ PageInHand(c, next)
    BY <1>1, <2>1, InHand DEF OrderInHand, PageInHand
  <2> QED
    BY <1>2, <1>5, <2>1, <2>2, <2>3, CycleReads
<1> QED
  BY <1>3, <1>4, <1>5 DEF ReadBlock

LEMMA SettleKeeps ==
    ASSUME ExecutorInv, NEW c \in Configs, Settle(c)
    PROVE  ExecutorInv'
<1> DEFINE receipt == proc[c].receipt
<1>1. proc[c].pc = "settle" /\ proc[c].page # {} /\ receipt \in Receipts
  BY InHand DEF Settle, At, PageInHand
<1>2. UNCHANGED <<lockVars, chainVars, used>>
  BY DEF Settle
<1>3. CASE Canonical(receipt)
  <2>1. /\ RecordOutcome(c, First(proc[c].page), IF receipt.ok THEN "RECONCILED" ELSE "REVERTED",
                         [block |-> receipt.number, hash |-> receipt.hash])
        /\ Step(c, Turn(c))
    BY <1>3 DEF Settle
  <2>2. [block |-> receipt.number, hash |-> receipt.hash] \in Evidence
    BY <1>1 DEF Evidence, Receipts
  <2>3. (IF receipt.ok THEN "RECONCILED" ELSE "REVERTED") \in Resolved
    BY DEF Resolved
  <2> QED
    BY <1>1, <1>2, <2>1, <2>2, <2>3, RecordKeeps
<1>4. CASE ~Canonical(receipt)
  <2>1. Step(c, Idle(c)) /\ UNCHANGED diskVars
    BY <1>4 DEF Settle
  <2> QED
    BY <1>2, <2>1, IdleRests, CycleReads
<1> QED
  BY <1>3, <1>4
----------------------------------------------------------------------------
(* Steps of one order *)

\* A change of state that keeps the log and the page, of the order in hand or of one nobody signed.
LEMMA AdvanceKeeps ==
    ASSUME ExecutorInv, NEW c \in Configs, NEW id \in DOMAIN rows[c], NEW row \in Rows, SetRow(c, id, row),
           NEW next \in Processes, Step(c, next), UNCHANGED <<log, lockVars, chainVars, used>>,
           Row(c, id).state \notin Sent, row.signer = Row(c, id).signer, row.evidence = Row(c, id).evidence,
           row.state \notin Resolved, (row.state \in Unsigned) = (row.nonce = None),
           next.mode = proc[c].mode, row.nonce # None => next.mode = "sign" \/ Row(c, id).nonce # None,
           next.page = proc[c].page, next.pc \in {"receipt", "block", "settle"} => next = proc[c],
           OrderInHand(c, next)',
           next.pc = "send" => next = proc[c] \/ Row(c, next.id).state \notin Sent
    PROVE  ExecutorInv'
<1>1. RowVerifies(c, id) /\ OutcomeVerifies(c, id)
  BY InHand DEF JournalOpens
<1>2. (row.state \in Resolved) = (row.evidence # None) /\ log[c][id] = None
  BY <1>1 DEF RowVerifies, OutcomeVerifies, Sent
<1>3. /\ \A x \in DOMAIN rows[c] \ {id} : rows'[c][x] = rows[c][x]
      /\ DOMAIN rows'[c] = DOMAIN rows[c]
  BY SetRowFacts DEF ExecutorInv
<1>4. \A x \in proc[c].page : x \in DOMAIN rows[c] \ {id} /\ Row(c, x).state \in Sent
  BY InHand DEF PageInHand
<1>5. PageInHand(c, next)'
  <2>1. \A x \in next.page : x \in DOMAIN rows'[c] /\ Row(c, x)'.state \in Sent
    BY <1>3, <1>4 DEF Row
  <2>2. CASE next = proc[c]
    <3>1. PageInHand(c, proc[c]) /\ proc[c].page \in SUBSET Nat
      BY InHand, ProcType
    <3>2. proc[c].page # {} => First(proc[c].page) \in proc[c].page
      BY <3>1, FirstOfPage
    <3>3. proc[c].page # {} => Tx(c, First(next.page))' = Tx(c, First(proc[c].page))
      BY <1>3, <1>4, <2>2, <3>2 DEF Tx, Row
    <3> QED
      BY <2>1, <2>2, <3>1, <3>3 DEF PageInHand, Canonical, chainVars
  <2>3. CASE next.pc \notin {"receipt", "block", "settle"}
    BY <2>1, <2>3 DEF PageInHand
  <2> QED
    BY <2>2, <2>3
<1>6. log \in [Configs -> [Ids -> Outcomes \cup {None}]]
  BY DEF ExecutorInv, ExecutorTypeOK
<1>7. (log'[c][id] # None) = (row.state \in Resolved)
  BY <1>2
<1>8. UNCHANGED <<lockVars, chainVars, used>> /\ log' = log
  OBVIOUS
<1> QED
  BY <1>2, <1>5, <1>6, <1>7, <1>8, WriteStep

LEMMA CancelKeeps ==
    ASSUME ExecutorInv, NEW c \in Configs, NEW id \in DOMAIN rows[c], Cancel(c, id)
    PROVE  ExecutorInv'
<1>1. PICK row : row = [Row(c, id) EXCEPT !.state = "CANCELLED"]
  OBVIOUS
<1>2. PICK next : next = proc[c]
  OBVIOUS
<1>3. Row(c, id) \in Rows /\ Row(c, id).state = "PREPARED" /\ RowVerifies(c, id)
  BY IdsCover, InHand DEF ExecutorInv, Cancel, JournalOpens
<1>4. /\ row \in Rows /\ row.state = "CANCELLED" /\ row.signer = Row(c, id).signer /\ row.nonce = Row(c, id).nonce
      /\ row.evidence = Row(c, id).evidence
  BY <1>1, <1>3 DEF Rows, States, Unsigned
<1>5. /\ Row(c, id).state \notin Sent /\ row.state \notin Resolved /\ row.state \in Unsigned /\ row.nonce = None
  BY <1>3, <1>4 DEF Sent, Resolved, Unsigned, RowVerifies
<1>6. SetRow(c, id, row) /\ UNCHANGED <<log, lockVars, chainVars, used>>
  BY <1>1 DEF Cancel
<1>7. Step(c, next) /\ next \in Processes
  BY <1>2, ProcType DEF Cancel, Step, ExecutorInv, ExecutorTypeOK
<1>8. OrderInHand(c, next)'
  <2>1. OrderInHand(c, next)
    BY <1>2, InHand
  <2>2. /\ rows'[c][id] = row /\ DOMAIN rows'[c] = DOMAIN rows[c]
        /\ \A x \in DOMAIN rows[c] \ {id} : rows'[c][x] = rows[c][x]
    BY <1>4, <1>6, SetRowFacts DEF ExecutorInv
  <2> QED
    BY <1>3, <1>5, <2>1, <2>2 DEF OrderInHand, Row
<1> QED
  BY <1>2, <1>4, <1>5, <1>6, <1>7, <1>8, AdvanceKeeps

LEMMA ReadNonceKeeps ==
    ASSUME ExecutorInv, NEW c \in Configs, ReadNonce(c)
    PROVE  ExecutorInv'
<1> DEFINE s == Row(c, proc[c].id).signer
           next == [proc[c] EXCEPT !.nonce = Latest(s), !.pc = "reserve"]
<1>1. UNCHANGED <<diskVars, lockVars, chainVars, used>> /\ proc[c].pc = "nonce"
  BY DEF ReadNonce, At
<1>2. CASE Step(c, Idle(c))
  BY <1>1, <1>2, IdleRests, CycleReads
<1>3. CASE Step(c, next)
  <2>1. Latest(s) \in Nat
    BY LatestType DEF ExecutorInv
  <2>2. /\ next \in Processes /\ next.mode = proc[c].mode /\ next.pc = "reserve" /\ next.page = proc[c].page
        /\ next.id = proc[c].id
    BY <2>1, ProcType DEF Processes, Positions
  <2> HIDE DEF next
  <2>3. OrderInHand(c, next) /\ PageInHand(c, next)
    BY <1>1, <2>2, InHand DEF OrderInHand, PageInHand
  <2> QED
    BY <1>1, <1>3, <2>2, <2>3, CycleReads
<1> QED
  BY <1>2, <1>3 DEF ReadNonce

LEMMA OrderStepKeeps ==
    ASSUME ExecutorInv, NEW c \in Configs, ReserveNonce(c) \/ SignOrder(c) \/ ClaimOrder(c)
    PROVE  ExecutorInv'
<1>0. PICK id : id = proc[c].id
  OBVIOUS
<1>1. /\ proc[c].pc \in {"reserve", "sign", "claim"} /\ UNCHANGED <<log, lockVars, chainVars, used>>
      /\ proc[c].mode = "sign" /\ id \in DOMAIN rows[c]
  BY <1>0, InHand DEF ReserveNonce, SignOrder, ClaimOrder, At, OrderInHand
<1>2. Row(c, id) \in Rows /\ RowVerifies(c, id)
  BY <1>1, IdsCover, InHand DEF ExecutorInv, JournalOpens
<1>3. CASE UNCHANGED rows /\ Step(c, Idle(c))
  <2>1. UNCHANGED <<diskVars, lockVars, chainVars, used>>
    BY <1>1, <1>3 DEF diskVars
  <2> QED
    BY <1>3, <2>1, IdleRests, CycleReads
<1>4. ASSUME NEW row \in Rows, SetRow(c, id, row), NEW pc \in {"sign", "claim", "send"},
             Step(c, [proc[c] EXCEPT !.pc = pc]),
             row.state = (CASE pc = "sign" -> "RESERVED" [] pc = "claim" -> "SIGNED" [] OTHER -> "BROADCAST_UNCERTAIN"),
             row.nonce # None, row.signer = Row(c, id).signer, row.evidence = Row(c, id).evidence,
             Row(c, id).state \notin Sent
      PROVE  ExecutorInv'
  <2>1. PICK next : next = [proc[c] EXCEPT !.pc = pc]
    OBVIOUS
  <2>2. /\ next \in Processes /\ next.mode = proc[c].mode /\ next.pc = pc /\ next.page = proc[c].page /\ next.id = id
    BY <1>0, <2>1, ProcType DEF Processes, Positions
  <2>3. row.state \notin Resolved /\ row.state \notin Unsigned
    BY <1>4 DEF Resolved, Unsigned
  <2>4. rows'[c][id] = row /\ DOMAIN rows'[c] = DOMAIN rows[c]
    BY <1>1, <1>4, SetRowFacts DEF ExecutorInv
  <2>5. OrderInHand(c, next)'
    BY <1>1, <1>4, <2>2, <2>4 DEF OrderInHand, Row
  <2>6. Step(c, next)
    BY <1>4, <2>1
  <2> QED
    BY <1>1, <1>4, <2>2, <2>3, <2>5, <2>6, AdvanceKeeps
<1>5. CASE Reserve(c, id, proc[c].nonce) /\ Step(c, [proc[c] EXCEPT !.pc = "sign"])
  <2>1. PICK row : row = [Row(c, id) EXCEPT !.nonce = proc[c].nonce, !.state = "RESERVED"]
    OBVIOUS
  <2>2. /\ row \in Rows /\ row.state = "RESERVED" /\ row.nonce = proc[c].nonce
        /\ row.signer = Row(c, id).signer /\ row.evidence = Row(c, id).evidence
    BY <1>2, <2>1, ProcType DEF Rows, States, Blocking
  <2>3. SetRow(c, id, row) /\ Row(c, id).state \notin Sent
    BY <1>5, <2>1 DEF Reserve, CanReserve, Sent, Resolved
  <2>4. row.nonce # None
    BY <2>2, ProcType, ExecutorAssumption
  <2> QED
    BY <1>5, <2>2, <2>3, <2>4, <1>4
<1>6. CASE Signed(c, id) /\ Step(c, [proc[c] EXCEPT !.pc = "claim"])
  <2>1. PICK row : row = [Row(c, id) EXCEPT !.state = "SIGNED"]
    OBVIOUS
  <2>2. /\ row \in Rows /\ row.state = "SIGNED" /\ row.nonce = Row(c, id).nonce
        /\ row.signer = Row(c, id).signer /\ row.evidence = Row(c, id).evidence
    BY <1>2, <2>1 DEF Rows, States, Blocking
  <2>3. SetRow(c, id, row) /\ Row(c, id).state \notin Sent /\ row.nonce # None
    BY <1>2, <1>6, <2>1, <2>2 DEF Signed, Sent, Resolved, RowVerifies, Unsigned
  <2> QED
    BY <1>6, <2>2, <2>3, <1>4
<1>7. CASE ClaimBroadcast(c, id) /\ Step(c, [proc[c] EXCEPT !.pc = "send"])
  <2>1. PICK row : row = [Row(c, id) EXCEPT !.state = "BROADCAST_UNCERTAIN"]
    OBVIOUS
  <2>2. /\ row \in Rows /\ row.state = "BROADCAST_UNCERTAIN" /\ row.nonce = Row(c, id).nonce
        /\ row.signer = Row(c, id).signer /\ row.evidence = Row(c, id).evidence
    BY <1>2, <2>1 DEF Rows, States, Blocking
  <2>3. SetRow(c, id, row) /\ Row(c, id).state \notin Sent /\ row.nonce # None
    BY <1>2, <1>7, <2>1, <2>2 DEF ClaimBroadcast, Sent, Resolved, RowVerifies, Unsigned
  <2> QED
    BY <1>7, <2>2, <2>3, <1>4
<1> QED
  BY <1>0, <1>3, <1>5, <1>6, <1>7 DEF ReserveNonce, SignOrder, ClaimOrder
LEMMA AppendRow ==
    ASSUME NEW S, NEW s \in Seq(S), NEW e \in S
    PROVE  /\ Append(s, e) \in Seq(S) /\ Len(Append(s, e)) = Len(s) + 1 /\ Len(s) \in Nat
           /\ DOMAIN Append(s, e) = DOMAIN s \cup {Len(s) + 1} /\ Len(s) + 1 \notin DOMAIN s
           /\ \A n \in DOMAIN s : Append(s, e)[n] = s[n]
           /\ Append(s, e)[Len(s) + 1] = e
OBVIOUS

LEMMA SubmitKeeps ==
    ASSUME ExecutorInv, NEW c \in Configs, NEW purpose \in Purposes, Submit(c, purpose)
    PROVE  ExecutorInv'
<1>0. PICK last : last = Len(rows[c]) + 1
  OBVIOUS
<1>1. PICK row : row = [purpose |-> purpose, signer |-> Signer(purpose), state |-> "PREPARED", nonce |-> None, evidence |-> None]
  OBVIOUS
<1>2. /\ row \in Rows /\ row.state = "PREPARED" /\ row.nonce = None /\ row.evidence = None
  BY <1>1 DEF Rows, States, Unsigned, Signer, Signers
<1>3. /\ rows \in [Configs -> Seq(Rows)] /\ rows[c] \in Seq(Rows) /\ \A d \in Configs : Len(rows[d]) <= MaxOrders[d]
  BY DEF ExecutorInv, ExecutorTypeOK
<1>4. /\ rows' = [rows EXCEPT ![c] = Append(rows[c], row)]
  BY <1>1 DEF Submit, Prepare
<1>5. /\ rows' \in [Configs -> Seq(Rows)] /\ DOMAIN rows'[c] = DOMAIN rows[c] \cup {last} /\ last \notin DOMAIN rows[c]
      /\ \A x \in DOMAIN rows[c] : rows'[c][x] = rows[c][x]
      /\ rows'[c][last] = row /\ last \in Nat
      /\ \A d \in Configs \ {c} : rows'[d] = rows[d]
      /\ Len(rows'[c]) = Len(rows[c]) + 1 /\ Len(rows[c]) \in Nat
  BY <1>0, <1>2, <1>3, <1>4, AppendRow
<1>6. PICK next : next = [proc[c] EXCEPT !.id = last, !.pc = "nonce"]
  OBVIOUS
<1>7. /\ next \in Processes /\ next.mode = proc[c].mode /\ next.pc = "nonce" /\ next.page = proc[c].page /\ next.id = last
  <2>1. last \in Nat
    BY <1>5
  <2> QED
    BY <1>6, <2>1, ProcType DEF Processes, Positions
<1>8. /\ Step(c, next) /\ proc[c].mode = "sign" /\ Len(rows[c]) < MaxOrders[c]
      /\ UNCHANGED <<log, storageLock, nonceLock, identity, chain, mempool, used>>
  BY <1>0, <1>6 DEF Submit, lockVars, chainVars
<1>9. \A d \in Configs : Len(rows'[d]) <= MaxOrders[d]
  <2>1. MaxOrders[c] \in Nat
    BY ExecutorAssumption
  <2>2. Len(rows'[c]) <= MaxOrders[c]
    BY <1>5, <1>8, <2>1
  <2>3. \A d \in Configs \ {c} : Len(rows'[d]) <= MaxOrders[d]
    BY <1>3, <1>5
  <2> QED
    BY <2>2, <2>3
<1>10. ExecutorTypeOK'
  BY <1>5, <1>7, <1>8, <1>9, StepFacts DEF ExecutorInv, ExecutorTypeOK
<1>11. proc'[c] = next
  BY <1>7, <1>8, StepFacts DEF ExecutorInv
<1>12. log[c][last] = None
  <2>1. last \in 1..MaxOrders[c]
    BY <1>0, <1>5, <1>8, ExecutorAssumption
  <2>2. last \in Ids
    BY <2>1 DEF Ids
  <2> QED
    BY <1>5, <2>2, InHand DEF FreshUnlogged
<1>13. JournalOpens(c)' /\ FreshUnlogged(c)'
  <2>1. ASSUME NEW x \in DOMAIN rows[c]
        PROVE  RowVerifies(c, x)' /\ OutcomeVerifies(c, x)'
    <3>1. RowVerifies(c, x) /\ OutcomeVerifies(c, x)
      BY InHand DEF JournalOpens
    <3> QED
      BY <1>5, <1>8, <3>1 DEF RowVerifies, OutcomeVerifies, Row
  <2>2. RowVerifies(c, last)' /\ OutcomeVerifies(c, last)'
    BY <1>2, <1>5, <1>8, <1>12 DEF RowVerifies, OutcomeVerifies, Row, Unsigned, Resolved
  <2> QED
    BY <1>5, <1>8, <2>1, <2>2, InHand DEF JournalOpens, FreshUnlogged
<1>14. Owner(c)'
  BY <1>8, InHand DEF Owner
<1>15. OrderInHand(c, proc[c])'
  BY <1>2, <1>5, <1>7, <1>8, <1>11 DEF OrderInHand, Row, Unsigned
<1>16. PageInHand(c, proc[c])'
  BY <1>5, <1>7, <1>11, InHand DEF PageInHand, Row
<1>17. ConfigInv(c)'
  BY <1>13, <1>14, <1>15, <1>16 DEF ConfigInv
<1>18. \A d \in Configs \ {c} : rows'[d] = rows[d] /\ log'[d] = log[d]
  BY <1>5, <1>8
<1>19. \A x \in DOMAIN rows[c] : Row(c, x).state \in Sent =>
           /\ x \in DOMAIN rows'[c] /\ rows'[c][x].state \in Sent
           /\ rows'[c][x].signer = rows[c][x].signer /\ rows'[c][x].nonce = rows[c][x].nonce
  BY <1>5 DEF Row
<1> QED
  BY <1>7, <1>8, <1>10, <1>17, <1>18, <1>19, Assemble
\* The one broadcast of an envelope.
LEMMA SendKeeps ==
    ASSUME ExecutorInv, NEW c \in Configs, Send(c)
    PROVE  ExecutorInv'
<1>0. PICK t : t = Tx(c, proc[c].id)
  OBVIOUS
<1>1. /\ mempool' = mempool \cup {t} /\ Step(c, Idle(c)) /\ proc[c].pc = "send"
      /\ UNCHANGED <<rows, log, storageLock, nonceLock, identity, chain, used>>
  BY <1>0 DEF Send, At, diskVars, lockVars
<1>2. proc[c].id \in DOMAIN rows[c] /\ Row(c, proc[c].id).state = "BROADCAST_UNCERTAIN"
  BY <1>1, InHand DEF OrderInHand
<1>3. /\ t \in Txs /\ t.config = c /\ t.id = proc[c].id
  <2>1. proc[c].id \in Ids /\ Row(c, proc[c].id) \in Rows
    BY <1>2, IdsCover DEF ExecutorInv
  <2> QED
    BY <1>0, <2>1 DEF Tx, Txs, Rows
<1>4. /\ Idle(c) \in Processes /\ Idle(c).pc = "idle" /\ Idle(c).mode = proc[c].mode
      /\ OrderInHand(c, Idle(c)) /\ PageInHand(c, Idle(c))
  BY IdleRests
<1>5. proc' \in [Configs -> Processes] /\ proc'[c] = Idle(c) /\ \A d \in Configs \ {c} : proc'[d] = proc[d]
  BY <1>1, <1>4, StepFacts DEF ExecutorInv
<1>6. ExecutorTypeOK'
  BY <1>1, <1>3, <1>5 DEF ExecutorInv, ExecutorTypeOK
<1>7. ASSUME NEW d \in Configs
      PROVE  ConfigInv(d)'
  <2>1. CASE d # c
    BY <1>1, <1>5, <2>1, OthersKeep
  <2>2. CASE d = c
    <3>1. Idle(c).mode = "sign" => identity' = c
      BY <1>1, <1>4, InHand
    <3> QED
      BY <1>1, <1>4, <1>5, <2>2, <3>1, QuietOwn
  <2> QED
    BY <2>1, <2>2
<1>8. WireSound'
  <2>1. mempool' \cup Mined' = (mempool \cup Mined) \cup {t}
    BY <1>1 DEF Mined
  <2>2. ASSUME NEW x \in mempool \cup Mined
        PROVE  Sound(x)'
    <3>1. Sound(x) /\ x.config \in Configs
      BY WireTypes DEF ExecutorInv, WireSound, Txs
    <3> QED
      BY <1>1, <1>4, <1>5, <3>1 DEF Sound, Tx, Row
  <2>3. Sound(t)'
    BY <1>0, <1>1, <1>2, <1>3, <1>4, <1>5 DEF Sound, Tx, Row, Sent
  <2> QED
    BY <2>1, <2>2, <2>3 DEF WireSound
<1>9. HashesBelow'
  BY <1>1 DEF ExecutorInv, HashesBelow
<1> QED
  BY <1>6, <1>7, <1>8, <1>9 DEF ExecutorInv

----------------------------------------------------------------------------
(* Steps of the chain *)

\* The chain writes no journal, and what it holds was handed to it.
WireShrinks == rows' = rows /\ mempool' \cup Mined' \subseteq mempool \cup Mined

\* Blocks come and go: a block is never what another block was, so a receipt in hand stays about
\* the transaction it was read for.
LEMMA ChainStep ==
    ASSUME ExecutorInv, UNCHANGED <<diskVars, lockVars, proc>>,
           chain' \in Seq([hash : Nat, tx : Txs \cup {None}, ok : BOOLEAN]), mempool' \in SUBSET Txs,
           used' \in [blocks : Nat, reorgs : Nat, troubles : Nat], used.blocks <= used'.blocks,
           \A n \in DOMAIN chain' :
               \/ n \in DOMAIN chain /\ chain'[n] = chain[n]
               \/ used.blocks < chain'[n].hash /\ chain'[n].hash <= used'.blocks,
           mempool' \cup Mined' \subseteq mempool \cup Mined
    PROVE  ExecutorInv' /\ WireShrinks
<1>0. UNCHANGED <<rows, log, storageLock, nonceLock, identity, proc>>
  BY DEF diskVars, lockVars
<1>1. ExecutorTypeOK'
  BY <1>0 DEF ExecutorInv, ExecutorTypeOK
<1>2. used.blocks \in Nat /\ used'.blocks \in Nat
  BY DEF ExecutorInv, ExecutorTypeOK
<1>3. ASSUME NEW c \in Configs
      PROVE  ConfigInv(c)'
  <2>1. ConfigInv(c)
    BY DEF ExecutorInv
  <2>2. JournalOpens(c)' /\ FreshUnlogged(c)' /\ Owner(c)' /\ OrderInHand(c, proc[c])'
    BY <1>0, <2>1 DEF ConfigInv, FreshUnlogged, JournalOpens, RowVerifies, OutcomeVerifies, Row, Owner, OrderInHand
  <2>3. PageInHand(c, proc[c])'
    <3>1. PageInHand(c, proc[c])
      BY <2>1 DEF ConfigInv
    <3>2. ASSUME proc[c].pc \in {"block", "settle"}
          PROVE  /\ proc[c].receipt.hash <= used'.blocks
                 /\ Canonical(proc[c].receipt)' =>
                       chain'[proc[c].receipt.number].tx = Tx(c, First(proc[c].page))
      <4>1. /\ proc[c].receipt \in Receipts /\ proc[c].receipt.hash <= used.blocks
            /\ Canonical(proc[c].receipt) => chain[proc[c].receipt.number].tx = Tx(c, First(proc[c].page))
        BY <3>1, <3>2 DEF PageInHand
      <4>2. proc[c].receipt.hash \in Nat
        BY <4>1 DEF Receipts
      <4>3. ASSUME Canonical(proc[c].receipt)'
            PROVE  chain'[proc[c].receipt.number].tx = Tx(c, First(proc[c].page))
        <5> DEFINE n == proc[c].receipt.number
        <5>1. n \in DOMAIN chain' /\ chain'[n].hash = proc[c].receipt.hash
          BY <1>0, <4>3 DEF Canonical
        <5>2. ~(used.blocks < chain'[n].hash)
          BY <1>2, <4>1, <4>2, <5>1
        <5>3. n \in DOMAIN chain /\ chain'[n] = chain[n]
          BY <5>1, <5>2
        <5> QED
          BY <4>1, <5>1, <5>3 DEF Canonical
      <4> QED
        BY <1>2, <4>1, <4>2, <4>3
    <3> QED
      BY <1>0, <3>1, <3>2 DEF PageInHand, Row, Tx
  <2> QED
    BY <2>2, <2>3 DEF ConfigInv
<1>4. WireSound'
  <2>1. ASSUME NEW t \in mempool \cup Mined
        PROVE  Sound(t)'
    BY <1>0 DEF ExecutorInv, WireSound, Sound, Tx, Row
  <2> QED
    BY <2>1 DEF WireSound
<1>5. HashesBelow'
  <2>1. ASSUME NEW n \in DOMAIN chain
        PROVE  chain[n].hash <= used'.blocks
    BY <1>2, BlockType DEF ExecutorInv, HashesBelow
  <2> QED
    BY <2>1 DEF HashesBelow
<1> QED
  BY <1>0, <1>1, <1>3, <1>4, <1>5 DEF ExecutorInv, WireShrinks

LEMMA ChainNextKeeps ==
    ASSUME ExecutorInv, ChainNext
    PROVE  ExecutorInv' /\ WireShrinks
<1> DEFINE Blocks == [hash : Nat, tx : Txs \cup {None}, ok : BOOLEAN]
<1>0. /\ chain \in Seq(Blocks) /\ mempool \in SUBSET Txs /\ used \in [blocks : Nat, reorgs : Nat, troubles : Nat]
      /\ used.blocks \in Nat
  BY DEF ExecutorInv, ExecutorTypeOK
<1>1. ASSUME NEW tx \in Txs \cup {None}, NEW ok \in BOOLEAN, NewBlock(tx, ok), mempool' \in SUBSET mempool,
             tx \in (mempool \cup {None})
      PROVE  ExecutorInv' /\ WireShrinks
  <2>1. PICK b : b = [hash |-> used.blocks + 1, tx |-> tx, ok |-> ok]
    OBVIOUS
  <2>2. b \in Blocks /\ b.hash = used.blocks + 1 /\ b.tx = tx
    BY <1>0, <2>1
  <2>3. chain' = Append(chain, b) /\ UNCHANGED <<diskVars, lockVars, proc>>
    BY <1>1, <2>1 DEF NewBlock
  <2>4. used' \in [blocks : Nat, reorgs : Nat, troubles : Nat] /\ used'.blocks = used.blocks + 1
    BY <1>0, <1>1 DEF NewBlock
  <2> HIDE DEF Blocks
  <2>5. /\ chain' \in Seq(Blocks) /\ DOMAIN chain' = DOMAIN chain \cup {Len(chain) + 1}
        /\ \A n \in DOMAIN chain : chain'[n] = chain[n]
        /\ chain'[Len(chain) + 1] = b
    BY <1>0, <2>2, <2>3, AppendRow
  <2>6. mempool' \cup Mined' \subseteq mempool \cup Mined
    BY <1>1, <2>2, <2>5 DEF Mined
  <2>7. /\ used.blocks <= used'.blocks
        /\ \A n \in DOMAIN chain' :
               \/ n \in DOMAIN chain /\ chain'[n] = chain[n]
               \/ used.blocks < chain'[n].hash /\ chain'[n].hash <= used'.blocks
    BY <1>0, <2>2, <2>4, <2>5
  <2> QED
    BY <1>0, <1>1, <2>3, <2>4, <2>5, <2>6, <2>7, ChainStep DEF Blocks
<1>2. CASE MineEmpty
  BY <1>1, <1>2 DEF MineEmpty
<1>3. ASSUME NEW tx \in mempool, NEW ok \in BOOLEAN, MineTx(tx, ok)
      PROVE  ExecutorInv' /\ WireShrinks
  BY <1>0, <1>1, <1>3 DEF MineTx
<1>4. ASSUME NEW tx \in mempool, Forget(tx)
      PROVE  ExecutorInv' /\ WireShrinks
  <2>1. /\ UNCHANGED <<diskVars, lockVars, proc, chain, used>> /\ mempool' \in SUBSET Txs
        /\ mempool' \cup Mined' \subseteq mempool \cup Mined
    BY <1>0, <1>4 DEF Forget, Mined
  <2> QED
    BY <1>0, <2>1, ChainStep
<1>5. ASSUME NEW depth \in 1..Len(chain), NEW kept \in BOOLEAN, Reorg(depth, kept)
      PROVE  ExecutorInv' /\ WireShrinks
  <2> DEFINE stays == Len(chain) - depth
             dropped == {chain[n].tx : n \in (stays + 1)..Len(chain)} \ {None}
  <2>1. /\ chain' = SubSeq(chain, 1, stays) /\ mempool' = (IF kept THEN mempool \cup dropped ELSE mempool)
        /\ used' = [used EXCEPT !.reorgs = @ + 1] /\ UNCHANGED <<diskVars, lockVars, proc>>
    BY <1>5 DEF Reorg
  <2>2. used' \in [blocks : Nat, reorgs : Nat, troubles : Nat] /\ used'.blocks = used.blocks
    <3>1. used \in [blocks : Nat, reorgs : Nat, troubles : Nat] /\ used' = [used EXCEPT !.reorgs = @ + 1]
      BY <1>0, <2>1
    <3> QED
      BY <3>1
  <2>3. Len(chain) \in Nat /\ DOMAIN chain = 1..Len(chain)
    BY ChainLength DEF ExecutorInv
  <2>4. stays \in Nat /\ stays <= Len(chain)
    BY <2>3
  <2>5. /\ chain' \in Seq(Blocks) /\ DOMAIN chain' \subseteq DOMAIN chain
        /\ \A n \in DOMAIN chain' : chain'[n] = chain[n]
    <3> HIDE DEF Blocks, stays
    <3> QED
      BY <1>0, <2>1, <2>3, <2>4, PrefixFacts
  <2>6. dropped \subseteq Mined
    BY <2>3, <2>4 DEF Mined
  <2>7. Mined' \subseteq Mined
    BY <2>5 DEF Mined
  <2>8. mempool' \cup Mined' \subseteq mempool \cup Mined /\ mempool' \subseteq mempool \cup Mined
    BY <2>1, <2>6, <2>7
  <2>9. mempool' \in SUBSET Txs
    BY <2>8, WireTypes DEF ExecutorInv
  <2>10. /\ chain' \in Seq(Blocks) /\ UNCHANGED <<diskVars, lockVars, proc>> /\ used.blocks <= used'.blocks
         /\ \A n \in DOMAIN chain' : n \in DOMAIN chain /\ chain'[n] = chain[n]
    BY <1>0, <2>1, <2>2, <2>5
  <2> HIDE DEF stays, dropped
  <2> QED
    BY <2>2, <2>8, <2>9, <2>10, ChainStep
<1> QED
  BY <1>2, <1>3, <1>4, <1>5 DEF ChainNext

----------------------------------------------------------------------------
(* The invariant *)

LEMMA ExecutorInitially == ExecutorInit => ExecutorInv
<1> SUFFICES ASSUME ExecutorInit
             PROVE  ExecutorInv
  OBVIOUS
<1>1. Off \in Processes /\ Off.pc = "off" /\ Off.mode = "off" /\ Off.page = {}
  BY AtRest DEF Off, Rest, Processes, Positions
<1>2. \A c \in Configs : proc[c] = Off /\ rows[c] = <<>>
  BY DEF ExecutorInit
<1>3. chain = <<>> /\ mempool = {} /\ Mined = {}
  BY DEF ExecutorInit, Mined
<1>4. ExecutorTypeOK
  <2>1. \A c \in Configs : MaxOrders[c] \in Nat
    BY ExecutorAssumption
  <2>2. chain \in Seq([hash : Nat, tx : Txs \cup {None}, ok : BOOLEAN])
    BY <1>3
  <2>3. proc \in [Configs -> Processes]
    BY <1>1 DEF ExecutorInit
  <2> QED
    BY <2>1, <2>2, <2>3 DEF ExecutorInit, ExecutorTypeOK
<1>5. \A c \in Configs : ConfigInv(c)
  BY <1>1, <1>2 DEF ExecutorInit, ConfigInv, JournalOpens, FreshUnlogged, Owner, OrderInHand, PageInHand
<1> QED
  BY <1>3, <1>4, <1>5 DEF ExecutorInv, WireSound, HashesBelow

LEMMA ExecutorInductive == ExecutorInv /\ [ExecutorNext]_executorVars => ExecutorInv'
<1> SUFFICES ASSUME ExecutorInv, [ExecutorNext]_executorVars
             PROVE  ExecutorInv'
  OBVIOUS
<1>1. CASE ChainNext
  BY <1>1, ChainNextKeeps
<1>2. ASSUME NEW c \in Configs, Cycle(c)
      PROVE  ExecutorInv'
  BY <1>2, TickKeeps, ReadReceiptKeeps, ReadBlockKeeps, SettleKeeps, OperateKeeps, SubmitKeeps, ReadNonceKeeps,
     OrderStepKeeps, SendKeeps DEF Cycle
<1>3. ASSUME NEW c \in Configs, Operate(c)
      PROVE  ExecutorInv'
  BY <1>3, OperateKeeps, CancelKeeps DEF Operate
<1>4. CASE UNCHANGED executorVars
  <2>1. UNCHANGED <<diskVars, lockVars, proc, chain, mempool, used>>
    BY <1>4 DEF executorVars, diskVars, lockVars
  <2>2. used.blocks \in Nat
    BY DEF ExecutorInv, ExecutorTypeOK
  <2> QED
    BY <2>1, <2>2, ChainStep DEF ExecutorInv, ExecutorTypeOK, Mined
<1> QED
  BY <1>1, <1>2, <1>3, <1>4 DEF ExecutorNext

\* Whatever crashes, failed calls, reorganisations and interleavings come before, every journal
\* passes verifyRows and verifyOutcomes when it is opened next (OrderJournal).
THEOREM JournalsReopen == ExecutorSpec => []JournalReopens
<1>1. ExecutorInv => JournalReopens
  BY DEF ExecutorInv, JournalReopens, ConfigInv
<1> QED
  BY <1>1, ExecutorInitially, ExecutorInductive, PTL DEF ExecutorSpec
----------------------------------------------------------------------------
(* The book *)

Numbers(c, id, e) == Row(c, id).nonce # None /\ e = Entry(c, id)

BookIsNumbered == \A e : e \in BookEntries <=> \E c \in Configs : \E id \in DOMAIN rows[c] : Numbers(c, id, e)

OpenIsBlocking ==
    \A e : e \in OpenEntries <=>
        \E c \in Configs : \E id \in DOMAIN rows[c] : Numbers(c, id, e) /\ Row(c, id).state \in Blocking

LEMMA BookMember == ExecutorTypeOK => BookIsNumbered
<1> SUFFICES ASSUME ExecutorTypeOK, NEW e
             PROVE  e \in BookEntries <=> \E c \in Configs : \E id \in DOMAIN rows[c] : Numbers(c, id, e)
  BY DEF BookIsNumbered
<1>1. ASSUME e \in BookEntries
      PROVE  \E c \in Configs : \E id \in DOMAIN rows[c] : Numbers(c, id, e)
  <2>1. PICK x \in Configs \X Ids : x[2] \in DOMAIN rows[x[1]] /\ Row(x[1], x[2]).nonce # None /\ e = Entry(x[1], x[2])
    BY <1>1 DEF BookEntries, Numbered
  <2>2. x[1] \in Configs
    OBVIOUS
  <2> QED
    BY <2>1, <2>2 DEF Numbers
<1>2. ASSUME NEW c \in Configs, NEW id \in DOMAIN rows[c], Numbers(c, id, e)
      PROVE  e \in BookEntries
  <2>1. <<c, id>> \in Numbered
    BY <1>2, IdsCover DEF Numbered, Numbers
  <2> QED
    BY <1>2, <2>1 DEF BookEntries, Numbers
<1> QED
  BY <1>1, <1>2

LEMMA OpenMember == ExecutorTypeOK => OpenIsBlocking
<1> SUFFICES ASSUME ExecutorTypeOK, NEW e
             PROVE  e \in OpenEntries <=>
                        \E c \in Configs : \E id \in DOMAIN rows[c] : Numbers(c, id, e) /\ Row(c, id).state \in Blocking
  BY DEF OpenIsBlocking
<1>1. ASSUME e \in OpenEntries
      PROVE  \E c \in Configs : \E id \in DOMAIN rows[c] : Numbers(c, id, e) /\ Row(c, id).state \in Blocking
  <2>1. PICK x \in Configs \X Ids : /\ x[2] \in DOMAIN rows[x[1]] /\ Row(x[1], x[2]).nonce # None
                                    /\ Row(x[1], x[2]).state \in Blocking /\ e = Entry(x[1], x[2])
    BY <1>1 DEF OpenEntries, Numbered
  <2>2. x[1] \in Configs
    OBVIOUS
  <2> QED
    BY <2>1, <2>2 DEF Numbers
<1>2. ASSUME NEW c \in Configs, NEW id \in DOMAIN rows[c], Numbers(c, id, e), Row(c, id).state \in Blocking
      PROVE  e \in OpenEntries
  <2>1. <<c, id>> \in Numbered
    BY <1>2, IdsCover DEF Numbered, Numbers
  <2> QED
    BY <1>2, <2>1 DEF OpenEntries, Numbers
<1> QED
  BY <1>1, <1>2

\* A step that numbers no order and opens or closes none leaves the book as it is.
LEMMA SameBook ==
    ASSUME ExecutorTypeOK, ExecutorTypeOK',
           \A c \in Configs : \A id \in DOMAIN rows[c] :
               /\ id \in DOMAIN rows'[c] /\ rows'[c][id].signer = rows[c][id].signer
               /\ rows'[c][id].nonce = rows[c][id].nonce
               /\ rows'[c][id].nonce # None => (rows'[c][id].state \in Blocking <=> rows[c][id].state \in Blocking),
           \A c \in Configs : \A id \in DOMAIN rows'[c] : id \notin DOMAIN rows[c] => rows'[c][id].nonce = None
    PROVE  BookEntries' = BookEntries /\ OpenEntries' = OpenEntries
<1>1. BookIsNumbered /\ OpenIsBlocking
  BY BookMember, OpenMember
<1>2. BookIsNumbered' /\ OpenIsBlocking'
  BY BookMember, OpenMember, PTL
<1>3. ASSUME NEW c \in Configs, NEW id \in DOMAIN rows[c], NEW e
      PROVE  /\ id \in DOMAIN rows'[c] /\ (Numbers(c, id, e)' <=> Numbers(c, id, e))
             /\ Numbers(c, id, e) => (Row(c, id)'.state \in Blocking <=> Row(c, id).state \in Blocking)
  BY DEF Numbers, Entry, Row
<1>4. ASSUME NEW c \in Configs, NEW id \in DOMAIN rows'[c], NEW e, Numbers(c, id, e)'
      PROVE  id \in DOMAIN rows[c]
  BY <1>4 DEF Numbers, Row
<1>5. \A e : e \in BookEntries' <=> e \in BookEntries
  BY <1>1, <1>2, <1>3, <1>4 DEF BookIsNumbered
<1>6. \A e : e \in OpenEntries' <=> e \in OpenEntries
  BY <1>1, <1>2, <1>3, <1>4 DEF OpenIsBlocking
<1> QED
  BY <1>5, <1>6
\* What a write to one numbered order does to the book.
LEMMA OneEntry ==
    ASSUME ExecutorTypeOK, ExecutorTypeOK', NEW c \in Configs, NEW id \in DOMAIN rows[c], NEW row \in Rows,
           SetRow(c, id, row), row.signer = Row(c, id).signer, row.nonce # None,
           Row(c, id).nonce # None => Row(c, id).nonce = row.nonce,
           NEW e, e = [signer |-> row.signer, nonce |-> row.nonce, order |-> <<c, id>>]
    PROVE  /\ BookEntries' = BookEntries \cup {e}
           /\ OpenEntries' = IF row.state \in Blocking THEN OpenEntries \cup {e} ELSE OpenEntries \ {e}
           /\ e \in BookEntries <=> Row(c, id).nonce # None
           /\ e \in OpenEntries <=> Row(c, id).nonce # None /\ Row(c, id).state \in Blocking
<1>1. BookIsNumbered /\ OpenIsBlocking
  BY BookMember, OpenMember
<1>2. BookIsNumbered' /\ OpenIsBlocking'
  BY BookMember, OpenMember, PTL
<1>3. /\ \A d \in Configs : DOMAIN rows'[d] = DOMAIN rows[d]
      /\ rows'[c][id] = row
      /\ \A d \in Configs \ {c} : rows'[d] = rows[d]
      /\ \A x \in DOMAIN rows[c] \ {id} : rows'[c][x] = rows[c][x]
  BY SetRowFacts
<1>4. ASSUME NEW f
      PROVE  (Numbers(c, id, f)' <=> f = e) /\ (Numbers(c, id, f) <=> f = e /\ Row(c, id).nonce # None)
  BY <1>3 DEF Numbers, Entry, Row
<1>5. ASSUME NEW d \in Configs, NEW x \in DOMAIN rows[d], d # c \/ x # id, NEW f
      PROVE  /\ Numbers(d, x, f)' <=> Numbers(d, x, f)
             /\ Row(d, x)' = Row(d, x)
             /\ Numbers(d, x, f) => f # e
  <2>1. rows'[d][x] = rows[d][x]
    BY <1>3, <1>5
  <2>2. Numbers(d, x, f) => f.order = <<d, x>>
    BY DEF Numbers, Entry
  <2>3. e.order = <<c, id>>
    OBVIOUS
  <2>4. <<d, x>> # <<c, id>>
    BY <1>5
  <2> QED
    BY <2>1, <2>2, <2>3, <2>4 DEF Numbers, Entry, Row
<1>6. ASSUME NEW f
      PROVE  /\ f \in BookEntries' <=> f = e \/ f \in BookEntries
             /\ f \in OpenEntries' <=> (IF f = e THEN row.state \in Blocking ELSE f \in OpenEntries)
  <2>1. f \in BookEntries' <=> \E d \in Configs : \E x \in DOMAIN rows[d] : Numbers(d, x, f)'
    BY <1>2, <1>3 DEF BookIsNumbered
  <2>2. f \in OpenEntries' <=> \E d \in Configs : \E x \in DOMAIN rows[d] : Numbers(d, x, f)' /\ Row(d, x)'.state \in Blocking
    BY <1>2, <1>3 DEF OpenIsBlocking
  <2>3. f \in BookEntries <=> \E d \in Configs : \E x \in DOMAIN rows[d] : Numbers(d, x, f)
    BY <1>1 DEF BookIsNumbered
  <2>4. f \in OpenEntries <=> \E d \in Configs : \E x \in DOMAIN rows[d] : Numbers(d, x, f) /\ Row(d, x).state \in Blocking
    BY <1>1 DEF OpenIsBlocking
  <2>5. Row(c, id)'.state = row.state
    BY <1>3 DEF Row
  <2>6. CASE f = e
    BY <1>4, <1>5, <2>1, <2>2, <2>5, <2>6
  <2>7. CASE f # e
    BY <1>4, <1>5, <2>1, <2>2, <2>3, <2>4, <2>7
  <2> QED
    BY <2>6, <2>7
<1>7. e \in BookEntries <=> Row(c, id).nonce # None
  BY <1>1, <1>4, <1>5 DEF BookIsNumbered
<1>8. e \in OpenEntries <=> Row(c, id).nonce # None /\ Row(c, id).state \in Blocking
  BY <1>1, <1>4, <1>5 DEF OpenIsBlocking
<1> QED
  BY <1>6, <1>7, <1>8

\* What the network holds depends on the chain and the mempool alone.
LEMMA SameWire ==
    ASSUME chain' = chain, mempool' = mempool
    PROVE  WireEntries' = WireEntries
BY DEF WireEntries, Mined, Envelope

\* A step that neither writes a numbered order nor hands an envelope over is no step of the book,
\* or one in which the network loses envelopes.
LEMMA QuietRefines ==
    ASSUME ExecutorTypeOK, ExecutorTypeOK', WireShrinks
    PROVE  Book!BookNext
<1>1. BookEntries' = BookEntries /\ OpenEntries' = OpenEntries
  BY SameBook DEF WireShrinks
<1>2. WireEntries' \subseteq WireEntries
  BY DEF WireEntries, Envelope, WireShrinks
<1> QED
  BY <1>1, <1>2 DEF Book!Lose, Book!BookNext
\* So is one that writes an order without giving it a nonce, opening or closing it.
LEMMA UnnumberedRefines ==
    ASSUME ExecutorTypeOK, ExecutorTypeOK', chain' = chain, mempool' = mempool,
           BookEntries' = BookEntries, OpenEntries' = OpenEntries
    PROVE  Book!BookNext
BY SameWire DEF Book!Lose, Book!BookNext

\* A change of state of one order that stays open, or stays without a nonce.
LEMMA AdvanceRefines ==
    ASSUME ExecutorTypeOK, ExecutorTypeOK', chain' = chain, mempool' = mempool,
           NEW c \in Configs, NEW id \in DOMAIN rows[c], NEW row \in Rows, SetRow(c, id, row),
           row.signer = Row(c, id).signer, row.nonce = Row(c, id).nonce,
           row.nonce # None => (row.state \in Blocking <=> Row(c, id).state \in Blocking)
    PROVE  Book!BookNext
<1>1. /\ \A d \in Configs : DOMAIN rows'[d] = DOMAIN rows[d]
      /\ rows'[c][id] = row
      /\ \A d \in Configs \ {c} : rows'[d] = rows[d]
      /\ \A x \in DOMAIN rows[c] \ {id} : rows'[c][x] = rows[c][x]
  BY SetRowFacts
<1>2. ASSUME NEW d \in Configs, NEW x \in DOMAIN rows[d]
      PROVE  /\ x \in DOMAIN rows'[d] /\ rows'[d][x].signer = rows[d][x].signer
             /\ rows'[d][x].nonce = rows[d][x].nonce
             /\ rows'[d][x].nonce # None => (rows'[d][x].state \in Blocking <=> rows[d][x].state \in Blocking)
  <2>1. CASE d = c /\ x = id
    BY <1>1, <2>1 DEF Row
  <2>2. CASE ~(d = c /\ x = id)
    <3>1. rows'[d][x] = rows[d][x]
      BY <1>1, <2>2
    <3> QED
      BY <1>1, <3>1
  <2> QED
    BY <2>1, <2>2
<1>3. BookEntries' = BookEntries /\ OpenEntries' = OpenEntries
  BY <1>1, <1>2, SameBook
<1> QED
  BY <1>3, UnnumberedRefines

\* Reserving a nonce assigns it: no other journal of the host has numbered orders, and this one has
\* neither the nonce nor an open order of the signer.
LEMMA ReserveRefines ==
    ASSUME ExecutorInv, ExecutorTypeOK', NEW c \in Configs, proc[c].pc = "reserve",
           Reserve(c, proc[c].id, proc[c].nonce), chain' = chain, mempool' = mempool
    PROVE  Book!BookNext
<1>0. PICK id : id = proc[c].id
  OBVIOUS
<1>1. PICK row : row = [Row(c, id) EXCEPT !.nonce = proc[c].nonce, !.state = "RESERVED"]
  OBVIOUS
<1>2. id \in DOMAIN rows[c] /\ proc[c].mode = "sign" /\ identity = c
  BY <1>0, InHand DEF OrderInHand
<1>3. Row(c, id) \in Rows /\ RowVerifies(c, id)
  BY <1>2, IdsCover, InHand DEF ExecutorInv, JournalOpens
<1>4. row \in Rows /\ row.state = "RESERVED" /\ row.nonce = proc[c].nonce /\ row.signer = Row(c, id).signer
  BY <1>1, <1>3, ProcType DEF Rows, States, Blocking
<1>5. SetRow(c, id, row) /\ CanReserve(c, id, proc[c].nonce)
  BY <1>0, <1>1 DEF Reserve
<1>6. row.nonce # None /\ Row(c, id).nonce = None /\ row.state \in Blocking
  BY <1>3, <1>4, <1>5, ProcType, ExecutorAssumption DEF CanReserve, RowVerifies, Unsigned, Blocking
<1>7. PICK e : e = [signer |-> row.signer, nonce |-> row.nonce, order |-> <<c, id>>]
  OBVIOUS
<1>8. BookEntries' = BookEntries \cup {e} /\ OpenEntries' = OpenEntries \cup {e} /\ e \notin BookEntries
  BY <1>2, <1>4, <1>5, <1>6, <1>7, OneEntry DEF ExecutorInv
<1>9. ASSUME NEW d \in Configs, NEW x \in DOMAIN rows[d], NEW f, Numbers(d, x, f)
      PROVE  d = c /\ f.signer = Row(c, x).signer /\ f.nonce = Row(c, x).nonce /\ x \in DOMAIN rows[c]
  <2>1. identity = d
    BY <1>9 DEF ExecutorInv, ConfigInv, Owner, Numbers
  <2> QED
    BY <1>2, <1>9, <2>1 DEF Numbers, Entry
<1>10. \A f \in BookEntries : f.signer = e.signer => f.nonce # e.nonce
  <2>1. BookIsNumbered
    BY BookMember DEF ExecutorInv
  <2> QED
    BY <1>4, <1>5, <1>7, <1>9, <2>1 DEF BookIsNumbered, CanReserve, NonceTaken
<1>11. \A f \in OpenEntries : f.signer # e.signer
  <2>1. OpenIsBlocking
    BY OpenMember DEF ExecutorInv
  <2>2. ASSUME NEW f \in OpenEntries
        PROVE  f.signer # e.signer
    <3>1. PICK d \in Configs : \E x \in DOMAIN rows[d] : Numbers(d, x, f) /\ Row(d, x).state \in Blocking
      BY <2>1 DEF OpenIsBlocking
    <3>2. PICK x \in DOMAIN rows[d] : Numbers(d, x, f) /\ Row(d, x).state \in Blocking
      BY <3>1
    <3>3. d = c /\ f.signer = Row(c, x).signer /\ x \in DOMAIN rows[c]
      BY <1>9, <3>2
    <3> QED
      BY <1>4, <1>5, <1>7, <3>2, <3>3 DEF CanReserve, Blocked
  <2> QED
    BY <2>2
<1>12. WireEntries' = WireEntries
  BY SameWire
<1>13. Book!Assign(e) /\ e \in BookEntries' \ BookEntries
  BY <1>8, <1>10, <1>11, <1>12 DEF Book!Assign
<1> QED
  BY <1>13 DEF Book!BookNext

\* Recording an outcome closes an open order only while the chain holds its envelope, or reopens it.
LEMMA RecordRefines ==
    ASSUME ExecutorInv, ExecutorTypeOK', NEW c \in Configs, proc[c].page # {}, NEW state \in Resolved, NEW evidence \in Evidence,
           RecordOutcome(c, First(proc[c].page), state, evidence), chain' = chain, mempool' = mempool,
           state # "REORGED" => Tx(c, First(proc[c].page)) \in Mined
    PROVE  Book!BookNext
<1>1. PICK id : id = First(proc[c].page)
  OBVIOUS
<1>2. id \in DOMAIN rows[c]
  BY <1>1, TurnFacts, InHand DEF PageInHand
<1>3. Row(c, id) \in Rows /\ RowVerifies(c, id) /\ Row(c, id).state \in Sent
  BY <1>1, <1>2, IdsCover, InHand DEF ExecutorInv, JournalOpens, RecordOutcome
<1>4. PICK row : row = [Row(c, id) EXCEPT !.state = state, !.evidence = evidence]
  OBVIOUS
<1>5. row \in Rows /\ row.state = state /\ row.signer = Row(c, id).signer /\ row.nonce = Row(c, id).nonce
  BY <1>3, <1>4 DEF Rows, States
<1>6. SetRow(c, id, row) /\ row.nonce # None
  BY <1>1, <1>3, <1>4, <1>5 DEF RecordOutcome, RowVerifies, Sent, Resolved, Unsigned
<1>7. PICK e : e = [signer |-> row.signer, nonce |-> row.nonce, order |-> <<c, id>>]
  OBVIOUS
<1>8. /\ BookEntries' = BookEntries /\ e \in BookEntries
      /\ OpenEntries' = IF row.state \in Blocking THEN OpenEntries \cup {e} ELSE OpenEntries \ {e}
  BY <1>2, <1>5, <1>6, <1>7, OneEntry DEF ExecutorInv
<1>9. WireEntries' = WireEntries
  BY SameWire
<1>10. CASE state = "REORGED"
  <2>1. OpenEntries' = OpenEntries \cup {e}
    BY <1>5, <1>8, <1>10 DEF Blocking
  <2>2. CASE e \in OpenEntries
    BY <1>8, <1>9, <2>1, <2>2 DEF Book!Lose, Book!BookNext
  <2>3. CASE e \notin OpenEntries
    BY <1>8, <1>9, <2>1, <2>3 DEF Book!Reopen, Book!BookNext
  <2> QED
    BY <2>2, <2>3
<1>11. CASE state # "REORGED"
  <2>1. OpenEntries' = OpenEntries \ {e}
    BY <1>5, <1>8, <1>11 DEF Blocking, Resolved
  <2>2. e \in WireEntries
    <3>1. Tx(c, id) \in mempool \cup Mined /\ Envelope(Tx(c, id)) = e
      BY <1>1, <1>5, <1>7, <1>11 DEF Tx, Envelope
    <3> QED
      BY <3>1 DEF WireEntries
  <2>3. CASE e \in OpenEntries
    BY <1>8, <1>9, <2>1, <2>2, <2>3 DEF Book!Close, Book!BookNext
  <2>4. CASE e \notin OpenEntries
    BY <1>8, <1>9, <2>1, <2>4 DEF Book!Lose, Book!BookNext
  <2> QED
    BY <2>3, <2>4
<1> QED
  BY <1>10, <1>11

\* Handing an envelope to the network releases its entry, for the first time.
LEMMA SendRefines ==
    ASSUME ExecutorInv, ExecutorTypeOK', NEW c \in Configs, Send(c)
    PROVE  Book!BookNext
<1>0. PICK id : id = proc[c].id
  OBVIOUS
<1>1. /\ mempool' = mempool \cup {Tx(c, id)} /\ proc[c].pc = "send" /\ chain' = chain /\ rows' = rows
  BY <1>0 DEF Send, At, diskVars
<1>2. id \in DOMAIN rows[c] /\ Row(c, id).state = "BROADCAST_UNCERTAIN" /\ RowVerifies(c, id)
  BY <1>0, <1>1, InHand DEF OrderInHand, JournalOpens
<1>3. Row(c, id).nonce # None /\ Row(c, id).state \in Blocking
  BY <1>2 DEF RowVerifies, Unsigned, Blocking
<1>4. PICK e : e = Entry(c, id)
  OBVIOUS
<1>5. e \in BookEntries /\ e \in OpenEntries
  <2>1. Numbers(c, id, e) /\ BookIsNumbered /\ OpenIsBlocking
    BY <1>3, <1>4, BookMember, OpenMember DEF Numbers, ExecutorInv
  <2> QED
    BY <1>2, <1>3, <2>1 DEF BookIsNumbered, OpenIsBlocking
<1>6. BookEntries' = BookEntries /\ OpenEntries' = OpenEntries
  BY <1>1, SameBook DEF ExecutorInv
<1>7. WireEntries' = WireEntries \cup {e}
  <2>1. Envelope(Tx(c, id)) = e
    BY <1>4 DEF Envelope, Tx, Entry
  <2>2. mempool' \cup Mined' = (mempool \cup Mined) \cup {Tx(c, id)}
    BY <1>1 DEF Mined
  <2> QED
    BY <2>1, <2>2 DEF WireEntries, Envelope
<1>8. e \notin WireEntries
  <2>1. SUFFICES ASSUME NEW t \in mempool \cup Mined, Envelope(t) = e
                 PROVE  FALSE
    BY DEF WireEntries
  <2>2. t.config = c /\ t.id = id
    <3>1. e.order = <<c, id>> /\ e.order = <<t.config, t.id>>
      BY <1>4, <2>1 DEF Entry, Envelope
    <3> QED
      BY <3>1
  <2>3. Sound(t)
    BY DEF ExecutorInv, WireSound
  <2> QED
    BY <1>0, <1>1, <2>2, <2>3 DEF Sound
<1> QED
  BY <1>5, <1>6, <1>7, <1>8 DEF Book!Release, Book!BookNext
----------------------------------------------------------------------------
(* Every step of the executor is a step of the book *)

LEMMA CycleRefines ==
    ASSUME ExecutorInv, ExecutorInv', NEW c \in Configs, Cycle(c)
    PROVE  Book!BookNext
<1>0. ExecutorTypeOK /\ ExecutorTypeOK'
  BY DEF ExecutorInv
<1>1. CASE UNCHANGED <<rows, chain, mempool>>
  BY <1>0, <1>1, QuietRefines DEF WireShrinks, Mined
<1>2. CASE Tick(c) \/ NoAction(c) \/ ReadNonce(c)
  BY <1>1, <1>2 DEF Tick, NoAction, ReadNonce, diskVars, chainVars
<1>3. CASE ReadReceipt(c)
  <2> DEFINE id == First(proc[c].page)
  <2>1. chain' = chain /\ mempool' = mempool /\ proc[c].page # {}
    BY <1>3, InHand DEF ReadReceipt, At, PageInHand, chainVars
  <2>2. CASE UNCHANGED diskVars
    BY <1>1, <2>1, <2>2 DEF diskVars
  <2>3. CASE /\ RecordOutcome(c, id, "REORGED", [reason |-> "RECEIPT_DISAPPEARED", was |-> Row(c, id).state])
             /\ Row(c, id).state \in {"RECONCILED", "REVERTED"}
    <3>1. [reason |-> "RECEIPT_DISAPPEARED", was |-> Row(c, id).state] \in Evidence /\ "REORGED" \in Resolved
      BY <2>3 DEF Evidence, States, Resolved
    <3> QED
      BY <1>0, <2>1, <2>3, <3>1, RecordRefines
  <2> QED
    BY <1>3, <2>2, <2>3 DEF ReadReceipt
<1>4. CASE ReadBlock(c)
  <2> DEFINE id == First(proc[c].page)
  <2>1. chain' = chain /\ mempool' = mempool /\ proc[c].page # {} /\ proc[c].page \in SUBSET Nat
    BY <1>4, InHand, ProcType DEF ReadBlock, At, PageInHand, chainVars
  <2>2. CASE UNCHANGED diskVars
    BY <1>1, <2>1, <2>2 DEF diskVars
  <2>3. CASE RecordOutcome(c, id, "REORGED", [reason |-> "RECEIPT_NOT_CANONICAL", was |-> Row(c, id).state])
    <3>1. id \in DOMAIN rows[c]
      BY <2>1, FirstOfPage, InHand DEF PageInHand
    <3>2. Row(c, id).state \in States
      BY <1>0, <3>1, IdsCover DEF Rows
    <3>3. [reason |-> "RECEIPT_NOT_CANONICAL", was |-> Row(c, id).state] \in Evidence /\ "REORGED" \in Resolved
      BY <3>2 DEF Evidence, Resolved
    <3> QED
      BY <1>0, <2>1, <2>3, <3>3, RecordRefines
  <2> QED
    BY <1>4, <2>2, <2>3 DEF ReadBlock
<1>5. CASE Settle(c)
  <2> DEFINE receipt == proc[c].receipt
             id == First(proc[c].page)
  <2>1. /\ chain' = chain /\ mempool' = mempool /\ proc[c].page # {} /\ proc[c].page \in SUBSET Nat
        /\ receipt \in Receipts /\ (Canonical(receipt) => chain[receipt.number].tx = Tx(c, id))
    BY <1>5, InHand, ProcType DEF Settle, At, PageInHand, chainVars
  <2>2. CASE ~Canonical(receipt)
    BY <1>1, <1>5, <2>1, <2>2 DEF Settle, diskVars
  <2>3. CASE Canonical(receipt)
    <3>1. RecordOutcome(c, id, IF receipt.ok THEN "RECONCILED" ELSE "REVERTED",
                        [block |-> receipt.number, hash |-> receipt.hash])
      BY <1>5, <2>3 DEF Settle
    <3>2. [block |-> receipt.number, hash |-> receipt.hash] \in Evidence
      BY <2>1 DEF Evidence, Receipts
    <3>3. (IF receipt.ok THEN "RECONCILED" ELSE "REVERTED") \in Resolved
      BY DEF Resolved
    <3>4. id \in DOMAIN rows[c]
      BY <2>1, FirstOfPage, InHand DEF PageInHand
    <3>5. Tx(c, id) \in Txs
      BY <1>0, <3>4, IdsCover DEF Tx, Txs, Rows
    <3>6. Tx(c, id) \in Mined
      BY <2>1, <2>3, <3>5, ExecutorAssumption DEF Mined, Canonical
    <3> QED
      BY <1>0, <2>1, <3>1, <3>2, <3>3, <3>6, RecordRefines
  <2> QED
    BY <2>2, <2>3
<1>6. ASSUME NEW p \in Purposes, Submit(c, p)
      PROVE  Book!BookNext
  <2>1. chain' = chain /\ mempool' = mempool
    BY <1>6 DEF Submit, chainVars
  <2>2. PICK row : row = [purpose |-> p, signer |-> Signer(p), state |-> "PREPARED", nonce |-> None, evidence |-> None]
    OBVIOUS
  <2>3. row \in Rows /\ row.nonce = None /\ rows' = [rows EXCEPT ![c] = Append(rows[c], row)]
    BY <1>6, <2>2 DEF Submit, Prepare, Rows, States, Unsigned, Signer, Signers
  <2>4. rows \in [Configs -> Seq(Rows)] /\ rows[c] \in Seq(Rows)
    BY <1>0 DEF ExecutorTypeOK
  <2>5. /\ \A d \in Configs \ {c} : rows'[d] = rows[d]
        /\ DOMAIN rows'[c] = DOMAIN rows[c] \cup {Len(rows[c]) + 1}
        /\ \A x \in DOMAIN rows[c] : rows'[c][x] = rows[c][x]
        /\ rows'[c][Len(rows[c]) + 1] = row
    BY <2>3, <2>4, AppendRow
  <2>6. ASSUME NEW d \in Configs, NEW x \in DOMAIN rows[d]
        PROVE  x \in DOMAIN rows'[d] /\ rows'[d][x] = rows[d][x]
    BY <2>5
  <2>7. ASSUME NEW d \in Configs, NEW x \in DOMAIN rows'[d], x \notin DOMAIN rows[d]
        PROVE  rows'[d][x].nonce = None
    BY <2>3, <2>5, <2>7
  <2>8. BookEntries' = BookEntries /\ OpenEntries' = OpenEntries
    BY <1>0, <2>6, <2>7, SameBook
  <2> QED
    BY <1>0, <2>1, <2>8, UnnumberedRefines
<1>7. CASE ReserveNonce(c)
  <2>1. chain' = chain /\ mempool' = mempool /\ proc[c].pc = "reserve"
    BY <1>7 DEF ReserveNonce, At, chainVars
  <2> QED
    BY <1>0, <1>1, <1>7, <2>1, ReserveRefines DEF ReserveNonce
<1>8. CASE SignOrder(c) \/ ClaimOrder(c)
  <2>0. PICK id : id = proc[c].id
    OBVIOUS
  <2>1. chain' = chain /\ mempool' = mempool /\ id \in DOMAIN rows[c]
    BY <1>8, <2>0, InHand DEF SignOrder, ClaimOrder, At, chainVars, OrderInHand
  <2>2. Row(c, id) \in Rows
    BY <1>0, <2>1, IdsCover
  <2>3. ASSUME NEW state \in {"SIGNED", "BROADCAST_UNCERTAIN"}, Row(c, id).state \in {"RESERVED", "SIGNED"},
               SetRow(c, id, [Row(c, id) EXCEPT !.state = state])
        PROVE  Book!BookNext
    <3>1. PICK row : row = [Row(c, id) EXCEPT !.state = state]
      OBVIOUS
    <3>2. row \in Rows /\ row.state = state /\ row.signer = Row(c, id).signer /\ row.nonce = Row(c, id).nonce
      BY <2>2, <3>1 DEF Rows, States, Blocking
    <3>3. row.state \in Blocking /\ Row(c, id).state \in Blocking /\ SetRow(c, id, row)
      BY <2>3, <3>1, <3>2 DEF Blocking
    <3> QED
      BY <1>0, <2>1, <3>2, <3>3, AdvanceRefines
  <2>4. CASE SignOrder(c)
    BY <2>0, <2>3, <2>4 DEF SignOrder, Signed
  <2>5. CASE ClaimOrder(c)
    BY <1>1, <2>0, <2>1, <2>3, <2>5 DEF ClaimOrder, ClaimBroadcast
  <2> QED
    BY <1>8, <2>4, <2>5
<1>9. CASE Send(c)
  BY <1>0, <1>9, SendRefines
<1> QED
  BY <1>2, <1>3, <1>4, <1>5, <1>6, <1>7, <1>8, <1>9 DEF Cycle

LEMMA OperateRefines ==
    ASSUME ExecutorInv, ExecutorInv', NEW c \in Configs, Operate(c)
    PROVE  Book!BookNext
<1>0. ExecutorTypeOK /\ ExecutorTypeOK'
  BY DEF ExecutorInv
<1>1. CASE UNCHANGED <<rows, chain, mempool>>
  BY <1>0, <1>1, QuietRefines DEF WireShrinks, Mined
<1>2. CASE StartSigning(c) \/ StartWatching(c) \/ Stop(c) \/ Crash(c) \/ RemoveLocks(c) \/ Fail(c)
  BY <1>1, <1>2 DEF StartSigning, StartWatching, Stop, Crash, RemoveLocks, Fail, diskVars, chainVars
<1>3. ASSUME NEW id \in DOMAIN rows[c], Cancel(c, id)
      PROVE  Book!BookNext
  <2>1. PICK row : row = [Row(c, id) EXCEPT !.state = "CANCELLED"]
    OBVIOUS
  <2>2. Row(c, id) \in Rows /\ Row(c, id).state = "PREPARED" /\ RowVerifies(c, id) /\ chain' = chain /\ mempool' = mempool
    BY <1>0, <1>3, IdsCover, InHand DEF Cancel, JournalOpens, chainVars
  <2>3. /\ row \in Rows /\ row.signer = Row(c, id).signer /\ row.nonce = Row(c, id).nonce /\ row.nonce = None
    BY <2>1, <2>2 DEF Rows, States, Unsigned, RowVerifies
  <2>4. SetRow(c, id, row)
    BY <1>3, <2>1 DEF Cancel
  <2> QED
    BY <1>0, <2>2, <2>3, <2>4, AdvanceRefines
<1> QED
  BY <1>2, <1>3 DEF Operate

\* All the journals of the host together are one NonceBook, for any number of configurations with
\* the same keys: a nonce is assigned once, an envelope is released once and only while its order is
\* open, and an order is closed only while the chain holds its envelope (claimNonceOwnership,
\* OrderJournal, submitRestrictedIntent, #reconcileOrders).
THEOREM ExecutorRefinesNonceBook == ExecutorSpec => ImplementsNonceBook
<1>1. ExecutorInit => Book!BookInit
  <2> SUFFICES ASSUME ExecutorInit
               PROVE  Book!BookInit
    OBVIOUS
  <2>1. ExecutorTypeOK
    BY ExecutorInitially DEF ExecutorInv
  <2>2. \A c \in Configs : DOMAIN rows[c] = {}
    BY DEF ExecutorInit
  <2>3. BookEntries = {} /\ OpenEntries = {}
    BY <2>1, <2>2, BookMember, OpenMember DEF BookIsNumbered, OpenIsBlocking
  <2>4. WireEntries = {}
    BY DEF ExecutorInit, WireEntries, Mined
  <2> QED
    BY <2>3, <2>4 DEF Book!BookInit
<1>2. ExecutorInv /\ ExecutorInv' /\ [ExecutorNext]_executorVars => [Book!BookNext]_(Book!bookVars)
  <2> SUFFICES ASSUME ExecutorInv, ExecutorInv', [ExecutorNext]_executorVars
               PROVE  Book!BookNext
    OBVIOUS
  <2>1. CASE ChainNext
    BY <2>1, ChainNextKeeps, QuietRefines DEF ExecutorInv
  <2>2. ASSUME NEW c \in Configs, Cycle(c) \/ Operate(c)
        PROVE  Book!BookNext
    BY <2>2, CycleRefines, OperateRefines
  <2>3. CASE UNCHANGED executorVars
    BY <2>3, QuietRefines DEF ExecutorInv, WireShrinks, Mined, executorVars
  <2> QED
    BY <2>1, <2>2, <2>3 DEF ExecutorNext
<1> QED
  BY <1>1, <1>2, ExecutorInitially, ExecutorInductive, PTL DEF ExecutorSpec, ImplementsNonceBook, Book!BookSpec
=============================================================================
