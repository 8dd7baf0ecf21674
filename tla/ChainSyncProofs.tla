--------------------------- MODULE ChainSyncProofs ---------------------------
(***************************************************************************)
(* The store of the chain indexer is coherent, and its reads reopen only   *)
(* at the targets that were claimed, for every forest of blocks, every     *)
(* number of synchronizers and trackers, and all limits.  A synchronizer   *)
(* awaits between reading the store and writing it, so what it holds in    *)
(* memory may be of another time: StoreInv says what it may rely on as     *)
(* long as the lease is its own.                                           *)
(*                                                                         *)
(* AccountsStaySound holds for every set of identities and wallets and     *)
(* every number of logins, links, claims and expiries.  A request reads    *)
(* who it speaks for and writes later: AccountsInv says that a row with a  *)
(* history stays open, so that its email and wallet are never given to     *)
(* another one, and that the log of claims agrees with the vouchers;       *)
(* AskedInv, what a request that waits for its write may rely on.          *)
(*                                                                         *)
(* ReadsStayPinned holds for every forest of blocks, set of readers and    *)
(* number of calls and changes of the chain.  A call reads several times   *)
(* with the chain changing in between, and a snapshot is shared with those *)
(* that come later: ReadsInv says that all a call has read is of its block *)
(* unless the chain left that block meanwhile, and that whoever joined a   *)
(* read, and the cache, have one of their own block that is in progress or *)
(* finished.                                                               *)
(***************************************************************************)
EXTENDS MCChainSync, FiniteSetTheorems, SequenceTheorems, WellFoundedInduction, TLAPS

----------------------------------------------------------------------------
(* The forest of blocks *)

\* A set of numbers has a least one.
LEMMA LeastNumber ==
    ASSUME NEW S \in SUBSET Nat, S # {}
    PROVE  \E n \in S : \A m \in S : n <= m
<1> DEFINE R == OpToRel(<, Nat)
<1>1. IsWellFoundedOn(R, Nat)
  BY NatLessThanWellFounded
<1>2. \A x, y \in Nat : x < y => <<x, y>> \in R
  BY DEF OpToRel
<1> HIDE DEF R
<1>3. \E x \in S : \A y \in S : ~(<<y, x>> \in R)
  BY <1>1, WFMin
<1>4. PICK n \in S : \A y \in S : ~(<<y, n>> \in R)
  BY <1>3
<1>5. ASSUME NEW m \in S PROVE n <= m
  <2>1. n \in Nat /\ m \in Nat /\ ~(<<m, n>> \in R)
    BY <1>4
  <2>2. ~(m < n)
    BY <1>2, <2>1
  <2> QED
    BY <2>1, <2>2
<1> QED
  BY <1>5

\* Some block of a set of blocks has the lowest number, and one of bounded numbers the highest.
LEMMA LowestBlock ==
    ASSUME NEW S \in SUBSET Blocks, S # {}
    PROVE  \E b \in S : \A c \in S : Number[b] <= Number[c]
<1> DEFINE Numbers == {Number[b] : b \in S}
<1>1. Numbers \in SUBSET Nat /\ Numbers # {}
  BY ChainAssumption
<1> HIDE DEF Numbers
<1>2. PICK n \in Numbers : \A m \in Numbers : n <= m
  BY <1>1, LeastNumber
<1> QED
  BY <1>2 DEF Numbers

LEMMA HighestBlock ==
    ASSUME NEW S \in SUBSET Blocks, S # {}, NEW top \in Nat, \A b \in S : Number[b] <= top
    PROVE  \E b \in S : \A c \in S : Number[c] <= Number[b]
<1> DEFINE Depths == {top - Number[b] : b \in S}
<1>1. Depths \in SUBSET Nat /\ Depths # {}
  BY ChainAssumption
<1> HIDE DEF Depths
<1>2. PICK n \in Depths : \A m \in Depths : n <= m
  BY <1>1, LeastNumber
<1>3. PICK b \in S : n = top - Number[b]
  BY <1>2 DEF Depths
<1>4. \A c \in S : top - Number[b] <= top - Number[c]
  BY <1>2, <1>3 DEF Depths
<1> QED
  BY <1>4, ChainAssumption

\* No block comes before the deployment block, and the ones at it have no parent.
LEMMA DeploymentIsFirst ==
    ASSUME NEW b \in Blocks
    PROVE  Number[b] >= DeploymentBlock /\ (Number[b] = DeploymentBlock => Parent[b] = NoBlock)
<1> DEFINE Early == {c \in Blocks : Number[c] < DeploymentBlock}
<1>1. Early = {}
  <2> SUFFICES ASSUME Early # {} PROVE FALSE
    OBVIOUS
  <2>1. PICK c \in Early : \A d \in Early : Number[c] <= Number[d]
    BY LowestBlock
  <2>2. Parent[c] \in Blocks /\ Number[c] = Number[Parent[c]] + 1
    BY <2>1, ChainAssumption DEF OrNone
  <2> QED
    BY <2>1, <2>2, ChainAssumption
<1>2. \A c \in Blocks : Number[c] >= DeploymentBlock
  BY <1>1, ChainAssumption
<1> QED
  BY <1>2, ChainAssumption DEF OrNone

\* Ancestry has its equation: the smallest sets that are closed under Parent satisfy it.
LEMMA AncestryEquation ==
    ASSUME NEW b \in Blocks
    PROVE  Ancestry[b] = {b} \cup (IF Parent[b] = NoBlock THEN {} ELSE Ancestry[Parent[b]])
<1> DEFINE Closed(S) == \A x \in S : Parent[x] # NoBlock => Parent[x] \in S
           Up(x) == {c \in Blocks : \A S \in SUBSET Blocks : x \in S /\ Closed(S) => c \in S}
           step(f, x) == {x} \cup (IF Parent[x] = NoBlock THEN {} ELSE f[Parent[x]])
           ups == [x \in Blocks |-> Up(x)]
<1>1. ASSUME NEW x \in Blocks PROVE Up(x) = step(ups, x)
  <2>1. CASE Parent[x] = NoBlock
    <3>1. Closed({x}) /\ x \in Up(x)
      BY <2>1
    <3> QED
      BY <2>1, <3>1
  <2>2. CASE Parent[x] # NoBlock
    <3>1. Parent[x] \in Blocks /\ ups[Parent[x]] = Up(Parent[x])
      BY <2>2, ChainAssumption DEF OrNone
    <3>2. Closed({x} \cup Up(Parent[x]))
      <4>1. Parent[x] \in Up(Parent[x])
        BY <3>1
      <4>2. ASSUME NEW y \in Up(Parent[x]), Parent[y] # NoBlock PROVE Parent[y] \in Up(Parent[x])
        BY <4>2, ChainAssumption DEF OrNone
      <4> QED
        BY <4>1, <4>2
    <3>3. Up(x) \subseteq {x} \cup Up(Parent[x])
      <4>1. {x} \cup Up(Parent[x]) \in SUBSET Blocks
        OBVIOUS
      <4> QED
        BY <3>2, <4>1
    <3>4. x \in Up(x)
      OBVIOUS
    <3>5. Up(Parent[x]) \subseteq Up(x)
      BY <2>2, <3>1
    <3> QED
      BY <2>2, <3>1, <3>3, <3>4, <3>5
  <2> QED
    BY <2>1, <2>2
<1> HIDE DEF Up
<1>2. ups = [x \in Blocks |-> step(ups, x)]
  BY <1>1
<1>3. Ancestry = [x \in Blocks |-> step(Ancestry, x)]
  BY <1>2 DEF Ancestry
<1> QED
  BY <1>3

LEMMA AncestryTyped ==
    ASSUME NEW b \in Blocks
    PROVE  Ancestry[b] \subseteq Blocks
<1> DEFINE Odd == {c \in Blocks : ~(Ancestry[c] \subseteq Blocks)}
<1>1. Odd = {}
  <2> SUFFICES ASSUME Odd # {} PROVE FALSE
    OBVIOUS
  <2>1. PICK c \in Odd : \A d \in Odd : Number[c] <= Number[d]
    BY LowestBlock
  <2>2. Parent[c] # NoBlock
    BY <2>1, AncestryEquation
  <2>3. Parent[c] \in Blocks /\ Number[c] = Number[Parent[c]] + 1
    BY <2>1, <2>2, ChainAssumption DEF OrNone
  <2>4. Parent[c] \in Odd
    BY <2>1, <2>2, <2>3, AncestryEquation
  <2> QED
    BY <2>1, <2>3, <2>4, ChainAssumption
<1> QED
  BY <1>1

\* What is found at a number has it.
LEMMA FoundAt ==
    ASSUME NEW S \in SUBSET Blocks, NEW n
    PROVE  /\ BlockAt(S, n) \in S \cup {NoBlock}
           /\ BlockAt(S, n) # NoBlock => Number[BlockAt(S, n)] = n
BY DEF BlockAt

----------------------------------------------------------------------------
(* The inductive invariant *)

CheckpointRows == [block : OrNone(Blocks), projected : OrNone(Blocks),
                   health : {"OK", "INCOMPLETE", "DEPTH", "NO_ANCESTOR"}, target : Nat \cup {Null}]
LeaseRows == [owner : Syncers \cup {NoOwner}, target : Nat \cup {Null}]
Calls == [pc : SyncPcs, head : Nat, target : Nat, n : Int, searched : Nat, cur : OrNone(Blocks), snap : SUBSET Blocks]
Followed == [pc : {"idle", "receipt", "mined", "reconcile"}, seen : OrNone(Blocks), op : Operations,
             receipt : OrNone(Blocks), event : BOOLEAN]

\* A projection is of a block the store has; that of the checkpoint was built from the events stored now.
ProjectionCurrent ==
    /\ cp.projected \in canon \cup {NoBlock}
    /\ cp.block # NoBlock /\ cp.projected = cp.block => projection = [block |-> cp.block, events |-> events]

\* What a call with the memory me may rely on: its block has the number it asked for; and as long as the
\* lease is its own since it claimed it, the target is that of the lease, the events it read are the ones
\* stored, and it goes on from the checkpoint.
Relies(s, me) ==
    /\ me.pc \in {"logs", "project"} => me.cur \in Blocks /\ Number[me.cur] = me.n
    /\ lease.owner = s /\ me.pc \notin {"idle", "claim"} =>
          /\ lease.target = me.target
          /\ me.pc \in {"rebuild", "project"} => me.snap = events
          /\ me.pc \in {"fetch", "logs"} => me.n = ScanStart

CallsRely == \A s \in Syncers : Relies(s, sync[s])

\* What is owed is kept in the lease, and by the checkpoint when there is none.
OwedKept == owed <= IF lease.owner = NoOwner THEN cp.target ELSE lease.target

\* A tracker knows the blocks it goes by, and reconciles what has a receipt.
TrackersRely ==
    \A t \in Trackers :
        /\ track[t].pc # "idle" => track[t].seen \in Blocks
        /\ track[t].pc \in {"mined", "reconcile"} => track[t].receipt \in Blocks
        /\ track[t].pc = "reconcile" => track[t].op.state \in Trackable

\* In one process the block of a receipt is still canonical when it is saved.
ReceiptsHeld ==
    ~Preemptible => OperationAnchored /\ \A t \in Trackers : track[t].pc = "mined" => track[t].receipt \in canon

StoreInv ==
    /\ TypeOK
    /\ LinkedChain
    /\ ProjectionCurrent
    /\ CallsRely
    /\ OwedKept
    /\ TrackersRely
    /\ ReceiptsHeld

----------------------------------------------------------------------------
(* Steps that leave the store alone *)

LEMMA TypesUnfolded ==
    TypeOK <=> /\ tip \in Blocks /\ canon \subseteq Blocks /\ events \subseteq canon
               /\ cp \in CheckpointRows /\ lease \in LeaseRows
               /\ projection \in [block : OrNone(Blocks), events : SUBSET Blocks]
               /\ op \in Operations /\ sync \in [Syncers -> Calls] /\ track \in [Trackers -> Followed]
               /\ owed \in Nat \cup {Null} /\ settled \in BOOLEAN
BY DEF TypeOK, CheckpointRows, LeaseRows, Calls, Followed

LEMMA CallStep ==
    ASSUME StoreInv, NEW s \in Syncers, NEW me \in Calls, sync' = [sync EXCEPT ![s] = me], Relies(s, me),
           UNCHANGED <<tip, storeVars, track, settled>>
    PROVE  StoreInv'
<1>1. UNCHANGED <<tip, canon, events, cp, lease, projection, op, track, owed, settled>>
  BY DEF storeVars
<1>2. TypeOK'
  <2>1. sync' \in [Syncers -> Calls]
    BY TypesUnfolded DEF StoreInv
  <2>2. TypeOK
    BY DEF StoreInv
  <2> QED
    BY <1>1, <2>1, <2>2 DEF TypeOK, Calls
<1>3. CallsRely'
  <2>1. ASSUME NEW t \in Syncers PROVE Relies(t, sync'[t])
    BY TypesUnfolded DEF StoreInv, CallsRely
  <2> QED
    BY <1>1, <2>1 DEF CallsRely, Relies, ScanStart
<1> QED
  BY <1>1, <1>2, <1>3
     DEF StoreInv, LinkedChain, ProjectionCurrent, OwedKept, TrackersRely, ReceiptsHeld, OperationAnchored

\* The remote chain may be asked for any number.
LEMMA RemoteTyped ==
    ASSUME TypeOK, NEW n
    PROVE  /\ RemoteAt(n) \in OrNone(Blocks)
           /\ RemoteAt(n) # NoBlock => RemoteAt(n) \in Blocks /\ Number[RemoteAt(n)] = n
<1>1. Ancestry[tip] \in SUBSET Blocks
  BY AncestryTyped DEF TypeOK
<1> QED
  BY <1>1, FoundAt DEF RemoteAt, OrNone

LEMMA CallsKeep ==
    ASSUME StoreInv, NEW s \in Syncers,
           \/ BeginSync(s) \/ CheckCheckpoint(s) \/ SearchFurther(s) \/ RecoverProjection(s) \/ StartScan(s)
           \/ FetchBlock(s) \/ ThrowSync(s) \/ CrashSync(s)
    PROVE  StoreInv'
<1>0. /\ TypeOK /\ sync \in [Syncers -> Calls] /\ sync[s] \in Calls /\ Relies(s, sync[s])
      /\ cp \in CheckpointRows /\ events \in SUBSET Blocks /\ tip \in Blocks
  BY TypesUnfolded DEF StoreInv, CallsRely
<1>1. Resting \in Calls /\ Relies(s, Resting)
  BY DEF Resting, Calls, SyncPcs, OrNone, Relies
<1>2. UNCHANGED <<tip, storeVars, track, settled>>
  BY DEF BeginSync, CheckCheckpoint, SearchFurther, RecoverProjection, StartScan, FetchBlock, ThrowSync, CrashSync
<1>3. CASE ThrowSync(s) \/ CrashSync(s)
  BY <1>1, <1>2, <1>3, CallStep DEF ThrowSync, CrashSync
<1>4. CASE BeginSync(s)
  <2>1. Number[tip] \in Nat /\ (cp.block # NoBlock => Number[cp.block] \in Nat)
    BY <1>0, ChainAssumption DEF CheckpointRows, OrNone
  <2>2. PICK head \in Nat : sync' = [sync EXCEPT ![s] = [Resting EXCEPT !.pc = "claim", !.target = Number[tip], !.head = head]]
    <3> DEFINE start == IF cp.block = NoBlock THEN DeploymentBlock ELSE Number[cp.block] + 1
               bound == IF start <= Number[tip] THEN Smaller(start + MaxBlocksPerSync - 1, Number[tip]) ELSE Number[tip]
    <3>1. start \in Nat /\ MaxBlocksPerSync \in Nat \ {0}
      BY <2>1, ChainAssumption
    <3>2. bound \in Nat
      BY <2>1, <3>1 DEF Smaller
    <3>3. sync' = [sync EXCEPT ![s] = [Resting EXCEPT !.pc = "claim", !.target = Number[tip], !.head = bound]]
      BY <1>4 DEF BeginSync
    <3> HIDE DEF bound
    <3> QED
      BY <3>2, <3>3
  <2>3. PICK me : me = [Resting EXCEPT !.pc = "claim", !.target = Number[tip], !.head = head]
    OBVIOUS
  <2>4. me \in Calls /\ me.pc = "claim"
    BY <1>1, <2>1, <2>2, <2>3 DEF Calls, SyncPcs
  <2>5. Relies(s, me)
    BY <2>4 DEF Relies
  <2> QED
    BY <1>2, <2>2, <2>3, <2>4, <2>5, CallStep
<1>5. CASE CheckCheckpoint(s)
  <2>1. PICK searched \in Nat, n \in Int, pc \in {"recover", "search"} :
            sync' = [sync EXCEPT ![s] = [sync[s] EXCEPT !.pc = pc, !.searched = searched, !.n = n]]
    <3>1. cp.block # NoBlock => Number[cp.block] - 1 \in Int
      BY <1>0, ChainAssumption DEF CheckpointRows, OrNone
    <3>2. CASE Goto(s, "recover")
      <4>1. sync' = [sync EXCEPT ![s] = [sync[s] EXCEPT !.pc = "recover", !.searched = sync[s].searched, !.n = sync[s].n]]
        BY <1>0, <3>2 DEF Goto, Calls
      <4> QED
        BY <1>0, <4>1 DEF Calls
    <3>3. CASE cp.block # NoBlock /\ sync' = [sync EXCEPT ![s].pc = "search", ![s].searched = 1, ![s].n = Number[cp.block] - 1]
      BY <3>1, <3>3
    <3> QED
      BY <1>5, <3>2, <3>3 DEF CheckCheckpoint
  <2>2. PICK me : me = [sync[s] EXCEPT !.pc = pc, !.searched = searched, !.n = n]
    OBVIOUS
  <2>3. me \in Calls /\ me.pc \in {"recover", "search"} /\ me.target = sync[s].target
    BY <1>0, <2>1, <2>2 DEF Calls, SyncPcs
  <2>4. Relies(s, me)
    BY <1>0, <1>5, <2>3 DEF Relies, CheckCheckpoint
  <2> QED
    BY <1>2, <2>1, <2>2, <2>3, <2>4, CallStep
<1>6. CASE SearchFurther(s)
  <2>1. PICK me : me = [sync[s] EXCEPT !.n = sync[s].n - 1, !.searched = sync[s].searched + 1]
    OBVIOUS
  <2>2. me \in Calls /\ me.pc = "search" /\ sync[s].pc = "search" /\ me.target = sync[s].target
    BY <1>0, <1>6, <2>1 DEF Calls, SearchFurther
  <2>3. sync' = [sync EXCEPT ![s] = me]
    BY <1>0, <1>6, <2>1 DEF SearchFurther, Calls
  <2>4. Relies(s, me)
    BY <1>0, <2>2 DEF Relies
  <2> QED
    BY <1>2, <2>2, <2>3, <2>4, CallStep
<1>7. CASE RecoverProjection(s)
  <2>1. CASE Goto(s, "scan")
    <3>1. PICK me : me = [sync[s] EXCEPT !.pc = "scan"]
      OBVIOUS
    <3>2. me \in Calls /\ me.pc = "scan" /\ me.target = sync[s].target /\ sync' = [sync EXCEPT ![s] = me]
      BY <1>0, <2>1, <3>1 DEF Calls, SyncPcs, Goto
    <3>3. Relies(s, me)
      BY <1>0, <1>7, <3>2 DEF Relies, RecoverProjection
    <3> QED
      BY <1>2, <3>2, <3>3, CallStep
  <2>2. CASE sync' = [sync EXCEPT ![s].pc = "rebuild", ![s].cur = cp.block, ![s].snap = events]
    <3>1. PICK me : me = [sync[s] EXCEPT !.pc = "rebuild", !.cur = cp.block, !.snap = events]
      OBVIOUS
    <3>2. me \in Calls /\ me.pc = "rebuild" /\ me.target = sync[s].target /\ me.snap = events /\ sync' = [sync EXCEPT ![s] = me]
      BY <1>0, <2>2, <3>1 DEF Calls, SyncPcs, CheckpointRows
    <3>3. Relies(s, me)
      BY <1>0, <1>7, <3>2 DEF Relies, RecoverProjection
    <3> QED
      BY <1>2, <3>2, <3>3, CallStep
  <2> QED
    BY <1>7, <2>1, <2>2 DEF RecoverProjection
<1>8. CASE StartScan(s)
  <2>1. ScanStart \in Int
    BY <1>0, ChainAssumption DEF ScanStart, CheckpointRows, OrNone
  <2>2. CASE Goto(s, "finish")
    <3>1. PICK me : me = [sync[s] EXCEPT !.pc = "finish"]
      OBVIOUS
    <3>2. me \in Calls /\ me.pc = "finish" /\ me.target = sync[s].target /\ sync' = [sync EXCEPT ![s] = me]
      BY <1>0, <2>2, <3>1 DEF Calls, SyncPcs, Goto
    <3>3. Relies(s, me)
      BY <1>0, <1>8, <3>2 DEF Relies, StartScan
    <3> QED
      BY <1>2, <3>2, <3>3, CallStep
  <2>3. CASE sync' = [sync EXCEPT ![s].pc = "fetch", ![s].n = ScanStart]
    <3>1. PICK me : me = [sync[s] EXCEPT !.pc = "fetch", !.n = ScanStart]
      OBVIOUS
    <3>2. me \in Calls /\ me.pc = "fetch" /\ me.target = sync[s].target /\ me.n = ScanStart /\ sync' = [sync EXCEPT ![s] = me]
      BY <1>0, <2>1, <2>3, <3>1 DEF Calls, SyncPcs
    <3>3. Relies(s, me)
      BY <1>0, <1>8, <3>2 DEF Relies, StartScan
    <3> QED
      BY <1>2, <3>2, <3>3, CallStep
  <2> QED
    BY <1>8, <2>2, <2>3 DEF StartScan
<1>9. CASE FetchBlock(s)
  <2>1. PICK block : block = RemoteAt(sync[s].n)
    OBVIOUS
  <2>2. block \in Blocks /\ Number[block] = sync[s].n
    BY <1>0, <1>9, <2>1, RemoteTyped DEF FetchBlock, Follows
  <2>3. PICK me : me = [sync[s] EXCEPT !.pc = "logs", !.cur = block]
    OBVIOUS
  <2>4. /\ me \in Calls /\ me.pc = "logs" /\ me.target = sync[s].target /\ me.n = sync[s].n /\ me.cur = block
        /\ sync' = [sync EXCEPT ![s] = me]
    BY <1>0, <1>9, <2>1, <2>2, <2>3 DEF Calls, SyncPcs, OrNone, FetchBlock
  <2>5. Relies(s, me)
    BY <1>0, <1>9, <2>2, <2>4 DEF Relies, FetchBlock
  <2> QED
    BY <1>2, <2>4, <2>5, CallStep
<1> QED
  BY <1>3, <1>4, <1>5, <1>6, <1>7, <1>8, <1>9

----------------------------------------------------------------------------
(* Steps that write the store *)

\* A write leaves the lease with its writer or with nobody, so the other calls rely on nothing.
LEMMA WriteStep ==
    ASSUME StoreInv, ~Held, NEW s \in Syncers, NEW me \in Calls, sync' = [sync EXCEPT ![s] = me],
           UNCHANGED <<tip, track, settled>>, lease'.owner \in {s, NoOwner},
           canon' \subseteq Blocks, events' \subseteq canon', cp' \in CheckpointRows, lease' \in LeaseRows,
           projection' \in [block : OrNone(Blocks), events : SUBSET Blocks], op' \in Operations, owed' \in Nat \cup {Null},
           LinkedChain', ProjectionCurrent', Relies(s, me)', OwedKept', ~Preemptible => OperationAnchored'
    PROVE  StoreInv'
<1>1. TypeOK'
  <2>1. sync' \in [Syncers -> Calls] /\ track \in [Trackers -> Followed] /\ tip \in Blocks /\ settled \in BOOLEAN
    BY TypesUnfolded DEF StoreInv
  <2> QED
    BY <2>1 DEF TypeOK, Calls, Followed, CheckpointRows, LeaseRows
<1>2. CallsRely'
  <2>1. ASSUME NEW t \in Syncers, t # s PROVE Relies(t, sync[t])'
    <3>1. sync'[t] = sync[t] /\ lease'.owner # t
      BY <2>1, TypesUnfolded, ChainAssumption DEF StoreInv
    <3> QED
      BY <3>1 DEF StoreInv, CallsRely, Relies
  <2>2. Relies(s, sync[s])'
    <3>1. sync'[s] = me
      BY TypesUnfolded DEF StoreInv
    <3> QED
      BY <3>1 DEF Relies
  <2> QED
    BY <2>1, <2>2 DEF CallsRely
<1>3. TrackersRely'
  BY DEF StoreInv, TrackersRely
<1>4. ReceiptsHeld'
  BY DEF Held, ReceiptsHeld
<1> QED
  BY <1>1, <1>2, <1>3, <1>4 DEF StoreInv

\* LinkedChain, as seen from one of its blocks.
LEMMA Linked ==
    ASSUME LinkedChain, NEW b \in canon
    PROVE  /\ cp.block # NoBlock /\ cp.block \in canon /\ Number[b] <= Number[cp.block]
           /\ Parent[b] # NoBlock => Parent[b] \in canon
           /\ \A c \in canon : Number[b] = Number[c] => b = c
<1>1. canon # {}
  OBVIOUS
<1>2. cp.block # NoBlock
  BY <1>1 DEF LinkedChain
<1> QED
  BY <1>2 DEF LinkedChain

\* rollbackFromBlock, whatever number it is given.
LEMMA RollbackKeeps ==
    ASSUME StoreInv, NEW n \in Int, RollbackFromBlock(n)
    PROVE  /\ canon' \subseteq Blocks /\ events' \subseteq canon' /\ cp' \in CheckpointRows
           /\ projection' \in [block : OrNone(Blocks), events : SUBSET Blocks] /\ op' \in Operations
           /\ LinkedChain' /\ ProjectionCurrent' /\ (~Preemptible => OperationAnchored')
<1> DEFINE left == {b \in canon : Number[b] < n}
           last == CHOOSE b \in left : \A c \in left : Number[c] <= Number[b]
<1>0. /\ canon \subseteq Blocks /\ events \subseteq canon /\ cp \in CheckpointRows /\ op \in Operations
      /\ NoBlock \notin Blocks /\ Parent \in [Blocks -> OrNone(Blocks)] /\ Number \in [Blocks -> Nat]
  BY TypesUnfolded, ChainAssumption DEF StoreInv
<1>1. /\ canon' = left /\ events' = events \cap left /\ op' = RollbackOperation(n) /\ projection' = NoProjection
      /\ cp' = IF left = {} THEN NoRow ELSE [cp EXCEPT !.block = last, !.projected = NoBlock]
  BY DEF RollbackFromBlock
<1>2. left # {} => last \in left /\ \A c \in left : Number[c] <= Number[last]
  <2> SUFFICES ASSUME left # {} PROVE \E b \in left : \A c \in left : Number[c] <= Number[b]
    OBVIOUS
  <2>1. cp.block \in canon /\ \A b \in left : Number[b] <= Number[cp.block]
    BY Linked DEF StoreInv
  <2> QED
    BY <1>0, <2>1, HighestBlock
<1> HIDE DEF last
<1>3. cp' \in CheckpointRows /\ cp'.projected = NoBlock /\ (left = {} => cp'.block = NoBlock) /\ (left # {} => cp'.block = last)
  BY <1>0, <1>1, <1>2 DEF CheckpointRows, NoRow, OrNone
<1>4. projection' \in [block : OrNone(Blocks), events : SUBSET Blocks]
  BY <1>1 DEF NoProjection, OrNone
<1>5. op' \in Operations
  BY <1>0, <1>1 DEF RollbackOperation, Operations, Lifecycle
<1>6. LinkedChain'
  <2>1. ASSUME NEW b \in left, Parent[b] # NoBlock PROVE Parent[b] \in left
    <3>1. b \in Blocks /\ Parent[b] \in canon
      BY <1>0, <2>1, Linked DEF StoreInv
    <3>2. Number[b] = Number[Parent[b]] + 1 /\ Number[b] \in Nat /\ Number[Parent[b]] \in Nat
      BY <1>0, <2>1, <3>1, ChainAssumption
    <3> QED
      BY <2>1, <3>1, <3>2
  <2>2. \A b, c \in left : Number[b] = Number[c] => b = c
    BY Linked DEF StoreInv
  <2>3. left # {} => last # NoBlock
    BY <1>0, <1>2
  <2> HIDE DEF left
  <2> QED
    BY <1>1, <1>2, <1>3, <2>1, <2>2, <2>3 DEF LinkedChain
<1>7. ProjectionCurrent'
  BY <1>3 DEF ProjectionCurrent
<1>8. ~Preemptible => OperationAnchored'
  <2> SUFFICES ASSUME ~Preemptible, op'.state \in Anchored PROVE op'.block \in left
    BY <1>1 DEF OperationAnchored
  <2>1. op' = op /\ ~(Number[op.block] >= n) /\ op.state \in Anchored
    BY <1>0, <1>1 DEF RollbackOperation, Anchored, Operations
  <2>2. op.block \in canon
    BY <2>1 DEF StoreInv, ReceiptsHeld, OperationAnchored
  <2> QED
    BY <1>0, <2>1, <2>2
<1> QED
  BY <1>0, <1>1, <1>3, <1>4, <1>5, <1>6, <1>7, <1>8

\* What a step of synchronizer s starts from.
LEMMA CallTyped ==
    ASSUME StoreInv, NEW s \in Syncers
    PROVE  /\ sync \in [Syncers -> Calls] /\ sync[s] \in Calls /\ Relies(s, sync[s])
           /\ cp \in CheckpointRows /\ cp.target \in Nat \cup {Null} /\ lease \in LeaseRows /\ lease.target \in Nat \cup {Null}
           /\ canon \subseteq Blocks /\ events \subseteq canon /\ op \in Operations
           /\ projection \in [block : OrNone(Blocks), events : SUBSET Blocks]
           /\ owed \in Nat \cup {Null} /\ sync[s].target \in Nat /\ sync[s].n \in Int /\ sync[s].head \in Nat /\ s # NoOwner
           /\ ~Preemptible => OperationAnchored
<1>1. /\ sync \in [Syncers -> Calls] /\ cp \in CheckpointRows /\ lease \in LeaseRows
      /\ canon \subseteq Blocks /\ events \subseteq canon /\ op \in Operations
      /\ projection \in [block : OrNone(Blocks), events : SUBSET Blocks] /\ owed \in Nat \cup {Null}
  BY TypesUnfolded DEF StoreInv
<1> QED
  BY <1>1, ChainAssumption DEF StoreInv, CallsRely, ReceiptsHeld, Calls, CheckpointRows, LeaseRows

LEMMA ClaimKeeps ==
    ASSUME StoreInv, ~Held, NEW s \in Syncers, ClaimSync(s)
    PROVE  StoreInv'
<1>0. /\ sync \in [Syncers -> Calls] /\ sync[s] \in Calls /\ Relies(s, sync[s])
      /\ cp \in CheckpointRows /\ cp.target \in Nat \cup {Null} /\ lease \in LeaseRows /\ lease.target \in Nat \cup {Null}
      /\ owed \in Nat \cup {Null} /\ sync[s].target \in Nat /\ s # NoOwner
  BY CallTyped
<1>1. /\ UNCHANGED <<tip, canon, events, projection, op, track, settled>> /\ sync[s].target >= RequiredTarget
      /\ lease' = [owner |-> s, target |-> Larger(sync[s].target, lease.target)]
      /\ cp' = IF cp.block = NoBlock THEN cp ELSE [cp EXCEPT !.health = "INCOMPLETE", !.target = Larger(sync[s].target, @)]
      /\ owed' = Larger(owed, sync[s].target)
  BY DEF ClaimSync
<1>2. sync[s].target >= lease.target /\ sync[s].target >= cp.target /\ sync[s].target >= owed
  BY <1>0, <1>1 DEF RequiredTarget, Larger, StoreInv, OwedKept, Null
<1>3. lease' = [owner |-> s, target |-> sync[s].target] /\ owed' = sync[s].target
  BY <1>0, <1>1, <1>2 DEF Larger, Null
<1>4. cp' \in CheckpointRows /\ cp'.block = cp.block /\ cp'.projected = cp.projected
  BY <1>0, <1>1 DEF CheckpointRows, Larger, Null
<1>5. PICK me : me = [sync[s] EXCEPT !.pc = "rewind"]
  OBVIOUS
<1>6. me \in Calls /\ me.pc = "rewind" /\ me.target = sync[s].target /\ sync' = [sync EXCEPT ![s] = me]
  BY <1>0, <1>5 DEF ClaimSync, Goto, Calls, SyncPcs
<1>7. Relies(s, me)'
  BY <1>3, <1>6 DEF Relies
<1>8. LinkedChain' /\ ProjectionCurrent'
  BY <1>1, <1>4 DEF StoreInv, LinkedChain, ProjectionCurrent
<1>9. OwedKept'
  BY <1>0, <1>3 DEF OwedKept
<1>10. ~Preemptible => OperationAnchored'
  BY <1>1 DEF StoreInv, ReceiptsHeld, OperationAnchored
<1>11. lease' \in LeaseRows /\ lease'.owner = s /\ owed' \in Nat
  BY <1>0, <1>3 DEF LeaseRows
<1>12. /\ canon' \subseteq Blocks /\ events' \subseteq canon' /\ op' \in Operations
       /\ projection' \in [block : OrNone(Blocks), events : SUBSET Blocks]
  BY <1>1, CallTyped
<1> QED
  BY <1>1, <1>4, <1>6, <1>7, <1>8, <1>9, <1>10, <1>11, <1>12, WriteStep

\* Rewind and RollbackProjected.
LEMMA RewindKeeps ==
    ASSUME StoreInv, ~Held, NEW s \in Syncers, Rewind(s) \/ RollbackProjected(s)
    PROVE  StoreInv'
<1>0. /\ sync \in [Syncers -> Calls] /\ sync[s] \in Calls /\ Relies(s, sync[s]) /\ sync[s].n \in Int
      /\ lease \in LeaseRows /\ owed \in Nat \cup {Null} /\ s # NoOwner
  BY CallTyped
<1>1. /\ UNCHANGED <<tip, lease, track, owed, settled>> /\ lease.owner = s /\ sync[s].pc \in {"search", "project"}
      /\ \E n \in Int : RollbackFromBlock(n)
  BY <1>0 DEF Rewind, RollbackProjected, OwnsLease
<1>2. PICK me \in {[sync[s] EXCEPT !.pc = "recover"], Resting} : sync' = [sync EXCEPT ![s] = me]
  BY <1>0 DEF Rewind, RollbackProjected, Goto, Calls
<1>3. me \in Calls /\ me.pc \in {"recover", "idle"} /\ (me.pc = "recover" => me.target = sync[s].target)
  BY <1>0, <1>2 DEF Calls, SyncPcs, Resting, OrNone
<1>4. /\ canon' \subseteq Blocks /\ events' \subseteq canon' /\ cp' \in CheckpointRows
      /\ projection' \in [block : OrNone(Blocks), events : SUBSET Blocks] /\ op' \in Operations
      /\ LinkedChain' /\ ProjectionCurrent' /\ (~Preemptible => OperationAnchored')
  BY <1>1, RollbackKeeps
<1>5. Relies(s, me)'
  BY <1>0, <1>1, <1>3 DEF Relies
<1>6. OwedKept'
  BY <1>0, <1>1 DEF StoreInv, OwedKept
<1> QED
  BY <1>0, <1>1, <1>2, <1>3, <1>4, <1>5, <1>6, WriteStep

LEMMA RowSet ==
    ASSUME NEW row \in CheckpointRows, NEW h \in {"OK", "INCOMPLETE", "DEPTH", "NO_ANCESTOR"}, NEW t \in Nat \cup {Null}
    PROVE  LET new == [row EXCEPT !.health = h, !.target = t]
           IN  new \in CheckpointRows /\ new.block = row.block /\ new.projected = row.projected /\ new.target = t
BY DEF CheckpointRows

\* GiveUp, ReleaseSyncIncomplete and MarkSyncHealthy: the lease ends, and the checkpoint keeps what is owed.
LEMMA ReleaseKeeps ==
    ASSUME StoreInv, ~Held, NEW s \in Syncers, GiveUp(s) \/ ReleaseSyncIncomplete(s) \/ MarkSyncHealthy(s)
    PROVE  StoreInv'
<1>0. /\ sync \in [Syncers -> Calls] /\ sync[s] \in Calls /\ Relies(s, sync[s]) /\ sync[s].target \in Nat
      /\ cp \in CheckpointRows /\ cp.target \in Nat \cup {Null} /\ lease.target \in Nat \cup {Null}
      /\ owed \in Nat \cup {Null} /\ s # NoOwner
  BY CallTyped
<1>1. /\ UNCHANGED <<tip, canon, events, projection, op, track, settled>> /\ lease' = NoLease /\ lease.owner = s
      /\ sync' = [sync EXCEPT ![s] = Resting] /\ sync[s].pc \in {"search", "finish"}
  BY DEF GiveUp, ReleaseSyncIncomplete, MarkSyncHealthy, OwnsLease
<1>2. lease.target = sync[s].target /\ owed <= sync[s].target
  BY <1>0, <1>1 DEF StoreInv, OwedKept, Relies
<1>3. /\ cp' \in CheckpointRows /\ cp'.block = cp.block /\ cp'.projected = cp.projected
      /\ owed' \in Nat \cup {Null} /\ owed' <= cp'.target
  <2>1. CASE GiveUp(s)
    <3>0. owed' = Null /\ cp' = [cp EXCEPT !.target = Null, !.health = IF sync[s].n >= DeploymentBlock THEN "DEPTH" ELSE "NO_ANCESTOR"]
      BY <2>1 DEF GiveUp
    <3>1. PICK h \in {"DEPTH", "NO_ANCESTOR"} : owed' = Null /\ cp' = [cp EXCEPT !.target = Null, !.health = h]
      BY <3>0
    <3>2. cp' \in CheckpointRows /\ cp'.block = cp.block /\ cp'.projected = cp.projected /\ cp'.target = Null
      BY <1>0, <3>1 DEF CheckpointRows
    <3>3. owed' <= cp'.target
      BY <3>1, <3>2 DEF Null
    <3> QED
      BY <3>1, <3>2, <3>3
  <2>2. CASE ReleaseSyncIncomplete(s)
    <3>1. cp' = [cp EXCEPT !.health = "INCOMPLETE", !.target = Larger(sync[s].target, cp.target)] /\ owed' = owed
      BY <2>2 DEF ReleaseSyncIncomplete
    <3>2. Larger(sync[s].target, cp.target) \in Nat /\ Larger(sync[s].target, cp.target) >= sync[s].target
      BY <1>0 DEF Larger, Null
    <3>3. cp' \in CheckpointRows /\ cp'.block = cp.block /\ cp'.projected = cp.projected /\ cp'.target = Larger(sync[s].target, cp.target)
      BY <1>0, <3>1, <3>2, RowSet
    <3> QED
      BY <1>0, <1>2, <3>1, <3>2, <3>3 DEF Null
  <2>3. CASE MarkSyncHealthy(s)
    <3>1. owed' = Null /\ cp' = [cp EXCEPT !.health = "OK", !.target = Null]
      BY <2>3 DEF MarkSyncHealthy
    <3>2. cp' \in CheckpointRows /\ cp'.block = cp.block /\ cp'.projected = cp.projected /\ cp'.target = Null
      BY <1>0, <3>1, RowSet
    <3>3. owed' <= cp'.target
      BY <3>1, <3>2 DEF Null
    <3> QED
      BY <3>1, <3>2, <3>3
  <2> QED
    BY <2>1, <2>2, <2>3
<1>4. Resting \in Calls /\ Resting.pc = "idle" /\ Relies(s, Resting)'
  BY DEF Resting, Calls, SyncPcs, OrNone, Relies
<1>5. lease' \in LeaseRows /\ lease'.owner = NoOwner
  BY <1>1 DEF NoLease, LeaseRows
<1>6. LinkedChain' /\ ProjectionCurrent'
  BY <1>1, <1>3 DEF StoreInv, LinkedChain, ProjectionCurrent
<1>7. OwedKept'
  BY <1>3, <1>5 DEF OwedKept
<1>8. ~Preemptible => OperationAnchored'
  BY <1>1 DEF StoreInv, ReceiptsHeld, OperationAnchored
<1>9. /\ canon' \subseteq Blocks /\ events' \subseteq canon' /\ op' \in Operations
      /\ projection' \in [block : OrNone(Blocks), events : SUBSET Blocks]
  BY <1>1, CallTyped
<1> QED
  BY <1>1, <1>3, <1>4, <1>5, <1>6, <1>7, <1>8, <1>9, WriteStep

\* CommitRecovered and CommitProjected: the events of the projection are the ones stored.
LEMMA CommitKeeps ==
    ASSUME StoreInv, ~Held, NEW s \in Syncers, CommitRecovered(s) \/ CommitProjected(s)
    PROVE  StoreInv'
<1>0. /\ sync \in [Syncers -> Calls] /\ sync[s] \in Calls /\ Relies(s, sync[s]) /\ sync[s].n \in Int
      /\ cp \in CheckpointRows /\ lease \in LeaseRows /\ canon \subseteq Blocks /\ events \subseteq canon
      /\ op \in Operations /\ owed \in Nat \cup {Null} /\ s # NoOwner
  BY CallTyped
<1>1. /\ UNCHANGED <<tip, canon, events, lease, op, track, owed, settled>> /\ lease.owner = s
      /\ sync[s].cur \in canon /\ cp.block = sync[s].cur
      /\ projection' = [block |-> sync[s].cur, events |-> sync[s].snap]
      /\ cp' = [cp EXCEPT !.projected = sync[s].cur] /\ sync[s].pc \in {"rebuild", "project"}
  BY DEF CommitRecovered, CommitProjected, CommitProjections, OwnsLease
<1>2. sync[s].snap = events /\ lease.target = sync[s].target /\ (sync[s].pc = "project" => Number[sync[s].cur] = sync[s].n)
  BY <1>0, <1>1 DEF Relies
<1>3. cp' \in CheckpointRows /\ cp'.block = cp.block /\ cp'.projected = cp.block /\ cp'.target = cp.target /\ cp.block # NoBlock
  BY <1>0, <1>1, ChainAssumption DEF CheckpointRows, OrNone
<1>4. PICK me : me = IF sync[s].pc = "rebuild" THEN [sync[s] EXCEPT !.pc = "scan"]
                     ELSE [sync[s] EXCEPT !.pc = IF sync[s].n < sync[s].head THEN "fetch" ELSE "finish", !.n = sync[s].n + 1]
  OBVIOUS
<1>5. sync' = [sync EXCEPT ![s] = me]
  BY <1>0, <1>4 DEF CommitRecovered, CommitProjected, Goto, Calls
<1>6. /\ me \in Calls /\ me.pc \in {"scan", "fetch", "finish"} /\ me.target = sync[s].target
      /\ me.pc = "fetch" => sync[s].pc = "project" /\ me.n = sync[s].n + 1
  <2>1. CASE sync[s].pc = "rebuild"
    BY <1>0, <1>4, <2>1 DEF Calls, SyncPcs
  <2>2. CASE sync[s].pc = "project"
    <3>1. PICK pc \in {"fetch", "finish"} : me = [sync[s] EXCEPT !.pc = pc, !.n = sync[s].n + 1]
      BY <1>4, <2>2
    <3>2. pc \in SyncPcs /\ sync[s].n + 1 \in Int
      BY <1>0 DEF SyncPcs
    <3>3. me \in Calls /\ me.pc = pc /\ me.target = sync[s].target /\ me.n = sync[s].n + 1
      BY <1>0, <3>1, <3>2 DEF Calls
    <3> QED
      BY <2>2, <3>1, <3>3
  <2> QED
    BY <1>1, <2>1, <2>2
<1>7. Relies(s, me)'
  <2>1. ScanStart' = Number[cp.block] + 1
    BY <1>3 DEF ScanStart
  <2> QED
    BY <1>1, <1>2, <1>6, <2>1 DEF Relies
<1>8. LinkedChain' /\ OwedKept'
  BY <1>1, <1>3 DEF StoreInv, LinkedChain, OwedKept
<1>9. ProjectionCurrent'
  BY <1>1, <1>2, <1>3 DEF ProjectionCurrent
<1>10. projection' \in [block : OrNone(Blocks), events : SUBSET Blocks]
  BY <1>0, <1>1, <1>2 DEF OrNone
<1>11. ~Preemptible => OperationAnchored'
  BY <1>1 DEF StoreInv, ReceiptsHeld, OperationAnchored
<1> QED
  BY <1>0, <1>1, <1>3, <1>5, <1>6, <1>7, <1>8, <1>9, <1>10, <1>11, WriteStep

LEMMA RecordKeeps ==
    ASSUME StoreInv, ~Held, NEW s \in Syncers, RecordCanonicalBlock(s)
    PROVE  StoreInv'
<1>0. /\ sync \in [Syncers -> Calls] /\ sync[s] \in Calls /\ Relies(s, sync[s]) /\ sync[s].n \in Int /\ sync[s].target \in Nat
      /\ cp \in CheckpointRows /\ cp.target \in Nat \cup {Null} /\ lease \in LeaseRows /\ canon \subseteq Blocks /\ events \subseteq canon
      /\ op \in Operations /\ owed \in Nat \cup {Null} /\ s # NoOwner
      /\ projection \in [block : OrNone(Blocks), events : SUBSET Blocks]
  BY CallTyped
<1>1. PICK block : block = sync[s].cur
  OBVIOUS
<1>2. /\ UNCHANGED <<tip, lease, projection, op, track, owed, settled>> /\ lease.owner = s /\ sync[s].pc = "logs"
      /\ Follows(block) /\ canon' = canon \cup {block}
      /\ events' = events \cup LogsOf(sync[s].n, block)
      /\ cp' = [cp EXCEPT !.block = block, !.health = "INCOMPLETE", !.target = Larger(sync[s].target, @)]
      /\ sync' = [sync EXCEPT ![s].pc = "project", ![s].snap = events']
  BY <1>1 DEF RecordCanonicalBlock, OwnsLease
<1>3. /\ block \in Blocks /\ Number[block] = sync[s].n /\ sync[s].n = ScanStart /\ lease.target = sync[s].target
  BY <1>0, <1>1, <1>2 DEF Relies
<1>4. canon' \subseteq Blocks /\ events' \subseteq canon' /\ events' \in SUBSET Blocks
  BY <1>0, <1>2, <1>3 DEF LogsOf
<1>5. Larger(sync[s].target, cp.target) \in Nat
  BY <1>0 DEF Larger, Null
<1>6. cp' \in CheckpointRows /\ cp'.block = block /\ cp'.projected = cp.projected
  BY <1>0, <1>2, <1>3, <1>5 DEF CheckpointRows, OrNone
<1>7. PICK stored : stored = events'
  OBVIOUS
<1>8. PICK me : me = [sync[s] EXCEPT !.pc = "project", !.snap = stored]
  OBVIOUS
<1>9. /\ me \in Calls /\ me.pc = "project" /\ me.target = sync[s].target /\ me.snap = stored /\ me.cur = block /\ me.n = sync[s].n
      /\ sync' = [sync EXCEPT ![s] = me]
  BY <1>0, <1>1, <1>2, <1>4, <1>7, <1>8 DEF Calls, SyncPcs
<1>10. Relies(s, me)'
  BY <1>2, <1>3, <1>7, <1>9 DEF Relies
<1>11. block \notin canon /\ \A b \in canon : Number[b] < Number[block]
  <2>1. ASSUME NEW b \in canon PROVE Number[b] < Number[block]
    <3>1. cp.block # NoBlock /\ cp.block \in canon /\ Number[b] <= Number[cp.block]
      BY Linked DEF StoreInv
    <3>2. Number[block] = Number[cp.block] + 1
      BY <1>3, <3>1 DEF ScanStart
    <3> QED
      BY <1>0, <3>1, <3>2, ChainAssumption
  <2> QED
    BY <1>3, <2>1, ChainAssumption
<1>12. LinkedChain'
  <2>1. ASSUME NEW b \in canon', Parent[b] # NoBlock PROVE Parent[b] \in canon'
    <3>1. CASE b \in canon
      BY <1>2, <2>1, <3>1, Linked DEF StoreInv
    <3>2. CASE b = block
      <4>1. CASE cp.block = NoBlock
        BY <1>3, <2>1, <3>2, <4>1, DeploymentIsFirst DEF ScanStart
      <4>2. CASE cp.block # NoBlock
        <5>1. cp.block \in canon
          BY <4>2 DEF StoreInv, LinkedChain
        <5> QED
          BY <1>2, <3>2, <4>2, <5>1 DEF Follows
      <4> QED
        BY <4>1, <4>2
    <3> QED
      BY <1>2, <3>1, <3>2
  <2>2. ASSUME NEW b \in canon', NEW c \in canon', Number[b] = Number[c] PROVE b = c
    <3>1. b \in canon /\ c \in canon => b = c
      BY <2>2, Linked DEF StoreInv
    <3>2. Number[b] \in Nat /\ Number[c] \in Nat /\ Number[block] \in Nat
      BY <1>3, <1>4, ChainAssumption
    <3>3. b \in canon => Number[b] < Number[block]
      BY <1>11
    <3>4. c \in canon => Number[c] < Number[block]
      BY <1>11
    <3> QED
      BY <1>2, <2>2, <3>1, <3>2, <3>3, <3>4
  <2>3. ASSUME NEW b \in canon' PROVE Number[b] <= Number[block]
    BY <1>2, <1>3, <1>4, <1>11, ChainAssumption
  <2>4. block # NoBlock /\ block \in canon' /\ canon' # {}
    BY <1>2, <1>3, ChainAssumption
  <2> QED
    BY <1>6, <2>1, <2>2, <2>3, <2>4 DEF LinkedChain
<1>13. ProjectionCurrent'
  <2>1. cp.projected \in canon \cup {NoBlock}
    BY DEF StoreInv, ProjectionCurrent
  <2>2. cp.projected # block
    BY <1>3, <1>11, <2>1, ChainAssumption
  <2> QED
    BY <1>2, <1>6, <2>1, <2>2 DEF ProjectionCurrent
<1>14. OwedKept'
  BY <1>0, <1>2 DEF StoreInv, OwedKept
<1>15. ~Preemptible => OperationAnchored'
  BY <1>2 DEF StoreInv, ReceiptsHeld, OperationAnchored
<1> QED
  BY <1>0, <1>2, <1>4, <1>6, <1>9, <1>10, <1>12, <1>13, <1>14, <1>15, WriteStep

----------------------------------------------------------------------------
(* Trackers, and the chain itself *)

\* What one tracker may hold, besides its type.
Knows(me) ==
    /\ me.pc # "idle" => me.seen \in Blocks
    /\ me.pc \in {"mined", "reconcile"} => me.receipt \in Blocks
    /\ me.pc = "reconcile" => me.op.state \in Trackable

LEMMA OperationStep ==
    ASSUME StoreInv, UNCHANGED <<tip, canon, events, cp, lease, projection, sync, owed, settled>>, op' \in Operations,
           track' \in [Trackers -> Followed], \A t \in Trackers : Knows(track'[t]), ~Preemptible => OperationAnchored',
           ~Preemptible => \A t \in Trackers : track'[t].pc = "mined" => track'[t].receipt \in canon
    PROVE  StoreInv'
<1>1. TypeOK'
  <2>1. TypeOK
    BY DEF StoreInv
  <2> QED
    BY <2>1 DEF TypeOK, Followed
<1>2. LinkedChain' /\ ProjectionCurrent' /\ OwedKept'
  BY DEF StoreInv, LinkedChain, ProjectionCurrent, OwedKept
<1>3. CallsRely'
  BY DEF StoreInv, CallsRely, Relies, ScanStart
<1>4. TrackersRely' /\ ReceiptsHeld'
  BY DEF TrackersRely, Knows, ReceiptsHeld
<1> QED
  BY <1>1, <1>2, <1>3, <1>4 DEF StoreInv

LEMMA TrackStarts ==
    ASSUME StoreInv, NEW t \in Trackers, BeginTrack(t) \/ TrackReceipt(t) \/ EndTrack(t)
    PROVE  StoreInv'
<1>0. /\ track \in [Trackers -> Followed] /\ op \in Operations /\ cp \in CheckpointRows /\ canon \subseteq Blocks
      /\ \A u \in Trackers : Knows(track[u])
  BY TypesUnfolded DEF StoreInv, TrackersRely, Knows
<1>1. UNCHANGED <<tip, canon, events, cp, lease, projection, op, sync, owed, settled>>
  BY DEF BeginTrack, TrackReceipt, EndTrack, storeVars
<1>2. /\ ~Preemptible => OperationAnchored'
      /\ ~Preemptible => \A u \in Trackers : track[u].pc = "mined" => track[u].receipt \in canon
  BY <1>1 DEF StoreInv, ReceiptsHeld, OperationAnchored
<1>3. Untracked \in Followed /\ Untracked.pc = "idle"
  BY DEF Untracked, Followed, NoOperation, Operations, Lifecycle, OrNone
<1>4. ASSUME NEW me \in Followed, Knows(me), track' = [track EXCEPT ![t] = me], me.pc = "mined" => me.receipt \in canon
      PROVE  StoreInv'
  <2>1. track' \in [Trackers -> Followed] /\ \A u \in Trackers : Knows(track'[u])
    BY <1>0, <1>4
  <2>2. ~Preemptible => \A u \in Trackers : track'[u].pc = "mined" => track'[u].receipt \in canon
    BY <1>0, <1>2, <1>4
  <2> QED
    BY <1>0, <1>1, <1>2, <2>1, <2>2, OperationStep
<1>5. CASE EndTrack(t)
  <2>1. Knows(Untracked)
    BY <1>3 DEF Knows
  <2> QED
    BY <1>3, <1>4, <1>5, <2>1 DEF EndTrack
<1>6. CASE BeginTrack(t)
  <2>1. PICK me : me = [Untracked EXCEPT !.pc = "receipt", !.seen = cp.block, !.op = op]
    OBVIOUS
  <2>2. cp.block \in Blocks /\ track' = [track EXCEPT ![t] = me]
    BY <1>0, <1>6, <2>1 DEF BeginTrack, CheckpointRows, OrNone
  <2>3. me \in Followed /\ me.pc = "receipt" /\ me.seen \in Blocks
    BY <1>0, <1>3, <2>1, <2>2 DEF Followed, OrNone
  <2>4. Knows(me)
    BY <2>3 DEF Knows
  <2> QED
    BY <1>4, <2>2, <2>3, <2>4
<1>7. CASE TrackReceipt(t)
  <2>1. PICK b \in ReceiptBlocks \cap canon :
            track' = [track EXCEPT ![t].pc = IF track[t].op.state \in Trackable THEN "reconcile" ELSE "mined",
                                   ![t].receipt = b, ![t].event = b \in events]
    BY <1>7 DEF TrackReceipt
  <2>2. PICK e \in BOOLEAN : e = (b \in events)
    <3>1. (b \in events) \in BOOLEAN
      OBVIOUS
    <3> QED
      BY <3>1, Zenon
  <2>3. PICK pc \in {"reconcile", "mined"} : pc = IF track[t].op.state \in Trackable THEN "reconcile" ELSE "mined"
    OBVIOUS
  <2>4. PICK me : me = [track[t] EXCEPT !.pc = pc, !.receipt = b, !.event = e]
    OBVIOUS
  <2>5. track' = [track EXCEPT ![t] = me]
    BY <2>1, <2>2, <2>3, <2>4
  <2>6. /\ me \in Followed /\ me.pc = pc /\ me.receipt = b /\ me.op = track[t].op /\ me.seen = track[t].seen /\ b \in Blocks
    BY <1>0, <2>1, <2>4 DEF Followed, OrNone
  <2>7. Knows(me)
    <3>1. track[t].seen \in Blocks
      BY <1>0, <1>7 DEF Knows, TrackReceipt
    <3> QED
      BY <2>3, <2>6, <3>1 DEF Knows
  <2> QED
    BY <1>4, <2>1, <2>5, <2>6, <2>7
<1> QED
  BY <1>5, <1>6, <1>7

LEMMA TrackSaves ==
    ASSUME StoreInv, NEW t \in Trackers, SaveMined(t) \/ ReconcileMismatch(t) \/ ReconcileMatch(t)
    PROVE  StoreInv'
<1>0. /\ track \in [Trackers -> Followed] /\ track[t] \in Followed /\ op \in Operations /\ canon \subseteq Blocks
      /\ \A u \in Trackers : Knows(track[u])
  BY TypesUnfolded DEF StoreInv, TrackersRely, Knows
<1>1. UNCHANGED <<tip, canon, events, cp, lease, projection, sync, owed, settled>> /\ op = track[t].op
  BY DEF SaveMined, ReconcileMismatch, ReconcileMatch, Unmoved
<1>2. ~Preemptible => /\ OperationAnchored
                      /\ \A u \in Trackers : track[u].pc = "mined" => track[u].receipt \in canon
  BY DEF StoreInv, ReceiptsHeld
<1>3. Untracked \in Followed /\ Untracked.pc = "idle" /\ Knows(Untracked)
  BY DEF Untracked, Followed, NoOperation, Operations, Lifecycle, OrNone, Knows
<1>4. ASSUME NEW me \in Followed, Knows(me), me.pc # "mined", track' = [track EXCEPT ![t] = me], op' \in Operations,
             ~Preemptible => OperationAnchored'
      PROVE  StoreInv'
  <2>1. track' \in [Trackers -> Followed] /\ \A u \in Trackers : Knows(track'[u])
    BY <1>0, <1>4
  <2>2. ~Preemptible => \A u \in Trackers : track'[u].pc = "mined" => track'[u].receipt \in canon
    BY <1>0, <1>2, <1>4
  <2> QED
    BY <1>1, <1>4, <2>1, <2>2, OperationStep
<1>5. CASE SaveMined(t)
  <2>1. PICK b : b = track[t].receipt
    OBVIOUS
  <2>2. track[t].pc = "mined" /\ b \in Blocks /\ track[t].seen \in Blocks
    BY <1>0, <1>5, <2>1 DEF SaveMined, Knows
  <2>3. op' = [state |-> IF b \in Logged THEN "MINED" ELSE "REVERTED", block |-> b, confirmations |-> 0]
    BY <1>5, <2>1 DEF SaveMined
  <2>4. op' \in Operations /\ op'.block = b
    BY <2>2, <2>3 DEF Operations, Lifecycle, OrNone
  <2>5. ~Preemptible => OperationAnchored'
    BY <1>1, <1>2, <2>1, <2>2, <2>4 DEF OperationAnchored
  <2>6. CASE b \in Logged
    <3>1. PICK saved : saved = op'
      OBVIOUS
    <3>2. PICK e \in BOOLEAN : e = (b \in events)
      <4>1. (b \in events) \in BOOLEAN
        OBVIOUS
      <4> QED
        BY <4>1, Zenon
    <3>3. PICK me : me = [track[t] EXCEPT !.pc = "reconcile", !.op = saved, !.event = e]
      OBVIOUS
    <3>4. track' = [track EXCEPT ![t] = me]
      BY <1>5, <2>1, <2>6, <3>1, <3>2, <3>3 DEF SaveMined
    <3>5. me \in Followed /\ me.pc = "reconcile" /\ me.op = saved /\ me.receipt = b /\ me.seen = track[t].seen
      BY <1>0, <2>1, <2>4, <3>1, <3>3 DEF Followed
    <3>6. Knows(me)
      BY <2>2, <2>3, <2>6, <3>1, <3>5 DEF Knows, Trackable
    <3> QED
      BY <1>4, <2>4, <2>5, <3>4, <3>5, <3>6
  <2>7. CASE b \notin Logged
    <3>1. track' = [track EXCEPT ![t] = Untracked]
      BY <1>5, <2>1, <2>7 DEF SaveMined
    <3> QED
      BY <1>3, <1>4, <2>4, <2>5, <3>1
  <2> QED
    BY <2>6, <2>7
<1>6. CASE ReconcileMismatch(t) \/ ReconcileMatch(t)
  <2>1. /\ track[t].pc = "reconcile" /\ track' = [track EXCEPT ![t] = Untracked]
        /\ op.state \in Trackable /\ track[t].seen \in Blocks /\ track[t].receipt \in Blocks
    BY <1>0, <1>1, <1>6 DEF ReconcileMismatch, ReconcileMatch, Knows
  <2>2. op' \in Operations /\ op'.block = op.block
    <3>1. CASE ReconcileMismatch(t)
      BY <1>0, <1>1, <3>1 DEF ReconcileMismatch, Operations, Lifecycle
    <3>2. CASE ReconcileMatch(t)
      <4>1. PICK depth : depth = DepthAt(track[t].seen, track[t].receipt)
        OBVIOUS
      <4>2. depth \in Int /\ depth >= op.confirmations /\ op.confirmations \in Nat
        <5>1. depth >= op.confirmations
          BY <1>1, <3>2, <4>1 DEF ReconcileMatch
        <5>2. op.confirmations \in Nat
          BY <1>0 DEF Operations
        <5>3. depth \in Int
          BY <2>1, <4>1, ChainAssumption DEF DepthAt
        <5> QED
          BY <5>1, <5>2, <5>3
      <4>3. PICK st \in {"CONFIRMED", "CONFIRMING"} : op' = [op EXCEPT !.state = st, !.confirmations = depth]
        BY <1>1, <3>2, <4>1 DEF ReconcileMatch
      <4>4. depth \in Nat /\ st \in Lifecycle
        BY <4>2 DEF Lifecycle
      <4> QED
        BY <1>0, <4>3, <4>4 DEF Operations
    <3> QED
      BY <1>6, <3>1, <3>2
  <2>3. ~Preemptible => OperationAnchored'
    BY <1>1, <1>2, <2>1, <2>2 DEF OperationAnchored, Trackable, Anchored
  <2> QED
    BY <1>3, <1>4, <2>1, <2>2, <2>3
<1> QED
  BY <1>5, <1>6

LEMMA OthersKeep ==
    ASSUME StoreInv,
           \/ RegisterSubmission \/ \E l \in {"REPLACED", "DROPPED"} : RecordLost(l)
           \/ \E b \in Blocks : MoveTip(b)
           \/ Settle \/ UNCHANGED vars
    PROVE  StoreInv'
<1>0. /\ track \in [Trackers -> Followed] /\ op \in Operations /\ \A u \in Trackers : Knows(track[u])
      /\ ~Preemptible => \A u \in Trackers : track[u].pc = "mined" => track[u].receipt \in canon
  BY TypesUnfolded DEF StoreInv, TrackersRely, Knows, ReceiptsHeld
<1>1. CASE RegisterSubmission \/ \E l \in {"REPLACED", "DROPPED"} : RecordLost(l)
  <2>1. /\ UNCHANGED <<tip, canon, events, cp, lease, projection, sync, track, owed, settled>>
        /\ \E st \in {"SUBMITTED", "REPLACED", "DROPPED"} : op' = [op EXCEPT !.state = st]
    BY <1>1 DEF RegisterSubmission, RecordLost
  <2>2. op' \in Operations /\ op'.state \notin Anchored
    BY <1>0, <2>1 DEF Operations, Lifecycle, Anchored
  <2>3. OperationAnchored'
    BY <2>2 DEF OperationAnchored
  <2> QED
    BY <1>0, <2>1, <2>2, <2>3, OperationStep
<1>2. CASE (\E b \in Blocks : MoveTip(b)) \/ Settle \/ UNCHANGED vars
  <2>1. /\ UNCHANGED <<canon, events, cp, lease, projection, op, sync, track, owed>>
        /\ tip' \in Blocks /\ settled' \in BOOLEAN
    BY <1>2 DEF MoveTip, Settle, vars, storeVars, StoreInv, TypeOK
  <2>2. TypeOK'
    BY <2>1 DEF StoreInv, TypeOK
  <2>3. LinkedChain' /\ ProjectionCurrent' /\ OwedKept'
    BY <2>1 DEF StoreInv, LinkedChain, ProjectionCurrent, OwedKept
  <2>4. CallsRely'
    BY <2>1 DEF StoreInv, CallsRely, Relies, ScanStart
  <2>5. TrackersRely' /\ ReceiptsHeld'
    BY <2>1 DEF StoreInv, TrackersRely, ReceiptsHeld, OperationAnchored
  <2> QED
    BY <2>2, <2>3, <2>4, <2>5 DEF StoreInv
<1> QED
  BY <1>1, <1>2

----------------------------------------------------------------------------
(* The theorems *)

LEMMA InitHolds ==
    ASSUME Init
    PROVE  StoreInv
<1>1. TypeOK
  <2>1. NoRow \in CheckpointRows /\ NoLease \in LeaseRows /\ NoProjection \in [block : OrNone(Blocks), events : SUBSET Blocks]
    BY DEF NoRow, NoLease, NoProjection, CheckpointRows, LeaseRows, OrNone
  <2>2. NoOperation \in Operations /\ Resting \in Calls
    BY DEF NoOperation, Operations, Lifecycle, OrNone, Resting, Calls, SyncPcs
  <2>3. Untracked \in Followed
    BY <2>2 DEF Untracked, Followed, OrNone
  <2> QED
    BY <2>1, <2>2, <2>3, TypesUnfolded DEF Init
<1>2. LinkedChain /\ ProjectionCurrent /\ OwedKept
  BY DEF Init, LinkedChain, ProjectionCurrent, OwedKept, NoRow, NoLease, Null
<1>3. CallsRely
  BY DEF Init, CallsRely, Relies, Resting
<1>4. TrackersRely /\ ReceiptsHeld
  BY DEF Init, TrackersRely, ReceiptsHeld, Untracked, OperationAnchored, NoOperation, Anchored
<1> QED
  BY <1>1, <1>2, <1>3, <1>4 DEF StoreInv

\* The steps of a synchronizer that leave the store alone, and the ones that write it and keep the lease.
CallsOnly(s) ==
    \/ BeginSync(s) \/ CheckCheckpoint(s) \/ SearchFurther(s) \/ RecoverProjection(s) \/ StartScan(s)
    \/ FetchBlock(s) \/ ThrowSync(s) \/ CrashSync(s)

Writes(s) ==
    \/ ClaimSync(s) \/ Rewind(s) \/ RollbackProjected(s) \/ CommitRecovered(s) \/ CommitProjected(s)
    \/ RecordCanonicalBlock(s)

LEMMA NextKeeps ==
    ASSUME StoreInv, [Next]_vars
    PROVE  StoreInv'
<1>1. ASSUME ~Held, NEW s \in Syncers, SyncStep(s) \/ CrashSync(s) PROVE StoreInv'
  BY <1>1, CallsKeep, ClaimKeeps, RewindKeeps, ReleaseKeeps, CommitKeeps, RecordKeeps DEF SyncStep
<1>2. ASSUME NEW t \in Trackers, TrackStep(t) \/ SaveMined(t) \/ EndTrack(t) PROVE StoreInv'
  BY <1>2, TrackStarts, TrackSaves DEF TrackStep
<1> QED
  BY <1>1, <1>2, OthersKeep DEF Next

\* The stored blocks are one chain that ends in the checkpoint, and a reader is given what was built there
\* from the events stored now, whoever takes the lease from whom and wherever a call stops
\* (recordCanonicalBlock, rollbackFromBlock, commitProjections); in one process, an operation with a
\* receipt rests on a block of that chain (saveOperationAtCheckpoint).
THEOREM StoreIsCoherent ==
    /\ Spec => [](TypeOK /\ LinkedChain /\ ReadsMatchStore)
    /\ ~Preemptible => (Spec => []StoreCoherent)
<1>1. Init => StoreInv
  BY InitHolds
<1>2. StoreInv /\ [Next]_vars => StoreInv'
  BY NextKeeps
<1>3. StoreInv => TypeOK /\ LinkedChain /\ ReadsMatchStore
  BY DEF StoreInv, ReadsMatchStore, Readable, ProjectionCurrent
<1>4. ~Preemptible /\ StoreInv => StoreCoherent
  BY <1>3 DEF StoreInv, StoreCoherent, ReceiptsHeld
<1>5. Spec => []StoreInv
  BY <1>1, <1>2, PTL DEF Spec
<1>6. Spec => [](TypeOK /\ LinkedChain /\ ReadsMatchStore)
  BY <1>3, <1>5, PTL
<1>7. ASSUME ~Preemptible PROVE Spec => []StoreCoherent
  <2>1. StoreInv => StoreCoherent
    BY <1>4, <1>7
  <2> QED
    BY <1>5, <2>1, PTL
<1> QED
  BY <1>6, <1>7

\* Reads reopen only once every target claimed since they closed is indexed (claimSync, markSyncHealthy).
THEOREM TargetsAreHonoured == Spec => TargetsHonoured
<1>1. ASSUME StoreInv, [Next]_vars, Readable', ~Readable PROVE Number[cp'.block] >= owed
  <2>1. PICK s \in Syncers : MarkSyncHealthy(s)
    <3>1. UNCHANGED <<lease, cp>> => (Readable' <=> Readable)
      BY DEF Readable, SyncHealthy
    <3>2. ASSUME NEW s \in Syncers, CallsOnly(s) PROVE UNCHANGED <<lease, cp>>
      BY <3>2 DEF CallsOnly, BeginSync, CheckCheckpoint, SearchFurther, RecoverProjection, StartScan, FetchBlock, ThrowSync, CrashSync, storeVars
    <3>3. ASSUME NEW s \in Syncers, Writes(s) PROVE ~SyncHealthy'
      <4>1. lease'.owner = s
        BY <3>3 DEF Writes, OwnsLease, ClaimSync, Rewind, RollbackProjected, CommitRecovered, CommitProjected,
                    CommitProjections, RecordCanonicalBlock
      <4> QED
        BY <4>1, ChainAssumption DEF SyncHealthy
    <3>4. ASSUME NEW s \in Syncers, GiveUp(s) \/ ReleaseSyncIncomplete(s) PROVE ~SyncHealthy'
      <4>1. cp \in CheckpointRows
        BY <1>1, CallTyped
      <4>2. cp'.health # "OK"
        BY <3>4, <4>1 DEF GiveUp, ReleaseSyncIncomplete, CheckpointRows
      <4> QED
        BY <4>2 DEF SyncHealthy
    <3>5. ASSUME NEW t \in Trackers, TrackStep(t) \/ SaveMined(t) \/ EndTrack(t) PROVE UNCHANGED <<lease, cp>>
      BY <3>5 DEF TrackStep, BeginTrack, TrackReceipt, ReconcileMismatch, ReconcileMatch, SaveMined, EndTrack, storeVars
    <3>6. RegisterSubmission \/ (\E l \in {"REPLACED", "DROPPED"} : RecordLost(l)) \/ (\E b \in Blocks : MoveTip(b)) \/ Settle \/ UNCHANGED vars
             => UNCHANGED <<lease, cp>>
      BY DEF RegisterSubmission, RecordLost, MoveTip, Settle, vars, storeVars
    <3> QED
      BY <1>1, <3>1, <3>2, <3>3, <3>4, <3>5, <3>6 DEF Next, SyncStep, CallsOnly, Writes, Readable
  <2>2. /\ cp \in CheckpointRows /\ owed \in Nat \cup {Null} /\ lease.target \in Nat \cup {Null}
        /\ Relies(s, sync[s]) /\ sync[s].head \in Nat /\ sync[s].target \in Nat /\ s # NoOwner
    BY <1>1, CallTyped
  <2>3. /\ sync[s].pc = "finish" /\ sync[s].head >= sync[s].target /\ lease.owner = s /\ Number[cp.block] >= sync[s].head
        /\ cp.block # NoBlock /\ cp' = [cp EXCEPT !.health = "OK", !.target = Null]
    BY <2>1 DEF MarkSyncHealthy, OwnsLease, CompletedBy
  <2>4. owed <= lease.target /\ lease.target = sync[s].target
    BY <1>1, <2>2, <2>3 DEF StoreInv, OwedKept, Relies
  <2>5. cp'.block = cp.block /\ Number[cp.block] \in Nat
    BY <2>2, <2>3, ChainAssumption DEF CheckpointRows, OrNone
  <2> QED
    BY <2>2, <2>3, <2>4, <2>5 DEF Null
<1>2. Init => StoreInv
  BY InitHolds
<1>3. StoreInv /\ [Next]_vars => StoreInv'
  BY NextKeeps
<1>4. StoreInv /\ [Next]_vars => (Readable' /\ ~Readable => Number[cp'.block] >= owed)
  BY <1>1
<1> QED
  BY <1>2, <1>3, <1>4, PTL DEF Spec, TargetsHonoured

----------------------------------------------------------------------------
(* Reads of the chain for one block *)

\* A chain's blocks are below its last one, one of each number.
ChainFacts(b) ==
    /\ b \in Chain[b] /\ Chain[b] \subseteq Heads
    /\ \A c \in Chain[b] : c = b \/ HeadNumber[c] < HeadNumber[b]
    /\ \A c, d \in Chain[b] : HeadNumber[c] = HeadNumber[d] => c = d

LEMMA ChainEquation ==
    ASSUME PinnedConstants, NEW b \in Heads
    PROVE  Chain[b] = IF HeadParent[b] = NoHead THEN {b} ELSE {b} \cup Chain[HeadParent[b]]
<1> DEFINE Closed(S) == \A x \in S : HeadParent[x] # NoHead => HeadParent[x] \in S
           Up(x) == {c \in Heads : \A S \in SUBSET Heads : x \in S /\ Closed(S) => c \in S}
           step(f, x) == IF HeadParent[x] = NoHead THEN {x} ELSE {x} \cup f[HeadParent[x]]
           ups == [x \in Heads |-> Up(x)]
<1>1. ASSUME NEW x \in Heads PROVE Up(x) = step(ups, x)
  <2>1. CASE HeadParent[x] = NoHead
    <3>1. Closed({x}) /\ x \in Up(x)
      BY <2>1
    <3> QED BY <2>1, <3>1
  <2>2. CASE HeadParent[x] # NoHead
    <3>1. HeadParent[x] \in Heads /\ ups[HeadParent[x]] = Up(HeadParent[x])
      BY <2>2 DEF PinnedConstants
    <3>2. Closed({x} \cup Up(HeadParent[x]))
      <4>1. HeadParent[x] \in Up(HeadParent[x])
        BY <3>1
      <4>2. ASSUME NEW y \in Up(HeadParent[x]), HeadParent[y] # NoHead PROVE HeadParent[y] \in Up(HeadParent[x])
        BY <4>2 DEF PinnedConstants
      <4> QED BY <4>1, <4>2
    <3>3. Up(x) \subseteq {x} \cup Up(HeadParent[x])
      <4>1. {x} \cup Up(HeadParent[x]) \in SUBSET Heads
        OBVIOUS
      <4> QED BY <3>2, <4>1
    <3>4. x \in Up(x)
      OBVIOUS
    <3>5. Up(HeadParent[x]) \subseteq Up(x)
      BY <2>2, <3>1
    <3> QED BY <2>2, <3>1, <3>3, <3>4, <3>5
  <2> QED BY <2>1, <2>2
<1> HIDE DEF Up
<1>2. ups = [x \in Heads |-> step(ups, x)]
  BY <1>1
<1>3. Chain = [x \in Heads |-> step(Chain, x)]
  BY <1>2 DEF Chain
<1> QED BY <1>3

LEMMA ChainHolds == ASSUME PinnedConstants PROVE \A b \in Heads : ChainFacts(b)
<1> DEFINE Wrong == {b \in Heads : ~ChainFacts(b)}
           Numbers == {HeadNumber[b] : b \in Wrong}
<1> SUFFICES ASSUME Wrong # {} PROVE FALSE
  OBVIOUS
<1>1. Numbers \in SUBSET Nat /\ Numbers # {} /\ \A b \in Heads : HeadNumber[b] \in Nat
  BY DEF PinnedConstants
<1>2. PICK n \in Numbers : \A m \in Numbers : n <= m
  <2> HIDE DEF Numbers
  <2> QED BY <1>1, LeastNumber
<1>3. PICK b \in Wrong : n = HeadNumber[b]
  BY <1>2
<1>4. CASE HeadParent[b] = NoHead
  <2>1. Chain[b] = {b}
    BY <1>4, ChainEquation
  <2> QED BY <1>3, <2>1 DEF ChainFacts
<1>5. CASE HeadParent[b] # NoHead
  <2>1. PICK p \in Heads : p = HeadParent[b] /\ HeadNumber[b] = HeadNumber[p] + 1
    BY <1>5 DEF PinnedConstants
  <2>2. ChainFacts(p)
    <3>1. p \in Wrong => n <= HeadNumber[p]
      BY <1>2
    <3>2. HeadNumber[p] \in Nat /\ n = HeadNumber[p] + 1
      BY <1>1, <1>3, <2>1
    <3>3. p \notin Wrong
      BY <3>1, <3>2
    <3> QED BY <3>3
  <2>3. Chain[b] = {b} \cup Chain[p]
    BY <1>5, <2>1, ChainEquation
  <2>4. \A c \in Chain[p] : c \in Heads /\ HeadNumber[c] \in Nat /\ HeadNumber[c] < HeadNumber[b]
    BY <1>1, <2>1, <2>2 DEF ChainFacts
  <2>5. \A c, d \in Chain[b] : HeadNumber[c] = HeadNumber[d] => c = d
    BY <1>1, <2>2, <2>3, <2>4 DEF ChainFacts
  <2> QED BY <1>3, <2>3, <2>4, <2>5 DEF ChainFacts
<1> QED BY <1>4, <1>5

Snapshots == {"snapshot", "indexed"}
BlockOrNone == Heads \cup {NoHead}
ReaderOrNone == Readers \cup {NoHead}
Leaving == {"never", "away", "back"}
CallPcs == {"idle", "block", "reading", "joined", "answered", "failed"}
CallRecords == [kind : Kinds \cup {"none"}, pc : CallPcs, at : BlockOrNone, block : BlockOrNone, got : Seq(Heads),
                tries : Nat, left : Leaving, by : ReaderOrNone]
CacheRecords == [block : BlockOrNone, by : ReaderOrNone, got : Seq(Heads), left : Leaving]

\* A call is about the block it was asked for; the history tells whether that block is off the chain
\* shown, and every part read is of it unless the history says that it was away meanwhile.
CallSound(c, v) ==
    /\ c.pc = "block" => c.got = <<>>
    /\ c.pc \in {"reading", "joined", "answered"} => c.at \in {NoHead, c.block} /\ c.block \in Heads
    /\ c.pc = "reading" => /\ c.left = "away" <=> c.block \notin Chain[v]
                           /\ \A i \in 1 .. Len(c.got) : c.got[i] = c.block \/ (c.left # "never" /\ c.kind # "capture")
    /\ c.pc = "answered" => /\ c.left # "away"
                            /\ \A i \in 1 .. Len(c.got) : c.got[i] = c.block \/ (c.left = "back" /\ c.kind # "capture")
    /\ c.pc = "joined" => c.kind \in Snapshots /\ c.by \in Readers

\* A call that joined a read joined one in progress, of its block.
JoinSound(c, f) ==
    c.pc = "joined" => f[c.by].pc = "reading" /\ f[c.by].kind \in Snapshots /\ f[c.by].block = c.block

\* The cache holds a read in progress of its block, or a finished one.
CacheSound(k, f) ==
    /\ k.by # NoHead => f[k.by].pc = "reading" /\ f[k.by].block = k.block /\ f[k.by].kind \in Snapshots
    /\ k.block # NoHead /\ k.by = NoHead =>
          /\ Len(k.got) = 2 /\ k.left # "away"
          /\ \A i \in 1 .. Len(k.got) : k.got[i] = k.block \/ k.left = "back"

ReadsInv ==
    /\ view \in Heads /\ calls \in [Readers -> CallRecords] /\ cache \in CacheRecords
    /\ \A r \in Readers : CallSound(calls[r], view) /\ JoinSound(calls[r], calls)
    /\ CacheSound(cache, calls)

LEMMA IdleCall == Idle \in CallRecords /\ Idle.pc = "idle" /\ Idle.got = <<>> /\ NoCache \in CacheRecords
                  /\ NoCache.by = NoHead /\ NoCache.block = NoHead
<1>1. <<>> \in Seq(Heads)
  OBVIOUS
<1>2. Idle \in CallRecords /\ Idle.pc = "idle" /\ Idle.got = <<>>
  BY <1>1 DEF Idle, CallRecords, CallPcs, BlockOrNone, ReaderOrNone, Leaving
<1>3. NoCache \in CacheRecords /\ NoCache.by = NoHead /\ NoCache.block = NoHead
  BY <1>1 DEF NoCache, CacheRecords, BlockOrNone, ReaderOrNone, Leaving
<1> QED BY <1>2, <1>3

\* One call goes on: a read in progress stays the read it is.
LEMMA OneCall ==
    ASSUME ReadsInv, NEW r \in Readers, NEW new \in CallRecords, view' = view, calls' = [calls EXCEPT ![r] = new],
           CallSound(new, view), cache' \in CacheRecords,
           calls[r].pc = "reading" => new.pc = "reading" /\ new.block = calls[r].block /\ new.kind = calls[r].kind,
           new.pc = "joined" => new.by # r /\ JoinSound(new, calls),
           cache' = cache \/ CacheSound(cache', calls')
    PROVE  ReadsInv'
<1>1. calls' \in [Readers -> CallRecords] /\ view' \in Heads
  BY DEF ReadsInv
<1>2. ASSUME NEW q \in Readers PROVE CallSound(calls'[q], view')
  BY DEF ReadsInv
<1>3. ASSUME NEW q \in Readers, calls[q].pc = "reading"
      PROVE  calls'[q].pc = "reading" /\ calls'[q].block = calls[q].block /\ calls'[q].kind = calls[q].kind
  BY <1>3 DEF ReadsInv
<1>4. ASSUME NEW q \in Readers PROVE JoinSound(calls'[q], calls')
  <2>1. CASE q # r
    <3>1. calls'[q] = calls[q] /\ (calls[q].pc = "joined" => calls[q].by \in Readers) /\ JoinSound(calls[q], calls)
      BY <2>1 DEF ReadsInv, CallSound
    <3> QED BY <1>3, <3>1 DEF JoinSound
  <2>2. CASE q = r
    <3>1. calls'[q] = new /\ (new.pc = "joined" => new.by \in Readers /\ JoinSound(new, calls))
      BY <2>2 DEF ReadsInv, CallSound
    <3> QED BY <1>3, <3>1 DEF JoinSound
  <2> QED BY <2>1, <2>2
<1>5. CacheSound(cache', calls')
  <2>1. CASE cache' = cache
    <3>1. cache.by # NoHead => cache.by \in Readers
      BY DEF ReadsInv, CacheRecords, ReaderOrNone
    <3>2. CacheSound(cache, calls)
      BY DEF ReadsInv
    <3> QED BY <1>3, <2>1, <3>1, <3>2 DEF CacheSound
  <2> QED BY <2>1
<1> QED BY <1>1, <1>2, <1>4, <1>5 DEF ReadsInv

LEMMA ReadsStart == PinnedInit => ReadsInv
<1> SUFFICES ASSUME PinnedInit PROVE ReadsInv
  OBVIOUS
<1>1. \A r \in Readers : calls[r] = Idle
  BY DEF PinnedInit
<1>2. view \in Heads /\ calls \in [Readers -> CallRecords] /\ cache \in CacheRecords
  BY IdleCall DEF PinnedInit
<1>3. \A r \in Readers : CallSound(calls[r], view) /\ JoinSound(calls[r], calls)
  BY <1>1, IdleCall DEF CallSound, JoinSound
<1>4. CacheSound(cache, calls)
  BY IdleCall DEF PinnedInit, CacheSound
<1> QED BY <1>2, <1>3, <1>4 DEF ReadsInv

LEMMA AskKeeps ==
    ASSUME ReadsInv, NEW r \in Readers, NEW kind \in Kinds, NEW at \in BlockOrNone, Ask(r, kind, at)
    PROVE  ReadsInv'
<1>1. PICK none \in CallRecords : none = Idle /\ none.got = <<>>
  BY IdleCall
<1>2. PICK new : new = [none EXCEPT !.kind = kind, !.pc = "block", !.at = at]
  OBVIOUS
<1>3. new \in CallRecords /\ new.pc = "block" /\ new.got = <<>>
  BY <1>1, <1>2 DEF CallRecords, CallPcs
<1>4. calls' = [calls EXCEPT ![r] = new] /\ view' = view /\ cache' = cache /\ calls[r].pc # "reading"
  BY <1>1, <1>2 DEF Ask
<1>5. CallSound(new, view)
  BY <1>3 DEF CallSound
<1>6. cache' \in CacheRecords
  BY <1>4 DEF ReadsInv
<1> QED BY <1>3, <1>4, <1>5, <1>6, OneCall

LEMMA PinKeeps == ASSUME PinnedConstants, ReadsInv, NEW r \in Readers, NEW b \in Heads, Pin(r, b) PROVE ReadsInv'
<1>1. PICK c \in CallRecords : c = calls[r] /\ c.pc = "block" /\ c.got = <<>>
  BY DEF ReadsInv, CallSound, Pin
<1>2. c.at \in {NoHead, b} /\ b # NoHead /\ view \in Heads
  BY <1>1 DEF Pin, BlockFor, PinnedConstants, ReadsInv
<1>3. PICK k \in CacheRecords : k = cache /\ CacheSound(k, calls)
  BY DEF ReadsInv
<1>4. view' = view
  BY DEF Pin
<1>5. CASE c.kind \in Snapshots /\ CacheHit(b) /\ cache' = cache /\ calls' = [calls EXCEPT ![r] =
              IF k.by = NoHead
              THEN [c EXCEPT !.pc = "answered", !.block = k.block, !.got = k.got, !.left = k.left]
              ELSE [c EXCEPT !.pc = "joined", !.block = k.block, !.by = k.by]]
  <2>1. k.block = b
    BY <1>3, <1>5 DEF CacheHit
  <2>2. cache' \in CacheRecords
    BY <1>3, <1>5
  <2>3. CASE k.by = NoHead
    <3>1. PICK got \in Seq(Heads), left \in Leaving : got = k.got /\ left = k.left
      BY DEF CacheRecords
    <3>2. PICK new : new = [c EXCEPT !.pc = "answered", !.block = b, !.got = got, !.left = left]
      OBVIOUS
    <3>3. new \in CallRecords /\ new.pc = "answered" /\ new.block = b /\ new.got = got /\ new.left = left /\ new.kind = c.kind /\ new.at = c.at
      BY <3>2 DEF CallRecords, CallPcs, BlockOrNone
    <3>4. left # "away" /\ \A i \in 1 .. Len(got) : got[i] = b \/ left = "back"
      BY <1>2, <1>3, <2>1, <2>3, <3>1 DEF CacheSound
    <3>5. CallSound(new, view)
      BY <1>2, <1>5, <3>3, <3>4 DEF CallSound, Snapshots
    <3>6. calls' = [calls EXCEPT ![r] = new]
      BY <1>5, <2>1, <2>3, <3>1, <3>2
    <3> QED BY <1>1, <1>4, <1>5, <2>2, <3>3, <3>5, <3>6, OneCall
  <2>4. CASE k.by # NoHead
    <3>1. PICK by \in Readers : by = k.by
      BY <2>4 DEF CacheRecords, ReaderOrNone
    <3>2. PICK new : new = [c EXCEPT !.pc = "joined", !.block = b, !.by = by]
      OBVIOUS
    <3>3. new \in CallRecords /\ new.pc = "joined" /\ new.block = b /\ new.by = by /\ new.kind = c.kind /\ new.at = c.at
      BY <3>2 DEF CallRecords, CallPcs, BlockOrNone, ReaderOrNone
    <3>4. calls[by].pc = "reading" /\ calls[by].block = b /\ calls[by].kind \in Snapshots
      BY <1>3, <2>1, <2>4, <3>1 DEF CacheSound
    <3>5. CallSound(new, view) /\ JoinSound(new, calls) /\ by # r
      BY <1>1, <1>2, <1>5, <3>3, <3>4 DEF CallSound, JoinSound
    <3>6. calls' = [calls EXCEPT ![r] = new]
      BY <1>5, <2>1, <2>4, <3>1, <3>2
    <3> QED BY <1>1, <1>4, <1>5, <2>2, <3>3, <3>5, <3>6, OneCall
  <2> QED BY <2>3, <2>4
<1>6. PICK left \in Leaving : left = (IF OnChain(b) THEN "never" ELSE "away")
  BY DEF Leaving
<1>7. PICK new : new = [c EXCEPT !.pc = "reading", !.block = b, !.left = left]
  OBVIOUS
<1>8. new \in CallRecords /\ new.pc = "reading" /\ new.block = b /\ new.got = <<>> /\ new.left = left /\ new.kind = c.kind /\ new.at = c.at
  BY <1>1, <1>7 DEF CallRecords, CallPcs, BlockOrNone
<1>9. CallSound(new, view)
  BY <1>2, <1>6, <1>8 DEF CallSound, OnChain
<1>10. CASE c.kind \in Snapshots /\ calls' = [calls EXCEPT ![r] = new] /\ cache' = [NoCache EXCEPT !.block = b, !.by = r]
  <2>1. PICK none \in CacheRecords : none = NoCache
    BY IdleCall
  <2>2. PICK next : next = [none EXCEPT !.block = b, !.by = r]
    OBVIOUS
  <2>3. next \in CacheRecords /\ next.block = b /\ next.by = r
    BY <2>2 DEF CacheRecords, BlockOrNone, ReaderOrNone
  <2>4. cache' = next /\ calls'[r] = new /\ r # NoHead
    BY <1>10, <2>1, <2>2 DEF ReadsInv, PinnedConstants
  <2>5. CacheSound(cache', calls')
    BY <1>8, <1>10, <2>3, <2>4 DEF CacheSound
  <2> QED BY <1>1, <1>4, <1>8, <1>9, <1>10, <2>3, <2>4, <2>5, OneCall
<1>11. CASE calls' = [calls EXCEPT ![r] = new] /\ cache' = cache
  <2>1. cache' \in CacheRecords
    BY <1>3, <1>11
  <2> QED BY <1>1, <1>4, <1>8, <1>9, <1>11, <2>1, OneCall
<1> QED BY <1>1, <1>3, <1>5, <1>6, <1>7, <1>10, <1>11 DEF Pin, Snapshots

LEMMA GotAppended ==
    ASSUME NEW got \in Seq(Heads), NEW b \in Heads, \A i \in 1 .. Len(got) : got[i] = b
    PROVE  \A i \in 1 .. Len(Append(got, b)) : Append(got, b)[i] = b
  OBVIOUS

LEMMA ReadKeeps == ASSUME PinnedConstants, ReadsInv, NEW r \in Readers, Read(r) PROVE ReadsInv'
<1>1. PICK c \in CallRecords : c = calls[r] /\ c.pc = "reading" /\ CallSound(c, view)
  BY DEF ReadsInv, Read
<1>2. PICK b \in Replies(c) : calls' = [calls EXCEPT ![r].got = Append(@, b), ![r].tries = 0]
  BY <1>1 DEF Read
<1>3. c.block \in Heads /\ view \in Heads /\ c.got \in Seq(Heads) /\ ChainFacts(view)
  BY <1>1, ChainHolds DEF CallSound, ReadsInv, CallRecords
<1>4. b \in Heads /\ (b = c.block \/ (c.left # "never" /\ c.kind # "capture"))
  <2>1. CASE c.kind = "capture"
    BY <1>2, <1>3, <2>1 DEF Replies
  <2>2. CASE c.kind # "capture"
    <3>1. b \in Chain[view] /\ HeadNumber[b] = HeadNumber[c.block]
      BY <1>2, <2>2 DEF Replies, At
    <3>2. c.block \in Chain[view] => b = c.block
      BY <1>3, <3>1 DEF ChainFacts
    <3>3. c.block \notin Chain[view] => c.left = "away"
      BY <1>1 DEF CallSound
    <3> QED BY <1>3, <2>2, <3>1, <3>2, <3>3 DEF ChainFacts
  <2> QED BY <2>1, <2>2
<1>5. PICK got \in Seq(Heads) : got = Append(c.got, b) /\ \A i \in 1 .. Len(got) : got[i] = c.block \/ (c.left # "never" /\ c.kind # "capture")
  <2>1. \A i \in 1 .. Len(c.got) : c.got[i] = c.block \/ (c.left # "never" /\ c.kind # "capture")
    BY <1>1 DEF CallSound
  <2>2. Append(c.got, b) \in Seq(Heads)
    BY <1>3, <1>4
  <2>3. CASE c.left # "never" /\ c.kind # "capture"
    BY <2>2, <2>3
  <2>4. CASE ~(c.left # "never" /\ c.kind # "capture")
    <3>1. b = c.block /\ \A i \in 1 .. Len(c.got) : c.got[i] = b
      BY <1>4, <2>1, <2>4
    <3>2. \A i \in 1 .. Len(Append(c.got, b)) : Append(c.got, b)[i] = b
      BY <1>3, <1>4, <3>1, GotAppended
    <3> QED BY <2>2, <3>1, <3>2
  <2> QED BY <2>3, <2>4
<1>6. PICK new : new = [c EXCEPT !.got = got, !.tries = 0]
  OBVIOUS
<1>7. /\ new \in CallRecords /\ new.pc = "reading" /\ new.block = c.block /\ new.got = got /\ new.left = c.left /\ new.kind = c.kind
      /\ new.at = c.at
  BY <1>1, <1>6 DEF CallRecords
<1>8. calls' = [calls EXCEPT ![r] = new] /\ view' = view /\ cache' = cache
  BY <1>1, <1>2, <1>5, <1>6 DEF Read, ReadsInv, CallRecords
<1>9. CallSound(new, view)
  BY <1>1, <1>5, <1>7 DEF CallSound
<1>10. cache' \in CacheRecords
  BY <1>8 DEF ReadsInv
<1> QED BY <1>1, <1>7, <1>8, <1>9, <1>10, OneCall

LEMMA RetryKeeps == ASSUME ReadsInv, NEW r \in Readers, Retry(r) PROVE ReadsInv'
<1>1. PICK c \in CallRecords : c = calls[r] /\ c.pc = "reading" /\ CallSound(c, view)
  BY DEF ReadsInv, Retry
<1>2. PICK n \in Nat : n = c.tries + 1
  BY DEF CallRecords
<1>3. PICK new : new = [c EXCEPT !.tries = n]
  OBVIOUS
<1>4. /\ new \in CallRecords /\ new.pc = c.pc /\ new.block = c.block /\ new.got = c.got /\ new.left = c.left /\ new.kind = c.kind
      /\ new.at = c.at /\ new.by = c.by
  BY <1>3 DEF CallRecords
<1>5. calls' = [calls EXCEPT ![r] = new] /\ view' = view /\ cache' = cache
  BY <1>1, <1>2, <1>3 DEF Retry, ReadsInv, CallRecords
<1>6. CallSound(new, view)
  BY <1>1, <1>4 DEF CallSound
<1>7. cache' \in CacheRecords
  BY <1>5 DEF ReadsInv
<1> QED BY <1>1, <1>4, <1>5, <1>6, <1>7, OneCall

\* Several calls end with the read they share.
LEMMA CallsEnd ==
    ASSUME ReadsInv, NEW r \in Readers, view' = view, calls' \in [Readers -> CallRecords],
           \A q \in Readers \ Sharing(r) : calls'[q] = calls[q],
           \A q \in Sharing(r) : calls'[q].pc \in {"answered", "failed"} /\ CallSound(calls'[q], view),
           cache' \in CacheRecords, CacheSound(cache', calls') \/ (cache' = cache /\ cache.by # r)
    PROVE  ReadsInv'
<1>1. Sharing(r) \subseteq Readers /\ r \in Sharing(r)
  BY DEF Sharing
<1>2. view' \in Heads
  BY DEF ReadsInv
<1>3. ASSUME NEW q \in Readers PROVE CallSound(calls'[q], view')
  BY DEF ReadsInv
<1>4. ASSUME NEW q \in Readers PROVE JoinSound(calls'[q], calls')
  <2>1. CASE q \in Sharing(r)
    BY <2>1 DEF JoinSound
  <2>2. CASE q \notin Sharing(r) /\ calls[q].pc = "joined"
    <3>1. calls'[q] = calls[q] /\ calls[q].by # r /\ calls[q].by \in Readers /\ JoinSound(calls[q], calls)
      BY <2>2 DEF Sharing, ReadsInv, CallSound
    <3>2. calls[q].by \notin Sharing(r)
      BY <2>2, <3>1 DEF Sharing, JoinSound
    <3>3. calls'[calls[q].by] = calls[calls[q].by]
      BY <3>1, <3>2
    <3> QED BY <3>1, <3>3 DEF JoinSound
  <2>3. CASE q \notin Sharing(r) /\ calls[q].pc # "joined"
    BY <2>3 DEF JoinSound
  <2> QED BY <2>1, <2>2, <2>3
<1>5. CacheSound(cache', calls')
  <2>1. CASE cache' = cache /\ cache.by # r
    <3>1. CacheSound(cache, calls)
      BY DEF ReadsInv
    <3>2. CASE cache.by = NoHead
      BY <2>1, <3>1, <3>2 DEF CacheSound
    <3>3. CASE cache.by # NoHead
      <4>1. cache.by \in Readers /\ calls[cache.by].pc = "reading"
        BY <3>1, <3>3 DEF ReadsInv, CacheRecords, ReaderOrNone, CacheSound
      <4>2. cache.by \notin Sharing(r)
        BY <2>1, <4>1 DEF Sharing
      <4>3. calls'[cache.by] = calls[cache.by]
        BY <4>1, <4>2
      <4> QED BY <2>1, <3>1, <3>3, <4>3 DEF CacheSound
    <3> QED BY <3>2, <3>3
  <2> QED BY <2>1
<1> QED BY <1>2, <1>3, <1>4, <1>5 DEF ReadsInv

LEMMA AnswerKeeps == ASSUME PinnedConstants, ReadsInv, NEW r \in Readers, Answer(r) PROVE ReadsInv'
<1>1. PICK c \in CallRecords : c = calls[r] /\ c.pc = "reading" /\ CallSound(c, view)
  BY DEF ReadsInv, Answer
<1>2. c.left # "away" /\ Len(c.got) = Len(ReadsOf(c.kind))
  BY <1>1 DEF Answer, StillCanonical, OnChain, CallSound
<1>3. PICK got \in Seq(Heads), left \in Leaving : got = c.got /\ left = c.left
  BY DEF CallRecords
<1>4. \A i \in 1 .. Len(got) : got[i] = c.block \/ (left = "back" /\ c.kind # "capture")
  BY <1>1, <1>2, <1>3 DEF CallSound, Leaving
<1>5. /\ view' = view
      /\ \A q \in Readers : calls'[q] = IF q \in Sharing(r)
             THEN [calls[q] EXCEPT !.pc = "answered", !.got = got, !.left = left, !.by = NoHead] ELSE calls[q]
      /\ calls' = [q \in Readers |-> calls'[q]]
      /\ cache' = IF cache.by = r THEN [cache EXCEPT !.by = NoHead, !.got = got, !.left = left] ELSE cache
  BY <1>1, <1>3 DEF Answer
<1>6. ASSUME NEW q \in Sharing(r) PROVE q \in Readers /\ calls'[q] \in CallRecords /\ calls'[q].pc = "answered" /\ CallSound(calls'[q], view)
  <2>1. q \in Readers
    BY DEF Sharing
  <2>2. PICK d \in CallRecords : d = calls[q]
    BY <2>1 DEF ReadsInv
  <2>3. PICK new : new = [d EXCEPT !.pc = "answered", !.got = got, !.left = left, !.by = NoHead]
    OBVIOUS
  <2>4. /\ new \in CallRecords /\ new.pc = "answered" /\ new.got = got /\ new.left = left /\ new.block = d.block /\ new.at = d.at
        /\ new.kind = d.kind
    BY <2>3 DEF CallRecords, CallPcs, ReaderOrNone
  <2>5. calls'[q] = new
    BY <1>5, <2>1, <2>2, <2>3
  <2>6. d.block = c.block /\ d.at \in {NoHead, d.block} /\ d.block \in Heads /\ (d.kind = c.kind \/ d.kind \in Snapshots)
    <3>1. CASE q = r
      BY <1>1, <2>2, <3>1 DEF CallSound
    <3>2. CASE q # r
      <4>1. d.pc = "joined" /\ d.by = r /\ CallSound(d, view) /\ JoinSound(d, calls)
        BY <2>2, <3>2 DEF Sharing, ReadsInv
      <4> QED BY <1>1, <4>1 DEF CallSound, JoinSound
    <3> QED BY <3>1, <3>2
  <2>7. \A i \in 1 .. Len(got) : got[i] = d.block \/ (left = "back" /\ d.kind # "capture")
    BY <1>4, <2>6 DEF Snapshots
  <2>8. CallSound(new, view)
    BY <1>2, <1>3, <2>4, <2>6, <2>7 DEF CallSound
  <2> QED BY <2>1, <2>4, <2>5, <2>8
<1>7. \A q \in Readers \ Sharing(r) : calls'[q] = calls[q]
  BY <1>5
<1>8. calls' \in [Readers -> CallRecords]
  <2>1. ASSUME NEW q \in Readers PROVE calls'[q] \in CallRecords
    BY <1>6, <1>7 DEF ReadsInv
  <2> QED BY <1>5, <2>1
<1>9. CASE cache.by = r
  <2>1. PICK k \in CacheRecords : k = cache /\ CacheSound(k, calls)
    BY DEF ReadsInv
  <2>2. PICK next : next = [k EXCEPT !.by = NoHead, !.got = got, !.left = left]
    OBVIOUS
  <2>3. next \in CacheRecords /\ next.by = NoHead /\ next.got = got /\ next.left = left /\ next.block = k.block
    BY <2>2 DEF CacheRecords, ReaderOrNone
  <2>4. cache' = next
    BY <1>5, <1>9, <2>1, <2>2
  <2>5. k.block = c.block /\ c.kind \in Snapshots
    BY <1>1, <1>9, <2>1 DEF CacheSound, PinnedConstants
  <2>6. Len(got) = 2
    BY <1>2, <1>3, <2>5 DEF ReadsOf, Snapshots, SnapshotReads
  <2>7. CacheSound(cache', calls')
    BY <1>2, <1>3, <1>4, <2>3, <2>4, <2>5, <2>6 DEF CacheSound
  <2> QED BY <1>5, <1>6, <1>7, <1>8, <2>3, <2>4, <2>7, CallsEnd
<1>10. CASE cache.by # r
  <2>1. cache' = cache /\ cache' \in CacheRecords
    BY <1>5, <1>10 DEF ReadsInv
  <2> QED BY <1>5, <1>6, <1>7, <1>8, <1>10, <2>1, CallsEnd
<1> QED BY <1>9, <1>10

LEMMA FailKeeps == ASSUME PinnedConstants, ReadsInv, NEW r \in Readers, Fail(r) PROVE ReadsInv'
<1>1. /\ view' = view
      /\ \A q \in Readers : calls'[q] = IF q \in Sharing(r) THEN Failed(calls[q]) ELSE calls[q]
      /\ calls' = [q \in Readers |-> calls'[q]]
      /\ cache' = IF cache.by = r THEN NoCache ELSE cache
  BY DEF Fail, Forget
<1>2. ASSUME NEW q \in Sharing(r) PROVE q \in Readers /\ calls'[q] \in CallRecords /\ calls'[q].pc = "failed" /\ CallSound(calls'[q], view)
  <2>1. q \in Readers
    BY DEF Sharing
  <2>2. PICK d \in CallRecords : d = calls[q]
    BY <2>1 DEF ReadsInv
  <2>3. PICK none \in CallRecords : none = Idle
    BY IdleCall
  <2>4. PICK kind \in Kinds \cup {"none"} : kind = d.kind
    BY DEF CallRecords
  <2>5. PICK new : new = [none EXCEPT !.kind = kind, !.pc = "failed"]
    OBVIOUS
  <2>6. new \in CallRecords /\ new.pc = "failed"
    BY <2>5 DEF CallRecords, CallPcs
  <2>7. calls'[q] = new
    BY <1>1, <2>1, <2>2, <2>3, <2>4, <2>5 DEF Failed
  <2> QED BY <2>1, <2>6, <2>7 DEF CallSound
<1>3. \A q \in Readers \ Sharing(r) : calls'[q] = calls[q]
  BY <1>1
<1>4. calls' \in [Readers -> CallRecords]
  <2>1. ASSUME NEW q \in Readers PROVE calls'[q] \in CallRecords
    BY <1>2, <1>3 DEF ReadsInv
  <2> QED BY <1>1, <2>1
<1>5. cache' \in CacheRecords /\ (CacheSound(cache', calls') \/ (cache' = cache /\ cache.by # r))
  BY <1>1, IdleCall DEF ReadsInv, CacheSound
<1> QED BY <1>1, <1>2, <1>3, <1>4, <1>5, CallsEnd

LEMMA ChangeKeeps == ASSUME ReadsInv, NEW b \in Heads, Change(b) PROVE ReadsInv'
<1>1. /\ view' = b /\ cache' = cache /\ calls' = [q \in Readers |-> calls'[q]]
      /\ \A q \in Readers : calls'[q] = IF calls[q].pc = "reading"
                                        THEN [calls[q] EXCEPT !.left = Left(@, calls[q].block \in Chain[b])] ELSE calls[q]
  BY DEF Change
<1>2. ASSUME NEW q \in Readers
      PROVE  /\ calls'[q] \in CallRecords /\ CallSound(calls'[q], b)
             /\ calls'[q].pc = calls[q].pc /\ calls'[q].kind = calls[q].kind /\ calls'[q].block = calls[q].block /\ calls'[q].by = calls[q].by
  <2>1. PICK d \in CallRecords : d = calls[q] /\ CallSound(d, view)
    BY DEF ReadsInv
  <2>2. CASE d.pc = "reading"
    <3>1. PICK left \in Leaving : left = Left(d.left, d.block \in Chain[b])
      BY DEF Left, Leaving, CallRecords
    <3>2. (left = "away" <=> d.block \notin Chain[b]) /\ (d.left # "never" => left # "never")
      BY <3>1 DEF Left
    <3>3. PICK new : new = [d EXCEPT !.left = left]
      OBVIOUS
    <3>4. /\ new \in CallRecords /\ new.pc = d.pc /\ new.kind = d.kind /\ new.block = d.block /\ new.by = d.by /\ new.got = d.got
          /\ new.at = d.at /\ new.left = left
      BY <3>3 DEF CallRecords
    <3>5. calls'[q] = new
      BY <1>1, <2>1, <2>2, <3>1, <3>3
    <3>6. CallSound(new, b)
      BY <2>1, <2>2, <3>2, <3>4 DEF CallSound
    <3> QED BY <2>1, <3>4, <3>5, <3>6
  <2>3. CASE d.pc # "reading"
    BY <1>1, <2>1, <2>3 DEF CallSound
  <2> QED BY <2>2, <2>3
<1>3. calls' \in [Readers -> CallRecords]
  BY <1>1, <1>2
<1>4. ASSUME NEW q \in Readers PROVE JoinSound(calls'[q], calls')
  <2>1. JoinSound(calls[q], calls) /\ (calls[q].pc = "joined" => calls[q].by \in Readers)
    BY DEF ReadsInv, CallSound
  <2> QED BY <1>2, <2>1 DEF JoinSound
<1>5. CacheSound(cache', calls')
  <2>1. CacheSound(cache, calls) /\ (cache.by # NoHead => cache.by \in Readers)
    BY DEF ReadsInv, CacheRecords, ReaderOrNone
  <2> QED BY <1>1, <1>2, <2>1 DEF CacheSound
<1> QED BY <1>1, <1>2, <1>3, <1>4, <1>5 DEF ReadsInv

LEMMA ReadsKeep == ASSUME PinnedConstants PROVE ReadsInv /\ [PinnedNext]_pinnedVars => ReadsInv'
<1> SUFFICES ASSUME ReadsInv, [PinnedNext]_pinnedVars PROVE ReadsInv'
  OBVIOUS
<1>1. CASE UNCHANGED pinnedVars \/ Initialize
  BY <1>1 DEF pinnedVars, Initialize, ReadsInv
<1>2. ASSUME NEW r \in Readers, \E kind \in Kinds, at \in Heads \cup {NoHead} : Ask(r, kind, at) PROVE ReadsInv'
  BY <1>2, AskKeeps DEF BlockOrNone
<1>3. ASSUME NEW r \in Readers, (\E b \in Heads : Pin(r, b)) \/ Read(r) \/ Retry(r) \/ Answer(r) \/ Fail(r) PROVE ReadsInv'
  BY <1>3, PinKeeps, ReadKeeps, RetryKeeps, AnswerKeeps, FailKeeps
<1>4. ASSUME NEW b \in Heads, Change(b) PROVE ReadsInv'
  BY <1>4, ChangeKeeps
<1> QED BY <1>1, <1>2, <1>3, <1>4 DEF PinnedNext

\* However often the chain changes between the reads of any number of calls, an answer is of the block
\* it names, and the shared snapshot is a finished one or one still read (snapshot, assertCanonical,
\* capturePinnedState), for every forest of blocks.
THEOREM ReadsStayPinned == PinnedConstants /\ PinnedSpec => [](AnswersPinned /\ CacheIsLive)
<1> SUFFICES ASSUME PinnedConstants PROVE PinnedSpec => [](AnswersPinned /\ CacheIsLive)
  OBVIOUS
<1>1. ReadsInv => AnswersPinned /\ CacheIsLive
  <2> SUFFICES ASSUME ReadsInv PROVE AnswersPinned /\ CacheIsLive
    OBVIOUS
  <2>1. AnswersPinned
    BY DEF ReadsInv, CallSound, AnswersPinned
  <2>2. CacheIsLive
    BY DEF ReadsInv, CacheSound, JoinSound, CacheIsLive, SnapshotReads
  <2> QED BY <2>1, <2>2
<1> QED BY <1>1, ReadsStart, ReadsKeep, PTL DEF PinnedSpec

----------------------------------------------------------------------------
(* The market's accounts *)

Emails == {u.email : u \in VerifiedUsers}
Subjects == {u.subject : u \in VerifiedUsers}
AccountRows == [kind : {"FREE", "GOOGLE", "WALLET_TEST", "DELETED"}, email : OrNull(Emails), subject : OrNull(Subjects),
                wallet : OrNull(LinkWallets)]
LinkRows == [account : AccountIds, wallet : LinkWallets, used : BOOLEAN, live : BOOLEAN]
SessionRows == [token : Nat, account : AccountIds, wallet : LinkWallets, live : BOOLEAN]
QuoteRows == [account : AccountIds, owner : LinkWallets, via : OrNull(LinkWallets)]
ClaimRows == [account : AccountIds, wallet : LinkWallets, email : OrNull(Emails)]
RequestRows == [id : Nat, kind : {"challenge", "session", "quote", "claim"}, pc : {"asked", "reserve", "save"}, required : BOOLEAN,
                owner : LinkWallets, token : OrNull(Nat), user : OrNull(VerifiedUsers), account : AccountIds \cup {0},
                via : OrNull(LinkWallets)]
Rooms == [links : Nat, logins : Nat, requests : Nat, atOnce : Nat, expiries : Nat, switches : Nat, migrated : BOOLEAN]

\* What is asked for: a request that waits for its voucher or quote has its account, and speaks for
\* the wallet of its session, if it has one.
RequestSound(r) == r.pc \in {"reserve", "save"} => r.account \in AccountIds /\ r.via \in {NoValue, r.owner}
AskedInv ==
    /\ linkChallenges \subseteq LinkRows /\ required \in BOOLEAN /\ room \in Rooms
    /\ requests \subseteq RequestRows /\ \A r \in requests : RequestSound(r)

StoreTyped ==
    /\ registry \in [AccountIds -> AccountRows] /\ testSessions \subseteq SessionRows
    /\ testIdentities \in [LinkWallets -> OrNull(AccountIds)]
    /\ vouchers \in [AccountIds -> OrNull(LinkWallets)]
    /\ quotes \subseteq QuoteRows /\ claimLog \subseteq ClaimRows

\* A row that is not in use is empty, and only a verified account has an email.
RowSound(x) ==
    /\ x.wallet # NoValue => x.kind \in {"GOOGLE", "WALLET_TEST"}
    /\ x.email # NoValue => x.kind = "GOOGLE"

NamesOnce ==
    \A a, b \in AccountIds : a # b =>
        /\ registry[a].wallet # NoValue => registry[a].wallet # registry[b].wallet
        /\ registry[a].email # NoValue => registry[a].email # registry[b].email

HistoryOpen == \A a \in AccountIds : HasHistory(a) => Open(a)

\* A voucher's wallet is its own, its claim is in the log, and a verified email of the log is still the
\* account's.
ClaimsKept ==
    /\ \A a, b \in AccountIds : a # b /\ vouchers[a] # NoValue => vouchers[a] # vouchers[b]
    /\ \A c \in claimLog : /\ vouchers[c.account] = c.wallet
                           /\ c.email # NoValue => registry[c.account].email = c.email

AccountsInv ==
    /\ StoreTyped /\ (\A a \in AccountIds : RowSound(registry[a])) /\ NamesOnce /\ HistoryOpen /\ ClaimsKept
    /\ SpeaksForItsWallet

\* The store is left alone.
LEMMA StoreLeft ==
    ASSUME AccountsInv, UNCHANGED <<registry, testIdentities, testSessions, vouchers, quotes, claimLog>>
    PROVE  AccountsInv'
  BY DEF AccountsInv, StoreTyped, NamesOnce, HistoryOpen, HasHistory, Open, ClaimsKept, SpeaksForItsWallet

LEMMA FreeTyped == Free \in AccountRows /\ Free.email = NoValue /\ Free.wallet = NoValue /\ Free.kind = "FREE"
  BY DEF Free, AccountRows, OrNull

LEMMA VerifiedTyped ==
    ASSUME RegistryConstants, NEW u \in VerifiedUsers, NEW w \in OrNull(LinkWallets)
    PROVE  /\ Verified(u, w) \in AccountRows /\ Verified(u, w).email = u.email /\ Verified(u, w).wallet = w
           /\ Verified(u, w).kind = "GOOGLE" /\ u.email # NoValue /\ Verified(u, w) # Free /\ RowSound(Verified(u, w))
<1>1. u.email \in OrNull(Emails) /\ u.subject \in OrNull(Subjects) /\ u.email # NoValue
  BY DEF Emails, Subjects, OrNull, RegistryConstants
<1>2. Verified(u, w) \in AccountRows /\ Verified(u, w).email = u.email /\ Verified(u, w).wallet = w /\ Verified(u, w).kind = "GOOGLE"
  BY <1>1 DEF Verified, AccountRows
<1>3. Verified(u, w) # Free
  BY <1>2, FreeTyped
<1> QED BY <1>1, <1>2, <1>3 DEF RowSound

\* The next free number.
LEMMA NewAccountIs ==
    ASSUME RegistryConstants, \E a \in AccountIds : registry[a].kind = "FREE"
    PROVE  NewAccount \in AccountIds /\ registry[NewAccount].kind = "FREE"
<1> DEFINE Frees == {a \in AccountIds : registry[a].kind = "FREE"}
<1>1. Frees \in SUBSET Nat /\ Frees # {}
  BY DEF AccountIds
<1>2. PICK m \in Frees : \A p \in Frees : m <= p
  <2> HIDE DEF Frees
  <2> QED BY <1>1, LeastNumber
<1>3. m \in Nat /\ LastAccount \in Nat
  BY <1>1 DEF RegistryConstants
<1>4. \A b \in 1 .. m - 1 : b \in AccountIds /\ ~(m <= b)
  BY <1>2, <1>3 DEF AccountIds
<1>5. \E a \in AccountIds : registry[a].kind = "FREE" /\ \A b \in 1 .. a - 1 : registry[b].kind # "FREE"
  BY <1>2, <1>4
<1> QED BY <1>5 DEF NewAccount

LEMMA AccountsStart == RegistryConstants /\ RegistryInit => AccountsInv /\ AskedInv
<1> SUFFICES ASSUME RegistryConstants, RegistryInit PROVE AccountsInv /\ AskedInv
  OBVIOUS
<1>1. PICK first : /\ first = Free \/ \E u \in VerifiedUsers, w \in LinkWallets : first = Verified(u, w)
                   /\ registry = [a \in AccountIds |-> IF a = 1 THEN first ELSE Free]
                   /\ vouchers = [a \in AccountIds |-> IF a = 1 THEN first.wallet ELSE NoValue]
                   /\ claimLog = IF first = Free THEN {} ELSE {[account |-> 1, wallet |-> first.wallet, email |-> first.email]}
  BY DEF RegistryInit
<1>2. first \in AccountRows /\ RowSound(first) /\ (first # Free => first.wallet \in LinkWallets /\ first.email \in Emails /\ first.kind = "GOOGLE")
  BY <1>1, FreeTyped, VerifiedTyped DEF RowSound, OrNull, Emails
<1>3. testSessions = {} /\ quotes = {} /\ requests = {} /\ linkChallenges = {} /\ required = FALSE /\ room \in Rooms
  BY DEF RegistryInit, RegistryConstants, Rooms
<1>4. testIdentities = [w \in LinkWallets |-> NoValue]
  BY DEF RegistryInit
<1>5. 1 \in AccountIds
  BY DEF RegistryConstants, AccountIds
<1>6. claimLog \subseteq ClaimRows
  <2>1. CASE first # Free
    <3>1. PICK w \in LinkWallets, e \in Emails : w = first.wallet /\ e = first.email
      BY <1>2, <2>1
    <3>2. [account |-> 1, wallet |-> w, email |-> e] \in ClaimRows
      BY <1>5 DEF ClaimRows, OrNull
    <3> QED BY <1>1, <2>1, <3>1, <3>2
  <2> QED BY <1>1, <2>1
<1>7. StoreTyped
  <2>1. registry \in [AccountIds -> AccountRows]
    BY <1>1, <1>2, FreeTyped
  <2>2. first.wallet \in OrNull(LinkWallets)
    BY <1>2 DEF AccountRows
  <2>3. vouchers \in [AccountIds -> OrNull(LinkWallets)]
    BY <1>1, <2>2 DEF OrNull
  <2>4. testIdentities \in [LinkWallets -> OrNull(AccountIds)]
    BY <1>4 DEF OrNull
  <2> QED BY <1>3, <1>6, <2>1, <2>3, <2>4 DEF StoreTyped
<1>8. \A a \in AccountIds : RowSound(registry[a])
  BY <1>1, <1>2, FreeTyped DEF RowSound
<1>9. NamesOnce
  BY <1>1, FreeTyped DEF NamesOnce
<1>10. HistoryOpen
  <2>1. \A a \in AccountIds : HasHistory(a) => vouchers[a] # NoValue
    BY <1>3, <1>4, RegistryConstants DEF HasHistory, RegistryConstants
  <2>2. \A a \in AccountIds : vouchers[a] # NoValue => a = 1 /\ first # Free
    BY <1>1, FreeTyped
  <2>3. \A a \in AccountIds : vouchers[a] # NoValue => Open(a)
    BY <1>1, <1>2, <2>2 DEF Open
  <2> QED BY <2>1, <2>3 DEF HistoryOpen
<1>11. ClaimsKept
  <2>1. \A c \in claimLog : c.account = 1 /\ c.wallet = first.wallet /\ c.email = first.email
    BY <1>1
  <2>2. \A a, b \in AccountIds : a # b /\ vouchers[a] # NoValue => vouchers[a] # vouchers[b]
    BY <1>1, FreeTyped
  <2> QED BY <1>1, <1>5, <2>1, <2>2 DEF ClaimsKept
<1>12. SpeaksForItsWallet
  BY <1>3 DEF SpeaksForItsWallet
<1>13. AskedInv
  BY <1>3 DEF AskedInv
<1> QED BY <1>7, <1>8, <1>9, <1>10, <1>11, <1>12, <1>13 DEF AccountsInv

\* Only the registry changes: no account with a history closes, and no email of a claim is lost.
LEMMA RegistryMoves ==
    ASSUME RegistryConstants, AccountsInv, registry' \in [AccountIds -> AccountRows], \A a \in AccountIds : RowSound(registry'[a]), NamesOnce',
           UNCHANGED <<testIdentities, testSessions, vouchers, quotes, claimLog>>,
           \A a \in AccountIds : Open(a) /\ HasHistory(a) => registry'[a].kind \in {"GOOGLE", "WALLET_TEST"},
           \A a \in AccountIds : HasHistory(a) /\ registry[a].email # NoValue => registry'[a].email = registry[a].email
    PROVE  AccountsInv'
<1>1. StoreTyped' /\ SpeaksForItsWallet'
  BY DEF AccountsInv, StoreTyped, SpeaksForItsWallet
<1>2. \A a \in AccountIds : HasHistory(a)' <=> HasHistory(a)
  BY DEF HasHistory
<1>3. HistoryOpen'
  <2>1. ASSUME NEW a \in AccountIds, HasHistory(a)' PROVE Open(a)'
    <3>1. HasHistory(a) /\ Open(a)
      BY <1>2, <2>1 DEF AccountsInv, HistoryOpen
    <3> QED BY <3>1 DEF Open
  <2> QED BY <2>1 DEF HistoryOpen
<1>4. ClaimsKept'
  <2>1. ASSUME NEW c \in claimLog, c.email # NoValue PROVE registry'[c.account].email = c.email
    <3>1. c.account \in AccountIds /\ vouchers[c.account] = c.wallet /\ c.wallet \in LinkWallets /\ registry[c.account].email = c.email
      BY <2>1 DEF AccountsInv, StoreTyped, ClaimRows, ClaimsKept
    <3>2. HasHistory(c.account)
      BY <3>1 DEF HasHistory, RegistryConstants
    <3> QED BY <2>1, <3>1, <3>2
  <2> QED BY <2>1 DEF AccountsInv, ClaimsKept
<1> QED BY <1>1, <1>3, <1>4 DEF AccountsInv

\* A free row has no history.
LEMMA FreeHasNone ==
    ASSUME AccountsInv, NEW a \in AccountIds, registry[a].kind = "FREE"
    PROVE  ~HasHistory(a) /\ registry[a].email = NoValue /\ registry[a].wallet = NoValue
  BY DEF AccountsInv, HistoryOpen, Open, RowSound

LEMMA SignInKeeps == ASSUME RegistryConstants, AccountsInv, NEW u \in VerifiedUsers, SignIn(u) PROVE AccountsInv'
<1>1. PICK n \in AccountIds : n = NewAccount /\ registry[n].kind = "FREE"
  BY NewAccountIs DEF SignIn
<1>2. PICK new \in AccountRows : new = Verified(u, NoValue) /\ new.email = u.email /\ new.wallet = NoValue /\ new.kind = "GOOGLE"
                                 /\ u.email # NoValue /\ RowSound(new)
  BY VerifiedTyped DEF OrNull
<1>3. registry' = [registry EXCEPT ![n] = new] /\ UNCHANGED <<testIdentities, testSessions, vouchers, quotes, claimLog>>
  BY <1>1, <1>2 DEF SignIn
<1>4. registry \in [AccountIds -> AccountRows] /\ \A a \in AccountIds : registry[a].email # u.email
  BY DEF AccountsInv, StoreTyped, SignIn
<1>5. registry' \in [AccountIds -> AccountRows] /\ \A a \in AccountIds : RowSound(registry'[a])
  BY <1>2, <1>3, <1>4 DEF AccountsInv
<1>6. NamesOnce'
  BY <1>2, <1>3, <1>4 DEF AccountsInv, NamesOnce
<1>7. ~HasHistory(n)
  BY <1>1, FreeHasNone
<1>8. \A a \in AccountIds : Open(a) /\ HasHistory(a) => registry'[a].kind \in {"GOOGLE", "WALLET_TEST"}
  BY <1>3, <1>4, <1>7 DEF Open
<1>9. \A a \in AccountIds : HasHistory(a) /\ registry[a].email # NoValue => registry'[a].email = registry[a].email
  BY <1>3, <1>4, <1>7
<1> QED BY <1>3, <1>5, <1>6, <1>8, <1>9, RegistryMoves

LEMMA BindKeeps == ASSUME RegistryConstants, AccountsInv, AskedInv, NEW u \in VerifiedUsers, BindWallet(u) PROVE AccountsInv'
<1>1. PICK c \in linkChallenges :
        /\ c.account \in AccountsOf(u)
        /\ \/ /\ AccountsWith(c.wallet) \ {c.account} = {}
              /\ registry' = [registry EXCEPT ![c.account].wallet = c.wallet]
           \/ \E other \in AccountsWith(c.wallet) \ {c.account} :
                 /\ MayAdopt(c.account, other)
                 /\ registry' = [registry EXCEPT ![c.account] = [Free EXCEPT !.kind = "DELETED"],
                                                 ![other] = Verified(registry[c.account], c.wallet)]
  BY DEF BindWallet
<1>2. PICK a \in AccountIds, w \in LinkWallets : a = c.account /\ w = c.wallet
  BY DEF AskedInv, LinkRows
<1>3. PICK row \in AccountRows : row = registry[a] /\ row.email = u.email /\ row.subject = u.subject /\ RowSound(row)
  BY <1>1, <1>2 DEF AccountsOf, AccountsInv, StoreTyped
<1>4. registry \in [AccountIds -> AccountRows] /\ u.email # NoValue /\ w # NoValue /\ row.kind = "GOOGLE"
  BY <1>3 DEF AccountsInv, StoreTyped, RegistryConstants, RowSound
<1>5. UNCHANGED <<testIdentities, testSessions, vouchers, quotes, claimLog>>
  BY DEF BindWallet
<1>6. CASE /\ AccountsWith(c.wallet) \ {c.account} = {}
           /\ registry' = [registry EXCEPT ![c.account].wallet = c.wallet]
  <2>1. PICK new : new = [row EXCEPT !.wallet = w]
    OBVIOUS
  <2>2. new \in AccountRows /\ new.wallet = w /\ new.kind = row.kind /\ new.email = row.email
    BY <2>1 DEF AccountRows, OrNull
  <2>3. registry' = [registry EXCEPT ![a] = new]
    BY <1>2, <1>3, <1>4, <1>6, <2>1 DEF AccountRows
  <2>4. \A b \in AccountIds \ {a} : registry[b].wallet # w
    BY <1>2, <1>6 DEF AccountsWith
  <2>5. registry' \in [AccountIds -> AccountRows] /\ \A b \in AccountIds : RowSound(registry'[b])
    BY <1>4, <2>2, <2>3 DEF AccountsInv, RowSound
  <2>6. NamesOnce'
    BY <1>3, <1>4, <2>2, <2>3, <2>4 DEF AccountsInv, NamesOnce
  <2>7. \A b \in AccountIds : Open(b) /\ HasHistory(b) => registry'[b].kind \in {"GOOGLE", "WALLET_TEST"}
    BY <1>4, <2>2, <2>3 DEF Open
  <2>8. \A b \in AccountIds : HasHistory(b) /\ registry[b].email # NoValue => registry'[b].email = registry[b].email
    BY <1>3, <1>4, <2>2, <2>3
  <2> QED BY <1>5, <2>5, <2>6, <2>7, <2>8, RegistryMoves
<1>7. ASSUME NEW other \in AccountsWith(c.wallet) \ {c.account}, MayAdopt(c.account, other),
             registry' = [registry EXCEPT ![c.account] = [Free EXCEPT !.kind = "DELETED"],
                                          ![other] = Verified(registry[c.account], c.wallet)]
      PROVE  AccountsInv'
  <2>1. other \in AccountIds /\ other # a /\ registry[other].wallet = w
    BY <1>2 DEF AccountsWith
  <2>2. PICK shell \in AccountRows : shell = [Free EXCEPT !.kind = "DELETED"] /\ shell.kind = "DELETED" /\ shell.email = NoValue /\ shell.wallet = NoValue
    <3>1. PICK free \in AccountRows : free = Free /\ free.email = NoValue /\ free.wallet = NoValue
      BY FreeTyped
    <3>2. PICK shell : shell = [free EXCEPT !.kind = "DELETED"]
      OBVIOUS
    <3>3. shell \in AccountRows /\ shell.kind = "DELETED" /\ shell.email = NoValue /\ shell.wallet = NoValue
      BY <3>1, <3>2 DEF AccountRows
    <3> QED BY <3>1, <3>2, <3>3
  <2>3. PICK new \in AccountRows : new = Verified(u, w) /\ new.email = u.email /\ new.wallet = w /\ new.kind = "GOOGLE" /\ RowSound(new)
    BY VerifiedTyped DEF OrNull
  <2>4. Verified(registry[c.account], c.wallet) = new
    BY <1>2, <1>3, <2>3 DEF Verified
  <2>5. registry' = [registry EXCEPT ![a] = shell, ![other] = new]
    BY <1>2, <1>7, <2>2, <2>4
  <2>6. /\ registry'[a] = shell /\ registry'[other] = new /\ registry' \in [AccountIds -> AccountRows]
        /\ \A b \in AccountIds \ {a, other} : registry'[b] = registry[b]
    BY <1>4, <2>1, <2>5
  <2>7. \A b \in AccountIds : RowSound(registry'[b])
    <3>1. RowSound(shell) /\ RowSound(new)
      BY <2>2, <2>3 DEF RowSound
    <3> QED BY <2>6, <3>1 DEF AccountsInv
  <2>8. NamesOnce'
    <3>1. \A b \in AccountIds \ {a, other} : registry[b].wallet # w /\ registry[b].email # u.email
      BY <1>3, <1>4, <2>1 DEF AccountsInv, NamesOnce
    <3>2. ASSUME NEW b \in AccountIds, NEW d \in AccountIds, b # d
          PROVE  /\ registry'[b].wallet # NoValue => registry'[b].wallet # registry'[d].wallet
                 /\ registry'[b].email # NoValue => registry'[b].email # registry'[d].email
      <4>1. CASE b = a
        BY <2>2, <2>6, <4>1
      <4>2. CASE d = a
        BY <2>2, <2>6, <4>2
      <4>3. CASE b = other /\ d # a
        BY <2>3, <2>6, <3>1, <3>2, <4>3
      <4>4. CASE d = other /\ b # a
        BY <2>3, <2>6, <3>1, <3>2, <4>4
      <4>5. CASE b \notin {a, other} /\ d \notin {a, other}
        BY <2>6, <3>2, <4>5 DEF AccountsInv, NamesOnce
      <4> QED BY <4>1, <4>2, <4>3, <4>4, <4>5
    <3> QED BY <3>2 DEF NamesOnce
  <2>9. ~HasHistory(a) /\ registry[other].kind = "WALLET_TEST" /\ registry[other].email = NoValue
    BY <1>2, <1>7, <2>1 DEF MayAdopt, AccountsInv, RowSound
  <2>10. \A b \in AccountIds : Open(b) /\ HasHistory(b) => registry'[b].kind \in {"GOOGLE", "WALLET_TEST"}
    BY <2>3, <2>6, <2>9 DEF Open
  <2>11. \A b \in AccountIds : HasHistory(b) /\ registry[b].email # NoValue => registry'[b].email = registry[b].email
    BY <2>6, <2>9
  <2> QED BY <1>5, <2>6, <2>7, <2>8, <2>10, <2>11, RegistryMoves
<1> QED BY <1>1, <1>6, <1>7

\* A wallet logs in, into its account or a new one.
LEMMA SessionKeeps ==
    ASSUME RegistryConstants, AccountsInv, AskedInv, NEW r \in requests, OpenWalletTestSession(r)
    PROVE  AccountsInv'
<1>1. PICK w \in LinkWallets, id \in Nat : w = r.owner /\ id = r.id
  BY DEF AskedInv, RequestRows
<1>2. PICK a \in AccountIds :
        /\ \/ registry[a].wallet = w /\ UNCHANGED registry
           \/ /\ OpensAs(w) = {} /\ registry[a].kind = "FREE"
              /\ registry' = [registry EXCEPT ![a] = [Free EXCEPT !.kind = "WALLET_TEST", !.wallet = w]]
        /\ testIdentities' = [testIdentities EXCEPT ![w] = IF @ = NoValue THEN a ELSE @]
        /\ testSessions' = {s \in testSessions : s.account # a /\ s.live} \cup
                           {[token |-> id, account |-> a, wallet |-> w, live |-> TRUE]}
  BY <1>1 DEF OpenWalletTestSession
<1>3. vouchers' = vouchers /\ quotes' = quotes /\ claimLog' = claimLog
  BY DEF OpenWalletTestSession
<1>4. w # NoValue /\ registry \in [AccountIds -> AccountRows]
  BY DEF RegistryConstants, AccountsInv, StoreTyped
<1>5. /\ registry' \in [AccountIds -> AccountRows] /\ (\A b \in AccountIds : RowSound(registry'[b])) /\ NamesOnce'
      /\ registry'[a].kind \in {"GOOGLE", "WALLET_TEST"}
      /\ \A b \in AccountIds \ {a} : registry'[b] = registry[b]
      /\ registry'[a] = registry[a] \/ (registry[a].kind = "FREE" /\ registry[a].email = NoValue)
  <2>1. CASE registry[a].wallet = w /\ UNCHANGED registry
    BY <1>4, <2>1 DEF AccountsInv, NamesOnce, RowSound
  <2>2. CASE /\ OpensAs(w) = {} /\ registry[a].kind = "FREE"
             /\ registry' = [registry EXCEPT ![a] = [Free EXCEPT !.kind = "WALLET_TEST", !.wallet = w]]
    <3>1. PICK free \in AccountRows : free = Free /\ free.email = NoValue
      BY FreeTyped
    <3>2. PICK new : new = [free EXCEPT !.kind = "WALLET_TEST", !.wallet = w]
      OBVIOUS
    <3>3. new \in AccountRows /\ new.kind = "WALLET_TEST" /\ new.email = NoValue /\ new.wallet = w
      BY <3>1, <3>2 DEF AccountRows, OrNull
    <3>4. registry' = [registry EXCEPT ![a] = new]
      BY <2>2, <3>1, <3>2
    <3>5. \A b \in AccountIds : registry[b].wallet # w
      BY <2>2 DEF OpensAs, AccountsWith
    <3>6. RowSound(new)
      BY <3>3 DEF RowSound
    <3>7. NamesOnce'
      BY <1>4, <3>3, <3>4, <3>5 DEF AccountsInv, NamesOnce
    <3> QED BY <1>4, <2>2, <3>3, <3>4, <3>6, <3>7, FreeHasNone DEF AccountsInv
  <2> QED BY <1>2, <2>1, <2>2
<1>6. testSessions' \subseteq SessionRows /\ \A s \in testSessions' : s \in testSessions \/ s.account = a
  <2>1. PICK yes \in BOOLEAN : yes = TRUE
    BY Zenon
  <2>2. PICK s : s = [token |-> id, account |-> a, wallet |-> w, live |-> yes]
    OBVIOUS
  <2>3. s \in SessionRows /\ s.account = a
    BY <2>2 DEF SessionRows
  <2>4. testSessions' = {x \in testSessions : x.account # a /\ x.live} \cup {s}
    BY <1>2, <2>1, <2>2
  <2> QED BY <2>3, <2>4 DEF AccountsInv, StoreTyped
<1>7. testIdentities' \in [LinkWallets -> OrNull(AccountIds)] /\ \A v \in LinkWallets : testIdentities'[v] \in {testIdentities[v], a}
  <2>1. testIdentities \in [LinkWallets -> OrNull(AccountIds)]
    BY DEF AccountsInv, StoreTyped
  <2> QED BY <1>2, <2>1 DEF OrNull
<1>8. StoreTyped' /\ SpeaksForItsWallet'
  BY <1>3, <1>5, <1>6, <1>7 DEF AccountsInv, StoreTyped, SpeaksForItsWallet
<1>9. HistoryOpen'
  <2>1. ASSUME NEW b \in AccountIds, HasHistory(b)', b # a PROVE Open(b)'
    <3>1. HasHistory(b)
      BY <1>3, <1>6, <1>7, <2>1 DEF HasHistory
    <3> QED BY <1>5, <2>1, <3>1 DEF AccountsInv, HistoryOpen, Open
  <2>2. Open(a)'
    BY <1>5 DEF Open
  <2> QED BY <2>1, <2>2 DEF HistoryOpen
<1>10. ClaimsKept'
  <2>1. ASSUME NEW c \in claimLog, c.email # NoValue PROVE registry'[c.account].email = c.email
    <3>1. c.account \in AccountIds /\ registry[c.account].email = c.email
      BY <2>1 DEF AccountsInv, StoreTyped, ClaimRows, ClaimsKept
    <3> QED BY <1>5, <2>1, <3>1
  <2> QED BY <1>3, <2>1 DEF AccountsInv, ClaimsKept
<1> QED BY <1>5, <1>8, <1>9, <1>10 DEF AccountsInv

LEMMA VoucherKeeps ==
    ASSUME RegistryConstants, AccountsInv, AskedInv, NEW r \in requests, ReserveVoucher(r)
    PROVE  AccountsInv'
<1>1. PICK a \in AccountIds, w \in LinkWallets : a = r.account /\ w = r.owner
  BY DEF AskedInv, RequestRows, RequestSound, ReserveVoucher
<1>2. PICK e : e = registry[a].email /\ e \in OrNull(Emails)
  BY DEF AccountsInv, StoreTyped, AccountRows
<1>3. PICK claim : claim = [account |-> a, wallet |-> w, email |-> e]
  OBVIOUS
<1>4. claim \in ClaimRows /\ claim.account = a /\ claim.wallet = w /\ claim.email = e
  BY <1>2, <1>3 DEF ClaimRows
<1>5. /\ vouchers' = [vouchers EXCEPT ![a] = w] /\ claimLog' = claimLog \cup {claim}
      /\ UNCHANGED <<registry, testIdentities, testSessions, quotes>>
  BY <1>1, <1>2, <1>3 DEF ReserveVoucher
<1>6. /\ registry[a].wallet = w /\ (\A b \in AccountIds \ {a} : vouchers[b] # w) /\ vouchers[a] \in {NoValue, w}
      /\ vouchers \in [AccountIds -> OrNull(LinkWallets)]
  BY <1>1 DEF ReserveVoucher, MayReserveFor, AccountsInv, StoreTyped
<1>7. StoreTyped' /\ SpeaksForItsWallet' /\ NamesOnce'
  BY <1>4, <1>5, <1>6 DEF AccountsInv, StoreTyped, SpeaksForItsWallet, NamesOnce, OrNull
<1>8. Open(a) /\ w # NoValue
  BY <1>6 DEF AccountsInv, RowSound, Open, RegistryConstants
<1>9. HistoryOpen'
  <2>1. ASSUME NEW b \in AccountIds, HasHistory(b)' PROVE Open(b)
    <3>1. HasHistory(b) \/ b = a
      BY <1>5, <1>6, <2>1 DEF HasHistory
    <3> QED BY <1>8, <3>1 DEF AccountsInv, HistoryOpen
  <2> QED BY <1>5, <2>1 DEF HistoryOpen, Open
<1>10. ClaimsKept'
  <2>1. \A b, d \in AccountIds : b # d /\ vouchers'[b] # NoValue => vouchers'[b] # vouchers'[d]
    BY <1>5, <1>6 DEF AccountsInv, ClaimsKept
  <2>2. ASSUME NEW c \in claimLog' PROVE vouchers'[c.account] = c.wallet /\ (c.email # NoValue => registry'[c.account].email = c.email)
    <3>1. CASE c = claim
      BY <1>2, <1>4, <1>5, <1>6, <3>1
    <3>2. CASE c \in claimLog
      <4>1. c.account \in AccountIds /\ c.wallet \in LinkWallets /\ vouchers[c.account] = c.wallet
            /\ (c.email # NoValue => registry[c.account].email = c.email)
        BY <3>2 DEF AccountsInv, StoreTyped, ClaimRows, ClaimsKept
      <4>2. c.wallet # NoValue
        BY <4>1 DEF RegistryConstants
      <4> QED BY <1>5, <1>6, <4>1, <4>2
    <3> QED BY <1>5, <3>1, <3>2
  <2> QED BY <2>1, <2>2 DEF ClaimsKept
<1> QED BY <1>5, <1>7, <1>9, <1>10 DEF AccountsInv

LEMMA QuoteKeeps ==
    ASSUME RegistryConstants, AccountsInv, AskedInv, NEW r \in requests, SaveQuote(r)
    PROVE  AccountsInv'
<1>1. PICK a \in AccountIds, w \in LinkWallets, via \in OrNull(LinkWallets) : a = r.account /\ w = r.owner /\ via = r.via /\ via \in {NoValue, w}
  BY DEF AskedInv, RequestRows, RequestSound, SaveQuote
<1>2. PICK q : q = [account |-> a, owner |-> w, via |-> via]
  OBVIOUS
<1>3. q \in QuoteRows /\ q.account = a /\ q.owner = w /\ q.via = via
  BY <1>2 DEF QuoteRows
<1>4. quotes' = quotes \cup {q} /\ UNCHANGED <<registry, testIdentities, testSessions, vouchers, claimLog>> /\ registry[a].wallet = w
  BY <1>1, <1>2 DEF SaveQuote
<1>5. Open(a)
  BY <1>4 DEF AccountsInv, RowSound, Open, RegistryConstants
<1>6. StoreTyped' /\ SpeaksForItsWallet' /\ NamesOnce' /\ ClaimsKept'
  BY <1>1, <1>3, <1>4 DEF AccountsInv, StoreTyped, SpeaksForItsWallet, NamesOnce, ClaimsKept
<1>7. HistoryOpen'
  <2>1. ASSUME NEW b \in AccountIds, HasHistory(b)' PROVE Open(b)
    <3>1. HasHistory(b) \/ b = a
      BY <1>3, <1>4, <2>1 DEF HasHistory
    <3> QED BY <1>5, <3>1 DEF AccountsInv, HistoryOpen
  <2> QED BY <1>4, <2>1 DEF HistoryOpen, Open
<1> QED BY <1>4, <1>6, <1>7 DEF AccountsInv

\* A session's time ends.
LEMMA LateSessions ==
    ASSUME AccountsInv, testSessions' \in Late(testSessions), UNCHANGED <<registry, testIdentities, vouchers, quotes, claimLog>>
    PROVE  AccountsInv'
<1>1. PICK x \in testSessions : testSessions' = (testSessions \ {x}) \cup {[x EXCEPT !.live = FALSE]}
  BY DEF Late
<1>2. PICK s \in SessionRows : s = x
  BY DEF AccountsInv, StoreTyped
<1>3. PICK no \in BOOLEAN : no = FALSE
  BY Zenon
<1>4. PICK late : late = [s EXCEPT !.live = no]
  OBVIOUS
<1>5. late \in SessionRows /\ late.account = s.account /\ testSessions' = (testSessions \ {x}) \cup {late}
  BY <1>1, <1>2, <1>3, <1>4 DEF SessionRows
<1>6. StoreTyped' /\ SpeaksForItsWallet' /\ NamesOnce' /\ ClaimsKept'
  BY <1>5 DEF AccountsInv, StoreTyped, SpeaksForItsWallet, NamesOnce, ClaimsKept
<1>7. HistoryOpen'
  <2>1. ASSUME NEW b \in AccountIds, HasHistory(b)' PROVE Open(b)
    <3>1. HasHistory(b)
      BY <1>1, <1>2, <1>5, <2>1 DEF HasHistory
    <3> QED BY <3>1 DEF AccountsInv, HistoryOpen
  <2> QED BY <2>1 DEF HistoryOpen, Open
<1> QED BY <1>6, <1>7 DEF AccountsInv

----------------------------------------------------------------------------

LEMMA SpendTyped ==
    ASSUME room \in Rooms, NEW what \in {"links", "logins", "requests", "expiries", "switches"}, Spend(what)
    PROVE  room' \in Rooms
<1>1. PICK n \in Nat : n = room[what] - 1
  BY DEF Spend, Rooms
<1>2. room' = [room EXCEPT ![what] = n]
  BY <1>1 DEF Spend
<1>3. CASE what = "links"
  BY <1>2, <1>3 DEF Rooms
<1>4. CASE what = "logins"
  BY <1>2, <1>4 DEF Rooms
<1>5. CASE what = "requests"
  BY <1>2, <1>5 DEF Rooms
<1>6. CASE what = "expiries"
  BY <1>2, <1>6 DEF Rooms
<1>7. CASE what = "switches"
  BY <1>2, <1>7 DEF Rooms
<1> QED BY <1>3, <1>4, <1>5, <1>6, <1>7

LEMMA LinkRowMarked ==
    ASSUME NEW c \in LinkRows
    PROVE  [c EXCEPT !.used = TRUE] \in LinkRows /\ [c EXCEPT !.live = FALSE] \in LinkRows
<1>1. PICK yes \in BOOLEAN, no \in BOOLEAN : yes = TRUE /\ no = FALSE
  BY Zenon
<1>2. [c EXCEPT !.used = yes] \in LinkRows /\ [c EXCEPT !.live = no] \in LinkRows
  BY DEF LinkRows
<1> QED BY <1>1, <1>2

\* Only challenges and what is left change.
LEMMA LinksMove ==
    ASSUME AskedInv, linkChallenges' \subseteq LinkRows, required' = required, requests' = requests, room' \in Rooms
    PROVE  AskedInv'
  BY DEF AskedInv

\* Requests go, or one of them goes on.
LEMMA RequestsMove ==
    ASSUME AskedInv, linkChallenges' = linkChallenges, required' = required, room' \in Rooms,
           \/ requests' \subseteq requests
           \/ \E r \in RequestRows : RequestSound(r) /\ requests' \subseteq requests \cup {r}
    PROVE  AskedInv'
  BY DEF AskedInv

LEMMA ConsumedTyped == ASSUME AskedInv, NEW c \in linkChallenges PROVE Consumed(c) \subseteq LinkRows
<1>1. c \in LinkRows
  BY DEF AskedInv
<1>2. [c EXCEPT !.used = TRUE] \in LinkRows
  BY <1>1, LinkRowMarked
<1> QED BY <1>2 DEF Consumed, AskedInv

LEMMA ArriveKeeps ==
    ASSUME AskedInv, NEW kind \in {"challenge", "session", "quote", "claim"}, NEW w \in LinkWallets, NEW token \in OrNull(Nat),
           NEW u \in OrNull(VerifiedUsers), Arrive(Request(kind, w, token, u))
    PROVE  AskedInv'
<1>1. room \in Rooms /\ room.logins \in Nat /\ room.requests \in Nat
  BY DEF AskedInv, Rooms
<1>2. room' \in Rooms
  <2>1. PICK what \in {"logins", "requests"} : Spend(what)
    BY DEF Arrive
  <2> QED BY <1>1, <2>1, SpendTyped
<1>3. PICK id \in Nat : id = room.logins + room.requests
  BY <1>1
<1>4. PICK yes \in BOOLEAN : yes = TRUE
  BY Zenon
<1>5. PICK r : r = [id |-> 0, kind |-> kind, pc |-> "asked", required |-> yes, owner |-> w, token |-> token,
                    user |-> u, account |-> 0, via |-> NoValue]
  OBVIOUS
<1>6. r \in RequestRows /\ r.pc = "asked"
  BY <1>5 DEF RequestRows, OrNull
<1>7. PICK answer \in BOOLEAN : requests' = requests \cup {[r EXCEPT !.id = id, !.required = answer]}
  <2>1. r = Request(kind, w, token, u)
    BY <1>4, <1>5 DEF Request
  <2>2. PICK answer \in PolicyAnswers : requests' = requests \cup {[r EXCEPT !.id = id, !.required = answer]}
    BY <1>3, <2>1 DEF Arrive
  <2>3. answer \in BOOLEAN
    BY <2>2, Zenon DEF PolicyAnswers, AskedInv
  <2> QED BY <2>2, <2>3
<1>8. PICK new : new = [r EXCEPT !.id = id, !.required = answer]
  OBVIOUS
<1>9. new \in RequestRows /\ new.pc = "asked"
  BY <1>6, <1>8 DEF RequestRows
<1>10. RequestSound(new)
  BY <1>9 DEF RequestSound
<1>11. linkChallenges' = linkChallenges /\ required' = required
  BY DEF Arrive
<1> QED BY <1>2, <1>7, <1>8, <1>9, <1>10, <1>11, RequestsMove

LEMMA AuthenticateKeeps ==
    ASSUME AccountsInv, AskedInv, NEW r \in requests, Authenticate(r)
    PROVE  AskedInv'
<1> DEFINE usable == IF r.required THEN {} ELSE WalletTestSession(r.token)
           who == IF usable # {} THEN {<<s.account, s.wallet>> : s \in usable}
                  ELSE {<<a, NoValue>> : a \in IF r.user = NoValue THEN {} ELSE AccountsOf(r.user)}
<1>1. PICK p \in who :
        /\ registry[p[1]].wallet = r.owner
        /\ requests' = (requests \ {r}) \cup {[r EXCEPT
               !.account = p[1], !.via = p[2], !.pc = IF r.kind = "claim" THEN "reserve" ELSE "save"]}
  BY DEF Authenticate
<1>2. PICK a \in AccountIds, via \in OrNull(LinkWallets) : a = p[1] /\ via = p[2] /\ via \in {NoValue, r.owner}
  <2>1. CASE usable # {}
    <3>1. PICK s \in usable : p = <<s.account, s.wallet>>
      BY <1>1, <2>1
    <3>2. s \in testSessions /\ registry[s.account].wallet = s.wallet
      BY <3>1 DEF WalletTestSession
    <3>3. s.account \in AccountIds /\ s.wallet \in LinkWallets
      BY <3>2 DEF AccountsInv, StoreTyped, SessionRows
    <3>4. p[1] = s.account /\ p[2] = s.wallet
      BY <3>1
    <3> QED BY <1>1, <3>2, <3>3, <3>4 DEF OrNull
  <2>2. CASE usable = {}
    <3>1. PICK x \in AccountsOf(r.user) : p = <<x, NoValue>>
      BY <1>1, <2>2
    <3>2. x \in AccountIds /\ p[1] = x /\ p[2] = NoValue
      BY <3>1 DEF AccountsOf
    <3> QED BY <3>2 DEF OrNull
  <2> QED BY <2>1, <2>2
<1>3. PICK q \in RequestRows : q = r
  BY DEF AskedInv
<1>4. PICK pc \in {"reserve", "save"} : pc = IF r.kind = "claim" THEN "reserve" ELSE "save"
  OBVIOUS
<1>5. PICK new : new = [q EXCEPT !.account = a, !.via = via, !.pc = pc]
  OBVIOUS
<1>6. new \in RequestRows /\ new.account = a /\ new.via = via /\ new.owner = q.owner
  BY <1>5 DEF RequestRows
<1>7. RequestSound(new)
  BY <1>2, <1>3, <1>6 DEF RequestSound
<1>8. requests' \subseteq requests \cup {new}
  <2>1. requests' = (requests \ {r}) \cup {new}
    BY <1>1, <1>2, <1>3, <1>4, <1>5
  <2> QED BY <2>1
<1>9. linkChallenges' = linkChallenges /\ required' = required /\ room' \in Rooms
  BY DEF Authenticate, AskedInv
<1> QED BY <1>6, <1>7, <1>8, <1>9, RequestsMove

LEMMA AskedKeeps == AskedInv /\ AccountsInv /\ [RegistryNext]_registryVars => AskedInv'
<1> SUFFICES ASSUME AskedInv, AccountsInv, [RegistryNext]_registryVars PROVE AskedInv'
  OBVIOUS
<1>0. room \in Rooms /\ linkChallenges \subseteq LinkRows
  BY DEF AskedInv
<1>1. CASE UNCHANGED registryVars
  BY <1>1 DEF registryVars, AskedInv
<1>2. ASSUME NEW u \in VerifiedUsers, SignIn(u) \/ BindWallet(u) \/ BindRefused(u) PROVE AskedInv'
  <2>1. requests' = requests /\ required' = required /\ room' \in Rooms
    BY <1>0, <1>2 DEF SignIn, BindWallet, BindRefused
  <2>2. linkChallenges' \subseteq LinkRows
    <3>1. CASE linkChallenges' \subseteq linkChallenges
      BY <1>0, <3>1
    <3>2. CASE \E c \in linkChallenges : linkChallenges' = Consumed(c)
      BY <3>2, ConsumedTyped
    <3> QED BY <1>2, <3>1, <3>2 DEF SignIn, BindWallet, BindRefused
  <2> QED BY <2>1, <2>2, LinksMove
<1>3. ASSUME NEW u \in VerifiedUsers, NEW w \in LinkWallets, BindingChallenge(u, w) PROVE AskedInv'
  <2>1. PICK a \in AccountsOf(u) :
          linkChallenges' = {c \in linkChallenges : c.account # a /\ c.live} \cup {[account |-> a, wallet |-> w, used |-> FALSE, live |-> TRUE]}
    BY <1>3 DEF BindingChallenge
  <2>2. PICK yes \in BOOLEAN, no \in BOOLEAN : yes = TRUE /\ no = FALSE
    BY Zenon
  <2>3. a \in AccountIds
    BY DEF AccountsOf
  <2>4. [account |-> a, wallet |-> w, used |-> no, live |-> yes] \in LinkRows
    BY <2>3 DEF LinkRows
  <2>5. linkChallenges' \subseteq LinkRows
    BY <1>0, <2>1, <2>2, <2>4
  <2>6. room' \in Rooms
    BY <1>0, <1>3, SpendTyped DEF BindingChallenge
  <2>7. requests' = requests /\ required' = required
    BY <1>3 DEF BindingChallenge
  <2> QED BY <2>5, <2>6, <2>7, LinksMove
<1>4. ASSUME NEW w \in LinkWallets, NEW kind \in {"challenge", "session"}, Arrive(Request(kind, w, NoValue, NoValue)) PROVE AskedInv'
  <2>1. NoValue \in OrNull(Nat) /\ NoValue \in OrNull(VerifiedUsers) /\ kind \in {"challenge", "session", "quote", "claim"}
    BY DEF OrNull
  <2> QED BY <1>4, <2>1, ArriveKeeps
<1>5. ASSUME NEW w \in LinkWallets, NEW kind \in {"quote", "claim"}, NEW u \in IdentityAnswers,
             NEW token \in OrNull({s.token : s \in testSessions}), Arrive(Request(kind, w, token, u))
      PROVE  AskedInv'
  <2>1. token \in OrNull(Nat)
    BY DEF OrNull, AccountsInv, StoreTyped, SessionRows
  <2>2. u \in OrNull(VerifiedUsers) /\ kind \in {"challenge", "session", "quote", "claim"}
    BY DEF IdentityAnswers
  <2> QED BY <1>5, <2>1, <2>2, ArriveKeeps
<1>6. ASSUME NEW r \in requests, WalletTestChallenge(r) \/ OpenWalletTestSession(r) \/ SaveQuote(r) \/ Drop(r) PROVE AskedInv'
  <2>1. requests' \subseteq requests /\ linkChallenges' = linkChallenges /\ required' = required /\ room' = room
    BY <1>6 DEF WalletTestChallenge, OpenWalletTestSession, SaveQuote, Drop
  <2> QED BY <1>0, <2>1, RequestsMove
<1>7. ASSUME NEW r \in requests, Authenticate(r) PROVE AskedInv'
  BY <1>7, AuthenticateKeeps
<1>8. ASSUME NEW r \in requests, ReserveVoucher(r) PROVE AskedInv'
  <2>1. PICK q \in RequestRows : q = r /\ RequestSound(q) /\ q.pc = "reserve"
    BY <1>8 DEF AskedInv, ReserveVoucher
  <2>2. PICK new : new = [q EXCEPT !.pc = "save"]
    OBVIOUS
  <2>3. new \in RequestRows /\ new.account = q.account /\ new.via = q.via /\ new.owner = q.owner
    BY <2>2 DEF RequestRows
  <2>4. RequestSound(new)
    BY <2>1, <2>3 DEF RequestSound
  <2>5. requests' = (requests \ {r}) \cup {new} /\ linkChallenges' = linkChallenges /\ required' = required /\ room' = room
    BY <1>8, <2>1, <2>2 DEF ReserveVoucher
  <2>6. requests' \subseteq requests \cup {new}
    BY <2>5
  <2> QED BY <1>0, <2>3, <2>4, <2>5, <2>6, RequestsMove
<1>9. CASE Expire
  <2>1. room' \in Rooms
    BY <1>0, <1>9, SpendTyped DEF Expire
  <2>2. requests' = requests /\ required' = required
    BY <1>9 DEF Expire
  <2>3. linkChallenges' \subseteq LinkRows
    <3>1. CASE linkChallenges' = linkChallenges
      BY <1>0, <3>1
    <3>2. CASE linkChallenges' \in Late(linkChallenges)
      <4>1. PICK x \in linkChallenges : linkChallenges' = (linkChallenges \ {x}) \cup {[x EXCEPT !.live = FALSE]}
        BY <3>2 DEF Late
      <4>2. [x EXCEPT !.live = FALSE] \in LinkRows
        BY <1>0, LinkRowMarked
      <4> QED BY <1>0, <4>1, <4>2
    <3> QED BY <1>9, <3>1, <3>2 DEF Expire
  <2> QED BY <2>1, <2>2, <2>3, LinksMove
<1>10. CASE SwitchPolicy
  <2>1. room' \in Rooms
    BY <1>0, <1>10, SpendTyped DEF SwitchPolicy
  <2>2. required' \in BOOLEAN
    BY <1>10, Zenon DEF SwitchPolicy
  <2>3. requests' = requests /\ linkChallenges' = linkChallenges
    BY <1>10 DEF SwitchPolicy
  <2> QED BY <2>1, <2>2, <2>3 DEF AskedInv
<1> QED BY <1>1, <1>2, <1>3, <1>4, <1>5, <1>6, <1>7, <1>8, <1>9, <1>10 DEF RegistryNext

LEMMA AccountsKeep ==
    ASSUME RegistryConstants
    PROVE  AccountsInv /\ AskedInv /\ [RegistryNext]_registryVars => AccountsInv'
<1> SUFFICES ASSUME AccountsInv, AskedInv, [RegistryNext]_registryVars PROVE AccountsInv'
  OBVIOUS
<1>1. CASE UNCHANGED registryVars
  BY <1>1, StoreLeft DEF registryVars
<1>2. ASSUME NEW u \in VerifiedUsers, SignIn(u) \/ BindWallet(u) PROVE AccountsInv'
  BY <1>2, SignInKeeps, BindKeeps
<1>3. CASE \/ \E u \in VerifiedUsers : BindRefused(u) \/ \E w \in LinkWallets : BindingChallenge(u, w)
           \/ \E r : Arrive(r)
           \/ \E r \in requests : WalletTestChallenge(r) \/ Authenticate(r) \/ Drop(r)
           \/ SwitchPolicy
  <2>1. UNCHANGED <<registry, testIdentities, testSessions, vouchers, quotes, claimLog>>
    BY <1>3 DEF BindRefused, BindingChallenge, Arrive, WalletTestChallenge, Authenticate, Drop, SwitchPolicy
  <2> QED BY <2>1, StoreLeft
<1>4. ASSUME NEW r \in requests, OpenWalletTestSession(r) \/ ReserveVoucher(r) \/ SaveQuote(r) PROVE AccountsInv'
  BY <1>4, SessionKeeps, VoucherKeeps, QuoteKeeps
<1>5. CASE Expire
  <2>1. UNCHANGED <<registry, testIdentities, vouchers, quotes, claimLog>> /\ (testSessions' = testSessions \/ testSessions' \in Late(testSessions))
    BY <1>5 DEF Expire
  <2> QED BY <2>1, StoreLeft, LateSessions
<1> QED BY <1>1, <1>2, <1>3, <1>4, <1>5 DEF RegistryNext

\* Whatever logins, links, adoptions and claims happen in whatever order, an email and a wallet name one
\* account, what the store keeps keeps its account, no wallet and no verified email has vouchers of two
\* accounts, and a session speaks for its own wallet (bindWallet, openWalletTestSession, reserveClaim,
\* saveQuote), for every number of accounts, users and wallets.
THEOREM AccountsStaySound ==
    RegistryConstants /\ RegistrySpec => [](RegistrySound /\ ClaimsOnce /\ SpeaksForItsWallet)
<1> SUFFICES ASSUME RegistryConstants PROVE RegistrySpec => [](RegistrySound /\ ClaimsOnce /\ SpeaksForItsWallet)
  OBVIOUS
<1>1. RegistryInit => AccountsInv /\ AskedInv
  BY AccountsStart
<1>2. AccountsInv /\ AskedInv /\ [RegistryNext]_registryVars => AccountsInv' /\ AskedInv'
  BY AccountsKeep, AskedKeeps
<1>3. AccountsInv => RegistrySound /\ ClaimsOnce /\ SpeaksForItsWallet
  <2> SUFFICES ASSUME AccountsInv PROVE RegistrySound /\ ClaimsOnce /\ SpeaksForItsWallet
    OBVIOUS
  <2>1. RegistrySound
    BY DEF AccountsInv, NamesOnce, HistoryOpen, RegistrySound
  <2>2. \A c \in claimLog : /\ c.account \in AccountIds /\ c.wallet # NoValue /\ vouchers[c.account] = c.wallet
                            /\ c.email # NoValue => registry[c.account].email = c.email
    BY DEF AccountsInv, StoreTyped, ClaimRows, ClaimsKept, RegistryConstants
  <2>3. \A c \in claimLog : Open(c.account)
    BY <2>2 DEF AccountsInv, HistoryOpen, HasHistory
  <2>4. ASSUME NEW c \in claimLog, NEW d \in claimLog, c.wallet = d.wallet \/ (c.email = d.email /\ c.email # NoValue) PROVE c.account = d.account
    <3>1. CASE c.wallet = d.wallet
      BY <2>2, <3>1 DEF AccountsInv, ClaimsKept
    <3>2. CASE c.email = d.email /\ c.email # NoValue
      BY <2>2, <3>2 DEF AccountsInv, NamesOnce
    <3> QED BY <2>4, <3>1, <3>2
  <2>5. ClaimsOnce
    BY <2>2, <2>3, <2>4 DEF ClaimsOnce
  <2> QED BY <2>1, <2>5 DEF AccountsInv
<1> QED BY <1>1, <1>2, <1>3, PTL DEF RegistrySpec

----------------------------------------------------------------------------

\* Both: the market's accounts keep to one account for an email and a wallet (bindWallet, reserveClaim), and
\* its reads to one block (snapshot, assertCanonical), whatever the sets of identities, wallets, readers
\* and blocks, and in whatever order requests and replies come.
THEOREM MarketStaysHonest == RegistrySpec /\ PinnedSpec => []MarketHonest
<1>1. RegistryConstants /\ PinnedConstants
  BY RegistryAssumption, PinnedAssumption
<1>2. RegistrySound /\ ClaimsOnce /\ SpeaksForItsWallet /\ AnswersPinned /\ CacheIsLive => MarketHonest
  BY DEF MarketHonest
<1> QED BY <1>1, <1>2, AccountsStaySound, ReadsStayPinned, PTL
=============================================================================
