---------------------------- MODULE IndexProofs ----------------------------
(***************************************************************************)
(* The offline copies of the stores, the operations the M3 backend keeps   *)
(* of the chain it follows, and the market's index and vouchers.           *)
(*                                                                         *)
(* ManifestsAreMoments and CopiesHonest hold for every set of folders and  *)
(* files and every number of writes, copies and faults.  A manifest is     *)
(* read from one database after another while the market may be served     *)
(* from other folders, so that it is of one moment rests on the locks:     *)
(* CopyInv says that nobody serves the folder that is copied, and that     *)
(* what was read of it is still what it holds.                             *)
(*                                                                         *)
(* OperationsSound holds for any reports, any number of reorganisations,   *)
(* failed polls and restarts, and every page size, sync limit and depth.   *)
(* A poll reads a receipt at one moment and saves the outcome at another,  *)
(* under a network that has moved on: M3Inv says that a canonical row is   *)
(* where its contract's index has its block, that a confirmed one stays    *)
(* deep in every chain it is judged by, and that every chain kept is one   *)
(* the network had, which holds a transaction once.                        *)
(*                                                                         *)
(* IndexStaysCoherent and SpentVouchersStay hold for every forest of       *)
(* blocks, set of accounts, page of blocks and depth of search.  A tick    *)
(* asks for blocks, logs and again blocks under a chain that moves, and a  *)
(* rewind commits the index in one step and the store in another: IndexInv *)
(* says what a tick may still rely on at each of its calls, and that       *)
(* between the two commits all that the rewind will keep is on the index's *)
(* chain already.  VouchersUsed says that a voucher with a transaction is  *)
(* past being issued, which the status alone, moved back by a rewind, does *)
(* not say.                                                                *)
(***************************************************************************)
EXTENDS OfflineCopies, M3Server, MarketIndexer, FiniteSetTheorems, WellFoundedInduction, TLAPS

----------------------------------------------------------------------------
(* The inductive invariant *)

Contents == Nat \cup {Nothing, Partial}
Data == [Databases -> Contents]
FolderRecords == [data : Data, manifest : Data \cup {Nothing}, locked : BOOLEAN, made : BOOLEAN]
Evidence == UNION {[D -> Contents] : D \in SUBSET Databases}

CopyTypeOK ==
    /\ folders \in [Folders -> FolderRecords]
    /\ running \in Folders \cup {Nothing}
    /\ copier = NoCopier \/ copier \in [step : {"inspect", "copy"}, action : {"backup", "restore"}, from : Folders,
                                        to : Folders, evidence : Evidence, copied : SUBSET Databases]
    /\ fresh \in Nat

\* The data may be of the moment m, as far as a copy got.
OfMoment(data, m) == \A d \in Databases : data[d] \in {m[d], Nothing, Partial}

\* What a folder holds was held together, whether or not a copy of it was cut off.
FoldersAreMoments == \A f \in Folders : \E m \in moments : OfMoment(folders[f].data, m)

\* A server holds the lock of a folder that was made.
ServerHolds == running # Nothing => folders[running].made /\ folders[running].locked

\* The source of a copy is locked, nobody serves it, and what was read of it is what it holds.
SourceHeld ==
    copier.step # "off" =>
        /\ folders[copier.from].made /\ folders[copier.from].locked /\ (running = Nothing \/ running # copier.from)
        /\ \A d \in DOMAIN copier.evidence :
              copier.evidence[d] = folders[copier.from].data[d] /\ copier.evidence[d] # Partial

\* The destination is not there before it is made; then it is locked, nobody serves it, it has what was
\* copied, and a restore has compared its source with the manifest.
DestinationHeld ==
    /\ copier.step = "inspect" => ~folders[copier.to].made
    /\ copier.step = "copy" =>
          /\ copier.from # copier.to /\ DOMAIN copier.evidence = Databases /\ ContentAgrees
          /\ folders[copier.to].made /\ folders[copier.to].locked /\ (running = Nothing \/ running # copier.to)
          /\ \A d \in Databases : folders[copier.to].data[d] \in {copier.evidence[d], Nothing, Partial}

CopyInv ==
    /\ CopyTypeOK
    /\ FoldersAreMoments
    /\ ServerHolds
    /\ SourceHeld
    /\ DestinationHeld
    /\ ManifestsAreMoments

\* The file that a copy of a chain database made is the one that it left unfinished.
ChainInv ==
    /\ chainFiles \in [ChainFiles -> Contents]
    /\ fresh \in Nat
    /\ chainCopy.step # "off" => chainCopy.to \in ChainFiles /\ chainCopy.content \in Contents
    /\ chainCopy.step = "created" => chainFiles[chainCopy.to] = Partial
    /\ chainCopy = [step |-> chainCopy.step, from |-> chainCopy.from, to |-> chainCopy.to, content |-> chainCopy.content]

----------------------------------------------------------------------------
(* The market's folders *)

\* A step that leaves data and manifests alone, or makes moments of what it changes, keeps them of one moment.
LEMMA MomentsStay ==
    ASSUME CopyInv, moments \subseteq moments',
           \A f \in Folders : folders'[f].data = folders[f].data \/ folders'[f].data \in moments',
           \A f \in Folders : folders'[f].manifest = folders[f].manifest
    PROVE  FoldersAreMoments' /\ ManifestsAreMoments'
<1>1. ASSUME NEW f \in Folders PROVE \E m \in moments' : OfMoment(folders'[f].data, m)
  <2>1. CASE folders'[f].data = folders[f].data
    BY <2>1 DEF CopyInv, FoldersAreMoments
  <2>2. CASE folders'[f].data \in moments'
    BY <2>2 DEF OfMoment
  <2> QED
    BY <2>1, <2>2
<1>2. ManifestsAreMoments'
  BY DEF CopyInv, ManifestsAreMoments
<1> QED
  BY <1>1, <1>2 DEF FoldersAreMoments, OfMoment

LEMMA ServerKeeps ==
    ASSUME CopyInv, \/ \E f \in Folders : ServerStarts(f)
                    \/ \E d \in Databases : ServerWrites(d)
                    \/ ServerKilled \/ ServerStops
    PROVE  CopyInv'
<1>0. folders \in [Folders -> FolderRecords] /\ running \in Folders \cup {Nothing} /\ fresh \in Nat
  BY DEF CopyInv, CopyTypeOK
<1>1. ASSUME NEW f \in Folders, ServerStarts(f) PROVE CopyInv'
  <2> DEFINE opened == [d \in Databases |-> IF folders[f].data[d] \in {Nothing, Partial} THEN fresh ELSE folders[f].data[d]]
  <2>1. /\ running = Nothing /\ folders[f].made /\ ~folders[f].locked
        /\ folders' = [folders EXCEPT ![f].locked = TRUE, ![f].data = opened]
        /\ moments' = moments \cup {opened} /\ fresh' \in {fresh, fresh + 1}
        /\ running' = f /\ copier' = copier
    BY <1>1 DEF ServerStarts
  <2>2. opened \in Data
    BY <1>0 DEF Data, FolderRecords, Contents
  <2> HIDE DEF opened
  <2>3. /\ folders' \in [Folders -> FolderRecords]
        /\ folders'[f] = [folders[f] EXCEPT !.locked = TRUE, !.data = opened]
        /\ \A g \in Folders \ {f} : folders'[g] = folders[g]
    BY <1>0, <2>1, <2>2 DEF FolderRecords
  <2>4. CopyTypeOK'
    BY <1>0, <2>1, <2>3 DEF CopyInv, CopyTypeOK
  <2>5. FoldersAreMoments' /\ ManifestsAreMoments'
    BY <1>0, <2>1, <2>3, MomentsStay DEF FolderRecords
  <2>6. ServerHolds'
    BY <1>0, <2>1, <2>3 DEF ServerHolds, FolderRecords
  <2>7. /\ copier.step # "off" => copier.from \in Folders /\ copier.from # f
        /\ copier.step \in {"inspect", "copy"} => copier.to \in Folders /\ copier.to # f
    BY <2>1 DEF CopyInv, CopyTypeOK, SourceHeld, DestinationHeld, NoCopier
  <2>8. SourceHeld' /\ DestinationHeld'
    BY <2>1, <2>3, <2>7 DEF CopyInv, SourceHeld, DestinationHeld, ContentAgrees
  <2> QED
    BY <2>4, <2>5, <2>6, <2>8 DEF CopyInv
<1>2. ASSUME NEW d \in Databases, ServerWrites(d) PROVE CopyInv'
  <2>1. /\ running \in Folders /\ running # Nothing /\ running' = running /\ copier' = copier
        /\ folders' = [folders EXCEPT ![running].data[d] = fresh] /\ fresh' = fresh + 1
        /\ moments' = moments \cup {folders'[running].data}
    BY <1>0, <1>2 DEF ServerWrites
  <2>2. [folders[running].data EXCEPT ![d] = fresh] \in Data
    BY <1>0, <2>1 DEF Data, FolderRecords, Contents
  <2>3. /\ folders' \in [Folders -> FolderRecords]
        /\ folders'[running] = [folders[running] EXCEPT !.data = [folders[running].data EXCEPT ![d] = fresh]]
        /\ \A g \in Folders \ {running} : folders'[g] = folders[g]
    BY <1>0, <2>1, <2>2 DEF FolderRecords
  <2>4. CopyTypeOK'
    BY <1>0, <2>1, <2>3 DEF CopyInv, CopyTypeOK
  <2>5. FoldersAreMoments' /\ ManifestsAreMoments'
    BY <1>0, <2>1, <2>3, MomentsStay DEF FolderRecords
  <2>6. ServerHolds'
    BY <1>0, <2>1, <2>3 DEF CopyInv, ServerHolds, FolderRecords
  <2>7. /\ copier.step # "off" => copier.from \in Folders /\ copier.from # running
        /\ copier.step \in {"inspect", "copy"} => copier.to \in Folders /\ copier.to # running
    BY <2>1 DEF CopyInv, CopyTypeOK, SourceHeld, DestinationHeld, NoCopier, ServerHolds
  <2>8. SourceHeld' /\ DestinationHeld'
    BY <2>1, <2>3, <2>7 DEF CopyInv, SourceHeld, DestinationHeld, ContentAgrees
  <2> QED
    BY <2>4, <2>5, <2>6, <2>8 DEF CopyInv
<1>3. CASE ServerKilled
  BY <1>3, MomentsStay DEF ServerKilled, CopyInv, CopyTypeOK, ServerHolds, SourceHeld, DestinationHeld, ContentAgrees
<1>4. CASE ServerStops
  <2>1. /\ running \in Folders /\ running # Nothing /\ running' = Nothing /\ copier' = copier /\ fresh' = fresh
        /\ folders' = [folders EXCEPT ![running].locked = FALSE] /\ moments' = moments
    BY <1>0, <1>4 DEF ServerStops
  <2>3. /\ folders' \in [Folders -> FolderRecords]
        /\ folders'[running] = [folders[running] EXCEPT !.locked = FALSE]
        /\ \A g \in Folders \ {running} : folders'[g] = folders[g]
    BY <1>0, <2>1 DEF FolderRecords
  <2>4. CopyTypeOK' /\ ServerHolds'
    BY <1>0, <2>1, <2>3 DEF CopyInv, CopyTypeOK, ServerHolds
  <2>5. FoldersAreMoments' /\ ManifestsAreMoments'
    BY <1>0, <2>1, <2>3, MomentsStay DEF FolderRecords
  <2>7. /\ copier.step # "off" => copier.from \in Folders /\ copier.from # running
        /\ copier.step \in {"inspect", "copy"} => copier.to \in Folders /\ copier.to # running
    BY <2>1 DEF CopyInv, CopyTypeOK, SourceHeld, DestinationHeld, NoCopier, ServerHolds
  <2>8. SourceHeld' /\ DestinationHeld'
    BY <2>1, <2>3, <2>7 DEF CopyInv, SourceHeld, DestinationHeld, ContentAgrees
  <2> QED
    BY <2>4, <2>5, <2>8 DEF CopyInv
<1> QED
  BY <1>1, <1>2, <1>3, <1>4

----------------------------------------------------------------------------
(* snapshotLaunchStorage *)

\* The copier at work, with what its step says of it.
LEMMA AtWork ==
    ASSUME CopyInv, copier.step # "off"
    PROVE  /\ copier \in [step : {"inspect", "copy"}, action : {"backup", "restore"}, from : Folders,
                           to : Folders, evidence : Evidence, copied : SUBSET Databases]
           /\ copier.from \in Folders /\ copier.to \in Folders /\ copier.from # copier.to
           /\ DOMAIN copier.evidence \in SUBSET Databases
           /\ running = Nothing \/ running \in Folders \ {copier.from, copier.to}
<1>1. copier \in [step : {"inspect", "copy"}, action : {"backup", "restore"}, from : Folders,
                  to : Folders, evidence : Evidence, copied : SUBSET Databases]
  BY DEF CopyInv, CopyTypeOK, NoCopier
<1>2. DOMAIN copier.evidence \in SUBSET Databases
  BY <1>1 DEF Evidence
<1>3. copier.from # copier.to
  BY <1>1 DEF CopyInv, SourceHeld, DestinationHeld
<1>4. running = Nothing \/ running \in Folders \ {copier.from, copier.to}
  BY <1>1 DEF CopyInv, CopyTypeOK, SourceHeld, DestinationHeld, ServerHolds
<1> QED
  BY <1>1, <1>2, <1>3, <1>4

\* A copier that has ended leaves the locks of others and everything else as it was.
LEMMA CopierGone ==
    ASSUME CopyInv, copier' = NoCopier, running' = running, moments' = moments, fresh' = fresh,
           folders' \in [Folders -> FolderRecords],
           \A f \in Folders : folders'[f].data = folders[f].data /\ folders'[f].manifest = folders[f].manifest,
           running # Nothing => folders'[running].made /\ folders'[running].locked
    PROVE  CopyInv'
<1>1. FoldersAreMoments' /\ ManifestsAreMoments'
  BY MomentsStay
<1>2. CopyTypeOK'
  BY DEF CopyInv, CopyTypeOK
<1>3. ServerHolds'
  BY DEF CopyInv, CopyTypeOK, ServerHolds
<1>4. SourceHeld' /\ DestinationHeld'
  BY DEF SourceHeld, DestinationHeld, NoCopier
<1> QED
  BY <1>1, <1>2, <1>3, <1>4 DEF CopyInv

LEMMA CopyBeginsKeeps ==
    ASSUME CopyInv, NEW action \in {"backup", "restore"}, NEW f \in Folders, NEW t \in Folders, CopyBegins(action, f, t)
    PROVE  CopyInv'
<1>0. folders \in [Folders -> FolderRecords] /\ running \in Folders \cup {Nothing} /\ fresh \in Nat
  BY DEF CopyInv, CopyTypeOK
<1>1. /\ f # t /\ folders[f].made /\ ~folders[t].made /\ ~folders[f].locked
      /\ folders' = [folders EXCEPT ![f].locked = TRUE]
      /\ running' = running /\ moments' = moments /\ fresh' = fresh
  BY DEF CopyBegins, LocksSource
<1>2. copier' = [step |-> "inspect", action |-> action, from |-> f, to |-> t, evidence |-> [d \in {} |-> Nothing], copied |-> {}]
  BY DEF CopyBegins, NoCopier
<1>3. /\ folders' \in [Folders -> FolderRecords]
      /\ folders'[f] = [folders[f] EXCEPT !.locked = TRUE]
      /\ \A g \in Folders \ {f} : folders'[g] = folders[g]
  BY <1>0, <1>1 DEF FolderRecords
<1>4. [d \in {} |-> Nothing] \in Evidence
  <2>1. [d \in {} |-> Nothing] \in [{} -> Contents]
    OBVIOUS
  <2> QED
    BY <2>1 DEF Evidence
<1>5. CopyTypeOK'
  BY <1>0, <1>1, <1>2, <1>3, <1>4 DEF CopyTypeOK
<1>6. FoldersAreMoments' /\ ManifestsAreMoments'
  BY <1>0, <1>1, <1>3, MomentsStay DEF FolderRecords
<1>7. ServerHolds'
  BY <1>0, <1>1, <1>3 DEF CopyInv, ServerHolds, FolderRecords
<1>8. SourceHeld'
  <2>1. running # f \/ running = Nothing
    BY <1>1 DEF CopyInv, ServerHolds
  <2>2. DOMAIN copier'.evidence = {}
    BY <1>2
  <2> QED
    BY <1>0, <1>1, <1>2, <1>3, <2>1, <2>2 DEF SourceHeld, FolderRecords
<1>9. DestinationHeld'
  BY <1>1, <1>2, <1>3 DEF DestinationHeld
<1> QED
  BY <1>5, <1>6, <1>7, <1>8, <1>9 DEF CopyInv

LEMMA InspectKeeps ==
    ASSUME CopyInv, NEW d \in Databases, Inspect(d)
    PROVE  CopyInv'
<1> DEFINE seen == [x \in DOMAIN copier.evidence \cup {d} |->
                       IF x = d THEN folders[copier.from].data[d] ELSE copier.evidence[x]]
<1>0. folders \in [Folders -> FolderRecords] /\ running \in Folders \cup {Nothing} /\ fresh \in Nat
  BY DEF CopyInv, CopyTypeOK
<1>1. /\ copier.step = "inspect" /\ folders[copier.from].data[d] # Partial
      /\ UNCHANGED <<folders, running, moments, fresh>>
  BY DEF Inspect
<1>2. /\ copier \in [step : {"inspect", "copy"}, action : {"backup", "restore"}, from : Folders,
                      to : Folders, evidence : Evidence, copied : SUBSET Databases]
      /\ copier.from \in Folders /\ DOMAIN copier.evidence \in SUBSET Databases
  BY <1>1, AtWork
<1>3. copier' = [copier EXCEPT !.evidence = seen]
  BY DEF Inspect
<1>4. seen \in Evidence
  <2>1. PICK D \in SUBSET Databases : copier.evidence \in [D -> Contents]
    BY <1>2 DEF Evidence
  <2>2. folders[copier.from].data[d] \in Contents
    BY <1>0, <1>2 DEF FolderRecords, Data
  <2>3. seen \in [D \cup {d} -> Contents]
    BY <2>1, <2>2
  <2> QED
    BY <2>3 DEF Evidence
<1>5. \A x \in DOMAIN seen : seen[x] = folders[copier.from].data[x] /\ seen[x] # Partial
  BY <1>1 DEF CopyInv, SourceHeld
<1> HIDE DEF seen
<1>6. copier' = [step |-> "inspect", action |-> copier.action, from |-> copier.from, to |-> copier.to,
                 evidence |-> seen, copied |-> copier.copied]
  BY <1>1, <1>2, <1>3
<1>7. CopyTypeOK'
  BY <1>0, <1>1, <1>2, <1>4, <1>6 DEF CopyTypeOK
<1>8. FoldersAreMoments' /\ ManifestsAreMoments' /\ ServerHolds'
  BY <1>1 DEF CopyInv, FoldersAreMoments, ManifestsAreMoments, ServerHolds
<1>9. SourceHeld' /\ DestinationHeld'
  BY <1>1, <1>5, <1>6 DEF CopyInv, SourceHeld, DestinationHeld
<1> QED
  BY <1>7, <1>8, <1>9 DEF CopyInv

\* The folder that is not there.
LEMMA NoFolderTyped ==
    NoFolder \in FolderRecords /\ NoFolder.manifest = Nothing /\ \A d \in Databases : NoFolder.data[d] = Nothing
BY DEF NoFolder, FolderRecords, Data, Contents

LEMMA MakeDestinationKeeps ==
    ASSUME CopyInv, MakeDestination
    PROVE  CopyInv'
<1> DEFINE bare == [NoFolder EXCEPT !.made = TRUE, !.locked = TRUE]
<1>0. folders \in [Folders -> FolderRecords] /\ running \in Folders \cup {Nothing} /\ fresh \in Nat
  BY DEF CopyInv, CopyTypeOK
<1>1. /\ copier.step = "inspect" /\ DOMAIN copier.evidence = Databases /\ ContentAgrees
      /\ UNCHANGED <<running, moments, fresh>>
  BY DEF MakeDestination
<1>2. /\ copier \in [step : {"inspect", "copy"}, action : {"backup", "restore"}, from : Folders,
                      to : Folders, evidence : Evidence, copied : SUBSET Databases]
      /\ copier.from \in Folders /\ copier.to \in Folders /\ copier.from # copier.to
      /\ running = Nothing \/ running \in Folders \ {copier.from, copier.to}
  BY <1>1, AtWork
<1>3. folders' = [folders EXCEPT ![copier.to] = bare]
  BY DEF MakeDestination
<1>4. bare \in FolderRecords
  BY NoFolderTyped DEF FolderRecords
<1>5. bare.made /\ bare.locked /\ bare.manifest = Nothing /\ \A d \in Databases : bare.data[d] = Nothing
  BY NoFolderTyped DEF FolderRecords
<1> HIDE DEF bare
<1>6. /\ folders' \in [Folders -> FolderRecords] /\ folders'[copier.to] = bare
      /\ \A g \in Folders \ {copier.to} : folders'[g] = folders[g]
  BY <1>0, <1>2, <1>3, <1>4
<1>7. copier' = [step |-> "copy", action |-> copier.action, from |-> copier.from, to |-> copier.to,
                 evidence |-> copier.evidence, copied |-> copier.copied]
  BY <1>2 DEF MakeDestination
<1>8. CopyTypeOK'
  BY <1>0, <1>1, <1>2, <1>6, <1>7 DEF CopyTypeOK
<1>9. FoldersAreMoments'
  <2>1. ASSUME NEW g \in Folders PROVE \E m \in moments' : OfMoment(folders'[g].data, m)
    <3>1. PICK m \in moments : OfMoment(folders[g].data, m)
      BY DEF CopyInv, FoldersAreMoments
    <3>2. OfMoment(folders'[g].data, m)
      BY <1>5, <1>6, <3>1 DEF OfMoment
    <3> QED
      BY <1>1, <3>2
  <2> QED
    BY <2>1 DEF FoldersAreMoments, OfMoment
<1>10. ManifestsAreMoments'
  BY <1>1, <1>5, <1>6 DEF CopyInv, ManifestsAreMoments
<1>11. ServerHolds'
  BY <1>1, <1>2, <1>6 DEF CopyInv, ServerHolds
<1>13. SourceHeld'
  <2>1. folders'[copier.from] = folders[copier.from]
    BY <1>2, <1>6
  <2> QED
    BY <1>1, <1>2, <1>7, <2>1 DEF CopyInv, SourceHeld
<1>12. DestinationHeld'
  <2>1. ContentAgrees'
    BY <1>1, <1>2, <1>6, <1>7 DEF ContentAgrees
  <2> QED
    BY <1>1, <1>2, <1>5, <1>6, <1>7, <2>1 DEF DestinationHeld
<1> QED
  BY <1>8, <1>9, <1>10, <1>11, <1>12, <1>13 DEF CopyInv

LEMMA CopyDatabaseKeeps ==
    ASSUME CopyInv, NEW d \in Databases, CopyDatabase(d)
    PROVE  CopyInv'
<1>0. folders \in [Folders -> FolderRecords] /\ running \in Folders \cup {Nothing} /\ fresh \in Nat
  BY DEF CopyInv, CopyTypeOK
<1>1. copier.step = "copy" /\ UNCHANGED <<running, moments, fresh>>
  BY DEF CopyDatabase
<1>2. /\ copier \in [step : {"inspect", "copy"}, action : {"backup", "restore"}, from : Folders,
                      to : Folders, evidence : Evidence, copied : SUBSET Databases]
      /\ copier.from \in Folders /\ copier.to \in Folders /\ copier.from # copier.to
      /\ running = Nothing \/ running \in Folders \ {copier.from, copier.to}
  BY <1>1, AtWork
<1>3. DOMAIN copier.evidence = Databases /\ copier.evidence[d] \in Contents
  BY <1>1, <1>2 DEF CopyInv, DestinationHeld, Evidence
<1>4. PICK c \in {Partial, copier.evidence[d]} : folders' = [folders EXCEPT ![copier.to].data[d] = c]
  BY DEF CopyDatabase
<1>5. [folders[copier.to].data EXCEPT ![d] = c] \in Data
  BY <1>0, <1>2, <1>3 DEF Data, FolderRecords, Contents
<1>6. /\ folders' \in [Folders -> FolderRecords]
      /\ folders'[copier.to] = [folders[copier.to] EXCEPT !.data = [folders[copier.to].data EXCEPT ![d] = c]]
      /\ \A g \in Folders \ {copier.to} : folders'[g] = folders[g]
  BY <1>0, <1>2, <1>4, <1>5 DEF FolderRecords
<1>7. PICK done \in SUBSET Databases :
          copier' = [step |-> "copy", action |-> copier.action, from |-> copier.from, to |-> copier.to,
                     evidence |-> copier.evidence, copied |-> done]
  BY <1>1, <1>2 DEF CopyDatabase
<1>8. CopyTypeOK'
  BY <1>0, <1>1, <1>2, <1>6, <1>7 DEF CopyTypeOK
<1>9. /\ folders'[copier.to].made = folders[copier.to].made
      /\ folders'[copier.to].locked = folders[copier.to].locked
      /\ folders'[copier.to].manifest = folders[copier.to].manifest
      /\ \A x \in Databases : folders'[copier.to].data[x] \in {folders[copier.to].data[x], c}
      /\ \A x \in Databases \ {d} : folders'[copier.to].data[x] = folders[copier.to].data[x]
  BY <1>0, <1>2, <1>6 DEF FolderRecords, Data
<1>10. \A x \in Databases : folders'[copier.to].data[x] \in {copier.evidence[x], Nothing, Partial}
  BY <1>1, <1>9 DEF CopyInv, DestinationHeld
<1>11. SourceHeld'
  BY <1>1, <1>2, <1>6, <1>7 DEF CopyInv, SourceHeld
<1>12. DestinationHeld'
  <2>1. ContentAgrees'
    BY <1>1, <1>2, <1>6, <1>7 DEF CopyInv, DestinationHeld, ContentAgrees
  <2> QED
    BY <1>1, <1>2, <1>3, <1>7, <1>9, <1>10, <2>1 DEF CopyInv, DestinationHeld
<1>13. FoldersAreMoments'
  <2>1. ASSUME NEW g \in Folders PROVE \E m \in moments' : OfMoment(folders'[g].data, m)
    <3>1. CASE g # copier.to
      BY <1>1, <1>6, <3>1 DEF CopyInv, FoldersAreMoments
    <3>2. CASE g = copier.to
      <4>1. PICK m \in moments : OfMoment(folders[copier.from].data, m)
        BY <1>2 DEF CopyInv, FoldersAreMoments
      <4>2. \A x \in Databases : copier.evidence[x] = folders[copier.from].data[x]
        BY <1>1, <1>3 DEF CopyInv, SourceHeld
      <4>3. OfMoment(folders'[g].data, m)
        BY <1>10, <3>2, <4>1, <4>2 DEF OfMoment
      <4> QED
        BY <1>1, <4>3
    <3> QED
      BY <3>1, <3>2
  <2> QED
    BY <2>1 DEF FoldersAreMoments, OfMoment
<1>14. ManifestsAreMoments'
  <2>1. \A g \in Folders : folders'[g].manifest = folders[g].manifest
    BY <1>6, <1>9
  <2> QED
    BY <1>1, <2>1 DEF CopyInv, ManifestsAreMoments
<1>15. ServerHolds'
  BY <1>1, <1>2, <1>6 DEF CopyInv, ServerHolds
<1> QED
  BY <1>8, <1>11, <1>12, <1>13, <1>14, <1>15 DEF CopyInv

\* What both ends of a copy do with the locks.
LEMMA UnlockedTyped ==
    ASSUME CopyInv, copier.step # "off", NEW fs \in [Folders -> FolderRecords]
    PROVE  /\ Unlocked(fs) \in [Folders -> FolderRecords]
           /\ \A f \in Folders : Unlocked(fs)[f].data = fs[f].data /\ Unlocked(fs)[f].manifest = fs[f].manifest
           /\ \A f \in Folders \ {copier.from, copier.to} : Unlocked(fs)[f] = fs[f]
<1>1. \A f \in Folders : fs[f] \in FolderRecords
  OBVIOUS
<1>2. \A r \in FolderRecords : /\ [r EXCEPT !.locked = FALSE] \in FolderRecords
                               /\ [r EXCEPT !.locked = FALSE].data = r.data
                               /\ [r EXCEPT !.locked = FALSE].manifest = r.manifest
  BY DEF FolderRecords
<1> QED
  BY <1>1, <1>2 DEF Unlocked

LEMMA CopyEndsKeeps ==
    ASSUME CopyInv, CopyEnds
    PROVE  CopyInv'
<1> DEFINE named == [folders EXCEPT ![copier.to].manifest = copier.evidence]
<1>0. folders \in [Folders -> FolderRecords] /\ running \in Folders \cup {Nothing} /\ fresh \in Nat
  BY DEF CopyInv, CopyTypeOK
<1>1. copier.step = "copy" /\ copier' = NoCopier /\ UNCHANGED <<running, moments, fresh>> /\ folders' = Unlocked(named)
  BY DEF CopyEnds
<1>2. /\ copier.evidence \in Evidence
      /\ copier.from \in Folders /\ copier.to \in Folders /\ copier.from # copier.to
      /\ running = Nothing \/ running \in Folders \ {copier.from, copier.to}
  BY <1>1, AtWork
<1>3. DOMAIN copier.evidence = Databases /\ copier.evidence \in Data
  BY <1>1, <1>2 DEF CopyInv, DestinationHeld, Evidence, Data
<1>4. /\ named \in [Folders -> FolderRecords]
      /\ \A f \in Folders : named[f].data = folders[f].data
      /\ \A f \in Folders \ {copier.to} : named[f] = folders[f]
      /\ named[copier.to].manifest = copier.evidence
  BY <1>0, <1>2, <1>3 DEF FolderRecords
<1> HIDE DEF named
<1>5. /\ folders' \in [Folders -> FolderRecords]
      /\ \A f \in Folders : folders'[f].data = folders[f].data
      /\ \A f \in Folders \ {copier.to} : folders'[f].manifest = folders[f].manifest
      /\ folders'[copier.to].manifest = copier.evidence
      /\ \A f \in Folders \ {copier.from, copier.to} : folders'[f] = folders[f]
  BY <1>1, <1>2, <1>4, UnlockedTyped
<1>6. CopyTypeOK' /\ SourceHeld' /\ DestinationHeld'
  BY <1>0, <1>1, <1>5 DEF CopyTypeOK, SourceHeld, DestinationHeld, NoCopier
<1>7. FoldersAreMoments'
  BY <1>1, <1>5 DEF CopyInv, FoldersAreMoments
<1>8. ServerHolds'
  BY <1>1, <1>2, <1>5 DEF CopyInv, ServerHolds
<1>9. ManifestsAreMoments'
  <2>1. PICK m \in moments : OfMoment(folders[copier.from].data, m)
    BY <1>2 DEF CopyInv, FoldersAreMoments
  <2>2. \A x \in Databases : copier.evidence[x] = folders[copier.from].data[x] /\ copier.evidence[x] # Partial
    BY <1>1, <1>3 DEF CopyInv, SourceHeld
  <2>3. \A x \in Databases : copier.evidence[x] \in {m[x], Nothing}
    BY <2>1, <2>2 DEF OfMoment
  <2> QED
    BY <1>1, <1>5, <2>3 DEF CopyInv, ManifestsAreMoments
<1> QED
  BY <1>6, <1>7, <1>8, <1>9 DEF CopyInv

LEMMA CopyLeaves ==
    ASSUME CopyInv, CopyFails \/ CopyKilled \/ \E f \in Folders : OperatorUnlocks(f)
    PROVE  CopyInv'
<1>0. folders \in [Folders -> FolderRecords]
  BY DEF CopyInv, CopyTypeOK
<1>1. CASE CopyFails
  <2>1. copier.step # "off" /\ folders' = Unlocked(folders) /\ copier' = NoCopier /\ UNCHANGED <<running, moments, fresh>>
    BY <1>1 DEF CopyFails
  <2>2. running = Nothing \/ running \in Folders \ {copier.from, copier.to}
    BY <2>1, AtWork
  <2>3. /\ folders' \in [Folders -> FolderRecords]
        /\ \A f \in Folders : folders'[f].data = folders[f].data /\ folders'[f].manifest = folders[f].manifest
        /\ \A f \in Folders \ {copier.from, copier.to} : folders'[f] = folders[f]
    BY <1>0, <2>1, UnlockedTyped
  <2>4. running # Nothing => folders'[running].made /\ folders'[running].locked
    BY <2>2, <2>3 DEF CopyInv, ServerHolds
  <2> QED
    BY <2>1, <2>3, <2>4, CopierGone
<1>2. CASE CopyKilled
  <2>1. copier' = NoCopier /\ UNCHANGED <<folders, running, moments, fresh>>
    BY <1>2 DEF CopyKilled
  <2>2. running # Nothing => folders'[running].made /\ folders'[running].locked
    BY <2>1 DEF CopyInv, ServerHolds
  <2> QED
    BY <1>0, <2>1, <2>2, CopierGone
<1>3. ASSUME NEW f \in Folders, OperatorUnlocks(f) PROVE CopyInv'
  <2>1. /\ copier.step = "off" /\ copier' = copier /\ running # f /\ UNCHANGED <<running, moments, fresh>>
        /\ folders' = [folders EXCEPT ![f].locked = FALSE]
    BY <1>3 DEF OperatorUnlocks
  <2>2. copier' = NoCopier
    BY <2>1 DEF CopyInv, CopyTypeOK
  <2>3. /\ folders' \in [Folders -> FolderRecords]
        /\ \A g \in Folders : folders'[g].data = folders[g].data /\ folders'[g].manifest = folders[g].manifest
        /\ \A g \in Folders \ {f} : folders'[g] = folders[g]
    BY <1>0, <2>1 DEF FolderRecords
  <2>4. running # Nothing => folders'[running].made /\ folders'[running].locked
    BY <2>1, <2>3 DEF CopyInv, CopyTypeOK, ServerHolds
  <2> QED
    BY <2>1, <2>2, <2>3, <2>4, CopierGone
<1> QED
  BY <1>1, <1>2, <1>3

----------------------------------------------------------------------------
(* chain-recovery.ts, and what a step of either side may not do *)

\* A step of chain-recovery.ts, or of the server whose database it copies.
ChainStep ==
    \/ ChainWrites \/ ChainTarget \/ ChainCopied \/ ChainCopyFails \/ ChainCopyKilled
    \/ \E f, t \in ChainFiles : ChainCopyBegins(f, t)

LEMMA MarketLeavesChain ==
    ASSUME CopyInv, CopyNext, ~ChainStep
    PROVE  chainFiles' = chainFiles /\ chainCopy' = chainCopy
BY DEF CopyNext, ChainStep, ServerStarts, OperatorUnlocks, ServerWrites, Inspect, CopyDatabase, CopyBegins, ServerStops,
       ServerKilled, MakeDestination, CopyEnds, CopyFails, CopyKilled, chainSide

LEMMA ChainKeeps ==
    ASSUME ChainInv, fresh' \in Nat, ChainStep \/ (chainFiles' = chainFiles /\ chainCopy' = chainCopy)
    PROVE  /\ ChainInv'
           /\ \A f \in ChainFiles \ {ChainHome} : chainFiles[f] \notin {Nothing, Partial} => chainFiles'[f] = chainFiles[f]
<1>1. /\ chainFiles \in [ChainFiles -> Contents] /\ fresh \in Nat
      /\ chainCopy.step # "off" => chainCopy.to \in ChainFiles /\ chainCopy.content \in Contents
      /\ chainCopy.step = "created" => chainFiles[chainCopy.to] = Partial
  BY DEF ChainInv
<1>2. CASE ChainWrites
  BY <1>1, <1>2 DEF ChainWrites, ChainInv, Contents
<1>3. CASE ChainTarget
  <2>1. chainCopy' = [step |-> "created", from |-> chainCopy.from, to |-> chainCopy.to, content |-> chainCopy.content]
    BY <1>3 DEF ChainTarget, ChainInv
  <2> QED
    BY <1>1, <1>3, <2>1 DEF ChainTarget, ChainInv, Contents
<1>4. CASE ChainCopied
  BY <1>1, <1>4 DEF ChainCopied, ChainInv, NoCopy
<1>5. CASE ChainCopyFails
  BY <1>1, <1>5 DEF ChainCopyFails, Removed, ChainInv, NoCopy, Contents
<1>6. CASE ChainCopyKilled
  BY <1>1, <1>6 DEF ChainCopyKilled, ChainInv, NoCopy
<1>7. ASSUME NEW f \in ChainFiles, NEW t \in ChainFiles, ChainCopyBegins(f, t)
      PROVE  ChainInv' /\ chainFiles' = chainFiles
  BY <1>1, <1>7 DEF ChainCopyBegins, ChainInv
<1>8. CASE chainFiles' = chainFiles /\ chainCopy' = chainCopy
  BY <1>8 DEF ChainInv
<1> QED
  BY <1>2, <1>3, <1>4, <1>5, <1>6, <1>7, <1>8 DEF ChainStep

LEMMA CopyNextKeeps ==
    ASSUME CopyInv, [CopyNext]_copyVars
    PROVE  CopyInv' /\ fresh' \in Nat
<1>1. CASE ChainStep \/ UNCHANGED copyVars
  <2>1. UNCHANGED <<folders, running, copier, moments>> /\ fresh' \in {fresh, fresh + 1}
    BY <1>1 DEF copyVars, ChainStep, marketSide, ChainWrites, ChainTarget, ChainCopied, ChainCopyFails, ChainCopyKilled, ChainCopyBegins
  <2> QED
    BY <2>1 DEF CopyInv, CopyTypeOK, FoldersAreMoments, ServerHolds, SourceHeld, DestinationHeld, ContentAgrees, ManifestsAreMoments
<1>2. CASE CopyNext /\ ~ChainStep
  <2>1. CopyInv'
    BY <1>2, ServerKeeps, CopyBeginsKeeps, InspectKeeps, MakeDestinationKeeps, CopyDatabaseKeeps, CopyEndsKeeps, CopyLeaves
       DEF CopyNext, ChainStep
  <2> QED
    BY <2>1 DEF CopyInv, CopyTypeOK
<1> QED
  BY <1>1, <1>2

LEMMA CopyInitHolds ==
    ASSUME CopyInit
    PROVE  CopyInv /\ ChainInv
<1> DEFINE home == [NoFolder EXCEPT !.made = TRUE, !.data = [d \in Databases |-> 0]]
<1>1. /\ folders = [f \in Folders |-> IF f = Home THEN home ELSE NoFolder] /\ moments = {folders[Home].data}
      /\ running = Nothing /\ copier = NoCopier /\ fresh = 1
  BY DEF CopyInit
<1>2. [d \in Databases |-> 0] \in Data
  BY DEF Data, Contents
<1>3. home \in FolderRecords /\ home.manifest = Nothing
  BY <1>2, NoFolderTyped DEF FolderRecords
<1> HIDE DEF home
<1>4. CopyTypeOK
  BY <1>1, <1>3, NoFolderTyped DEF CopyTypeOK
<1>5. FoldersAreMoments
  BY <1>1, NoFolderTyped DEF FoldersAreMoments, OfMoment
<1>6. ServerHolds /\ SourceHeld /\ DestinationHeld
  BY <1>1 DEF ServerHolds, SourceHeld, DestinationHeld, NoCopier
<1>7. ManifestsAreMoments
  BY <1>1, <1>3, NoFolderTyped DEF ManifestsAreMoments
<1>8. ChainInv
  BY DEF CopyInit, ChainInv, NoCopy, Contents
<1> QED
  BY <1>4, <1>5, <1>6, <1>7, <1>8 DEF CopyInv

----------------------------------------------------------------------------
(* The theorems *)

\* Whatever has a manifest names databases that the market's server once held together, through any chain
\* of backups, failures and restores (snapshotLaunchStorage).
THEOREM ManifestsHold == CopySpec => []ManifestsAreMoments
<1>1. CopyInit => CopyInv
  BY CopyInitHolds
<1>2. CopyInv /\ [CopyNext]_copyVars => CopyInv'
  BY CopyNextKeeps
<1>3. CopyInv => ManifestsAreMoments
  BY DEF CopyInv
<1> QED
  BY <1>1, <1>2, <1>3, PTL DEF CopySpec

\* A folder that comes to have a manifest in a restore has the manifest of its source.
LEMMA ManifestPassedOn ==
    ASSUME CopyInv, [CopyNext]_copyVars, NEW f \in Folders, copier.action = "restore",
           folders[f].manifest = Nothing, folders'[f].manifest # Nothing
    PROVE  folders'[f].manifest = folders[copier.from].manifest
<1>0. folders \in [Folders -> FolderRecords]
  BY DEF CopyInv, CopyTypeOK
<1>1. CASE CopyEnds
  <2> DEFINE named == [folders EXCEPT ![copier.to].manifest = copier.evidence]
  <2>1. copier.step = "copy" /\ folders' = Unlocked(named)
    BY <1>1 DEF CopyEnds
  <2>2. copier.to \in Folders /\ folders[copier.from].manifest = copier.evidence
    BY <2>1, AtWork DEF CopyInv, DestinationHeld, ContentAgrees
  <2>3. folders'[f].manifest = named[f].manifest
    BY <1>0, <2>1 DEF Unlocked, FolderRecords
  <2> QED
    BY <1>0, <2>2, <2>3
<1>2. CASE ~CopyEnds
  <2>1. folders'[f].manifest = folders[f].manifest \/ folders'[f].manifest = Nothing
    <3>1. CASE \E g \in Folders : ServerStarts(g) \/ OperatorUnlocks(g)
      BY <1>0, <3>1 DEF ServerStarts, OperatorUnlocks, FolderRecords
    <3>2. CASE \E d \in Databases : ServerWrites(d)
      BY <1>0, <3>2 DEF ServerWrites, FolderRecords
    <3>3. CASE ServerStops
      BY <1>0, <3>3 DEF ServerStops, FolderRecords
    <3>4. CASE \E action \in {"backup", "restore"}, g, t \in Folders : CopyBegins(action, g, t)
      BY <1>0, <3>4 DEF CopyBegins, LocksSource, FolderRecords
    <3>5. CASE MakeDestination
      BY <1>0, <3>5 DEF MakeDestination, NoFolder
    <3>6. CASE \E d \in Databases : CopyDatabase(d)
      BY <1>0, <3>6 DEF CopyDatabase, FolderRecords
    <3>7. CASE CopyFails
      BY <1>0, <3>7 DEF CopyFails, Unlocked, FolderRecords
    <3>8. CASE folders' = folders
      BY <3>8
    <3>9. ChainStep \/ UNCHANGED copyVars \/ ServerKilled \/ CopyKilled \/ (\E d \in Databases : Inspect(d)) => folders' = folders
      BY DEF ChainStep, copyVars, marketSide, ServerKilled, CopyKilled, Inspect, ChainWrites, ChainTarget, ChainCopied,
             ChainCopyFails, ChainCopyKilled, ChainCopyBegins
    <3> QED
      BY <1>2, <3>1, <3>2, <3>3, <3>4, <3>5, <3>6, <3>7, <3>8, <3>9 DEF CopyNext, ChainStep
  <2> QED
    BY <2>1
<1> QED
  BY <1>1, <1>2

\* A restore passes on what the manifest of its source named, and no copy replaces or removes a file that
\* was there before it (SNAPSHOT_CONTENT_CHANGED, CHAIN_RECOVERY_TARGET_EXISTS).
THEOREM CopiesAreHonest == CopySpec => CopiesHonest
<1> DEFINE Both == CopyInv /\ ChainInv
           Passed == \A f \in Folders :
                        copier.action = "restore" /\ folders[f].manifest = Nothing /\ folders'[f].manifest # Nothing =>
                            folders'[f].manifest = folders[copier.from].manifest
           Kept == \A f \in ChainFiles \ {ChainHome} :
                        chainFiles[f] \notin {Nothing, Partial} => chainFiles'[f] = chainFiles[f]
<1>1. CopyInit => Both
  BY CopyInitHolds
<1>2. Both /\ [CopyNext]_copyVars => Both' /\ Passed /\ Kept
  <2> SUFFICES ASSUME Both, [CopyNext]_copyVars PROVE Both' /\ Passed /\ Kept
    OBVIOUS
  <2>1. CopyInv' /\ fresh' \in Nat
    BY CopyNextKeeps
  <2>2. ChainStep \/ (chainFiles' = chainFiles /\ chainCopy' = chainCopy)
    BY MarketLeavesChain DEF copyVars
  <2>3. ChainInv' /\ Kept
    BY <2>1, <2>2, ChainKeeps
  <2>4. Passed
    BY ManifestPassedOn
  <2> QED
    BY <2>1, <2>3, <2>4
<1>3. CopySpec => [][Passed]_copyVars /\ [][Kept]_copyVars
  BY <1>1, <1>2, PTL DEF CopySpec
<1> QED
  BY <1>3 DEF CopiesHonest, RestoresAreVerified, CopiesKeepFiles

----------------------------------------------------------------------------
(* The operations of the M3 backend: the inductive invariant *)

OpStates == {"SUBMITTED", "MINED", "CONFIRMING", "CONFIRMED", "REVERTED", "REPLACED", "DROPPED", "REORGED",
             "RECONCILIATION_FAILED"}
OpErrors == {"none", "TRANSACTION_REVERTED", "TRANSACTION_REPLACED", "TRANSACTION_DROPPED", "CHAIN_REORG",
             "EVENT_EVIDENCE_MISMATCH", "CONTRACT_STATE_MISMATCH"}
Claims == {r[2] : r \in UNION {f.reports : f \in M3Faults}}
OpRows ==
    [claim : Claims, state : OpStates, sent : BOOLEAN, n : Nat, at : Nat, receipt : {"none", "SUCCESS", "REVERTED"},
     confirmations : Int, replacement : BOOLEAN, canonical : BOOLEAN, reconciled : BOOLEAN, confirmedAt : BOOLEAN,
     error : OpErrors]
Facts == [tx : {c.tx : c \in Claims}, at : Nat, ok : BOOLEAN]
Nets == [chain : Seq(Nat), facts : SUBSET Facts, next : Nat \ {0}, calm : BOOLEAN]
Indexes == [chain : Seq(Nat), healthy : BOOLEAN]
Polls == [pc : {"idle", "vault", "pass", "page", "receipt", "reconcile"}, head : Seq(Nat), caught : BOOLEAN,
          page : Seq(OpIds), seen : Seq(OpIds), row : OpRows \cup {NoOp}, receipt : Nat]
Reports == UNION {f.reports : f \in M3Faults}
Pools == [reports : SUBSET Reports, reorgs : Int, faults : Int, lost : Int, closes : Int]

M3Types ==
    /\ net \in Nets
    /\ rows \in [OpIds -> OpRows \cup {NoOp}]
    /\ indexes \in [Contracts -> Indexes]
    /\ daemon = [phase |-> daemon.phase, poll |-> daemon.poll, cursor |-> daemon.cursor, last |-> daemon.last]
    /\ daemon.poll \in Polls
    /\ refused \in BOOLEAN
    /\ pool \in Pools

\* A chain the network had: hashes are used once, and it holds a transaction once.
InChain(hash, chain) == \E i \in 1 .. Len(chain) : chain[i] = hash
HashesOnce(chain, next) ==
    /\ \A i \in 1 .. Len(chain) : chain[i] # 0 /\ chain[i] < next
    /\ \A i, j \in 1 .. Len(chain) : chain[i] = chain[j] => i = j
TxsOnce(chain, facts) ==
    \A f, g \in facts : f.tx = g.tx /\ InChain(f.at, chain) /\ InChain(g.at, chain) => f = g
Real(chain) == HashesOnce(chain, net.next) /\ TxsOnce(chain, net.facts) /\ Len(chain) <= Len(net.chain)

ChainsReal ==
    /\ \A f \in net.facts : f.at < net.next
    /\ Real(net.chain) /\ Real(Poll.head) /\ \A c \in Contracts : Real(indexes[c].chain)

\* What a row says of the reported call is so.
Sound(row, facts) ==
    /\ ValidEvidence(row)
    /\ row.at # 0 => row.claim.kind # "stranger"
    /\ row.reconciled => row.claim.kind # "other"
    /\ row.receipt = "SUCCESS" => [tx |-> row.claim.tx, at |-> row.at, ok |-> TRUE] \in facts

\* A canonical operation is where its contract's index has its block.
InIndex(row, mine) ==
    row.canonical => row.n \in 1 .. Len(mine.chain) /\ mine.chain[row.n] = row.at

\* A confirmed operation stays deep: in the chain, in the head of a poll and in an index that is up to it.
DeepIn(row, mine) ==
    row.state = "CONFIRMED" =>
       /\ row.n + ReadyDepth <= Len(net.chain) + 1
       /\ Poll.pc # "idle" => row.n + ReadyDepth <= Len(Poll.head) + 1
       /\ mine.healthy => row.n + ReadyDepth <= Len(mine.chain) + 1

RowSound(row, mine) == Sound(row, net.facts) /\ InIndex(row, mine) /\ DeepIn(row, mine)
RowsSound == \A o \in OpIds : rows[o] # NoOp => RowSound(rows[o], indexes[rows[o].claim.target])

\* Where the poll is.
PageStored == \A i \in 1 .. Len(Poll.page) : rows[Poll.page[i]] # NoOp
HeadAhead ==
    /\ Poll.pc = "vault" => Len(indexes["vault"].chain) <= Len(Poll.head)
    /\ Poll.pc \in {"vault", "pass"} => Len(indexes["pass"].chain) <= Len(Poll.head)
Tracking ==
    Poll.pc = "reconcile" =>
       /\ Poll.page # <<>> /\ Poll.row \in OpRows
       /\ Poll.row.state \in {"MINED", "CONFIRMING", "RECONCILIATION_FAILED"}
       /\ Poll.row.n = Poll.receipt
       /\ indexes[Poll.row.claim.target].healthy /\ indexes[Poll.row.claim.target].chain = Poll.head

M3Inv ==
    /\ M3Types /\ ChainsReal /\ RowsSound /\ PageStored /\ HeadAhead /\ Tracking
    /\ ~refused

----------------------------------------------------------------------------
(* Numbers, and the order of a page *)

LEMMA LeastNumber ==
    ASSUME NEW S \in SUBSET Nat, S # {}
    PROVE  \E m \in S : \A p \in S : m <= p
<1> DEFINE R == OpToRel(<, Nat)
<1>1. IsWellFoundedOn(R, Nat)
  BY NatLessThanWellFounded
<1>2. \A x, y \in Nat : x < y => <<x, y>> \in R
  BY DEF OpToRel
<1> HIDE DEF R
<1>3. PICK m \in S : \A y \in S : ~(<<y, m>> \in R)
  BY <1>1, WFMin
<1>4. \A y \in S : ~(y < m)
  BY <1>2, <1>3
<1> QED BY <1>4

\* A finite set of numbers has one of each rank.
LEMMA RankExists ==
    ASSUME NEW S \in SUBSET Nat, IsFiniteSet(S), NEW k \in Nat, k < Cardinality(S)
    PROVE  \E o \in S : Cardinality({p \in S : p < o}) = k
<1> DEFINE Missing == {j \in Nat : j < Cardinality(S) /\ ~\E o \in S : Cardinality({p \in S : p < o}) = j}
<1> SUFFICES ASSUME Missing # {} PROVE FALSE
  OBVIOUS
<1>1. PICK j \in Missing : \A i \in Missing : j <= i
  <2>1. Missing \in SUBSET Nat
    OBVIOUS
  <2> HIDE DEF Missing
  <2> QED BY <2>1, LeastNumber
<1>2. j \in Nat /\ j < Cardinality(S) /\ ~\E o \in S : Cardinality({p \in S : p < o}) = j
  BY <1>1
<1>3. \A T \in SUBSET S : IsFiniteSet(T)
  BY FS_Subset
<1>4. CASE j = 0
  <2>1. S # {}
    BY <1>2, <1>4, FS_EmptySet
  <2>2. PICK m \in S : \A p \in S : m <= p
    BY <2>1, LeastNumber
  <2>3. {p \in S : p < m} = {}
    <3>1. \A p \in S : ~(p < m)
      <4>1. \A p \in S : p \in Nat
        OBVIOUS
      <4> QED BY <2>2, <4>1
    <3> QED BY <3>1
  <2> QED BY <1>2, <1>4, <2>3, FS_EmptySet
<1>5. CASE j # 0
  <2>1. j - 1 \in Nat /\ j - 1 < j /\ j - 1 < Cardinality(S)
    <3>1. Cardinality(S) \in Nat
      BY FS_CardinalityType
    <3> QED BY <1>2, <1>5, <3>1
  <2>2. j - 1 \notin Missing
    BY <1>1, <2>1
  <2>3. PICK o \in S : Cardinality({p \in S : p < o}) = j - 1
    BY <2>1, <2>2
  <2>4. PICK B \in SUBSET S : B = {p \in S : p < o}
    OBVIOUS
  <2>5. o \notin B /\ IsFiniteSet(B) /\ Cardinality(B) = j - 1
    BY <1>3, <2>3, <2>4
  <2>6. Cardinality(B \cup {o}) = j
    <3>1. Cardinality(B \cup {o}) = Cardinality(B) + 1
      BY <2>5, FS_AddElement
    <3> QED BY <1>2, <2>5, <3>1
  <2>7. PICK U \in SUBSET S : U = {p \in S : p > o}
    OBVIOUS
  <2>8. U # {}
    <3>1. SUFFICES ASSUME U = {} PROVE FALSE
      OBVIOUS
    <3>2. \A p \in S : p < o \/ p = o
      <4>1. \A p \in S : p \in Nat
        OBVIOUS
      <4> QED BY <2>7, <3>1, <4>1
    <3>3. S = B \cup {o}
      BY <2>4, <3>2
    <3>4. Cardinality(S) \in Nat
      BY FS_CardinalityType
    <3> QED BY <1>2, <2>6, <3>3, <3>4
  <2>9. PICK m \in U : \A p \in U : m <= p
    BY <2>8, LeastNumber
  <2>10. {p \in S : p < m} = B \cup {o}
    <3>1. \A p \in S : p < m <=> p < o \/ p = o
      <4>1. \A p \in S : p \in Nat
        OBVIOUS
      <4>2. m > o /\ \A p \in S : p > o => m <= p
        BY <2>7, <2>9
      <4> QED BY <2>9, <4>1, <4>2
    <3> QED BY <2>4, <3>1
  <2> QED BY <1>2, <2>6, <2>7, <2>9, <2>10
<1> QED BY <1>4, <1>5

LEMMA AscendingIn ==
    ASSUME NEW S \in SUBSET OpIds
    PROVE  Ascending(S) \in Seq(S)
<1>1. S \in SUBSET Nat /\ IsFiniteSet(S)
  BY M3Assumption, FS_Subset
<1>2. PICK n \in Nat : n = Cardinality(S)
  BY <1>1, FS_CardinalityType
<1>3. ASSUME NEW i \in 1 .. n PROVE Ranked(S, i) \in S
  <2>1. i - 1 \in Nat /\ i - 1 < n
    OBVIOUS
  <2>2. \E o \in S : Cardinality({p \in S : p < o}) = i - 1
    BY <1>1, <1>2, <2>1, RankExists
  <2> QED BY <2>2 DEF Ranked
<1>4. Ascending(S) = [i \in 1 .. n |-> Ranked(S, i)]
  BY <1>2, Zenon DEF Ascending
<1> QED BY <1>3, <1>4

LEMMA FirstOfIn ==
    ASSUME NEW S, NEW s \in Seq(S), NEW k \in Nat
    PROVE  FirstOf(s, k) \in Seq(S)
<1>1. PICK m \in Nat : m = (IF k < Len(s) THEN k ELSE Len(s)) /\ m <= Len(s)
  OBVIOUS
<1>2. FirstOf(s, k) = SubSeq(s, 1, m)
  BY <1>1, Zenon DEF FirstOf
<1> QED BY <1>1, <1>2

LEMMA InterleavedIn ==
    ASSUME NEW S, NEW a \in Seq(S), NEW b \in Seq(S)
    PROVE  Interleaved(a, b) \in Seq(S)
<1>1. PICK turns \in Nat : turns = (IF Len(a) < Len(b) THEN Len(a) ELSE Len(b)) /\ turns <= Len(a) /\ turns <= Len(b)
  OBVIOUS
<1>2. PICK la \in Nat : la = Len(a)
  OBVIOUS
<1>3. PICK lb \in Nat : lb = Len(b)
  OBVIOUS
<1> DEFINE At(i) == IF i > 2 * turns THEN IF Len(a) > turns THEN a[i - turns] ELSE b[i - turns]
                    ELSE IF i % 2 = 1 THEN a[(i + 1) \div 2] ELSE b[i \div 2]
<1>4. ASSUME NEW i \in 1 .. la + lb PROVE At(i) \in S
  <2>1. CASE i > 2 * turns /\ la > turns
    <3>1. i - turns \in 1 .. la
      BY <1>1, <1>2, <1>3, <2>1
    <3> QED BY <1>2, <2>1, <3>1
  <2>2. CASE i > 2 * turns /\ ~(la > turns)
    <3>1. i - turns \in 1 .. lb
      BY <1>1, <1>2, <1>3, <2>2
    <3> QED BY <1>2, <1>3, <2>2, <3>1
  <2>3. CASE ~(i > 2 * turns) /\ i % 2 = 1
    <3>1. (i + 1) \div 2 \in 1 .. la
      BY <1>1, <1>2, <2>3
    <3> QED BY <1>2, <2>3, <3>1
  <2>4. CASE ~(i > 2 * turns) /\ i % 2 # 1
    <3>1. i \div 2 \in 1 .. lb
      BY <1>1, <1>3, <2>4
    <3> QED BY <1>3, <2>4, <3>1
  <2> QED BY <1>2, <2>1, <2>2, <2>3, <2>4
<1>5. PICK both : both = [i \in 1 .. la + lb |-> At(i)]
  OBVIOUS
<1>6. both \in Seq(S)
  <2> HIDE DEF At
  <2> QED BY <1>4, <1>5
<1>7. Interleaved(a, b) = FirstOf(both, PageLimit)
  BY <1>1, <1>2, <1>3, <1>5, Zenon DEF Interleaved
<1> QED BY <1>6, <1>7, M3Assumption, FirstOfIn

LEMMA PageIn == Interleaved(TrackableFrom("vault"), TrackableFrom("pass")) \in Seq(Stored)
<1>1. ASSUME NEW c PROVE TrackableFrom(c) \in Seq(Stored)
  <2>1. PICK T \in SUBSET Stored : T = TrackableOf(c)
    BY DEF TrackableOf
  <2>2. PICK A \in SUBSET T : A = {o \in T : o > daemon.cursor[c]}
    OBVIOUS
  <2>3. PICK B \in SUBSET T : B = T \ A
    OBVIOUS
  <2>4. A \in SUBSET OpIds /\ B \in SUBSET OpIds
    BY <2>1, <2>2, <2>3 DEF Stored
  <2>5. Ascending(A) \in Seq(Stored) /\ Ascending(B) \in Seq(Stored)
    <3>1. Ascending(A) \in Seq(A) /\ Ascending(B) \in Seq(B)
      BY <2>4, AscendingIn
    <3> QED BY <2>1, <2>2, <2>3, <3>1
  <2>6. Ascending(A) \o Ascending(B) \in Seq(Stored)
    BY <2>5
  <2>7. TrackableFrom(c) = FirstOf(Ascending(A) \o Ascending(B), PageLimit)
    BY <2>1, <2>2, <2>3, Zenon DEF TrackableFrom
  <2>8. PICK s \in Seq(Stored) : s = Ascending(A) \o Ascending(B)
    BY <2>6
  <2>9. PageLimit \in Nat
    BY M3Assumption
  <2>10. FirstOf(s, PageLimit) \in Seq(Stored)
    BY <2>9, FirstOfIn
  <2> QED BY <2>7, <2>8, <2>10
<1> QED BY <1>1, InterleavedIn

\* Two chains have a longest common beginning.
LEMMA CommonLengthHolds ==
    ASSUME NEW a \in Seq(Nat), NEW b \in Seq(Nat), NEW k, k = CommonLength(a, b)
    PROVE  k \in Nat /\ k <= Len(a) /\ k <= Len(b) /\ \A i \in 1 .. k : a[i] = b[i]
<1> DEFINE Apart == {j \in Nat : j <= Len(a) /\ j <= Len(b) /\ (j < Len(a) /\ j < Len(b) => a[j + 1] # b[j + 1])}
<1>1. Apart # {} /\ Apart \in SUBSET Nat
  <2>1. (IF Len(a) < Len(b) THEN Len(a) ELSE Len(b)) \in Apart
    OBVIOUS
  <2> QED BY <2>1
<1>2. PICK j \in Apart : \A i \in Apart : j <= i
  <2> HIDE DEF Apart
  <2> QED BY <1>1, LeastNumber
<1>3. j \in 0 .. Len(a) /\ j <= Len(b) /\ (j < Len(a) /\ j < Len(b) => a[j + 1] # b[j + 1])
  BY <1>2
<1>4. ASSUME NEW i \in 1 .. j PROVE a[i] = b[i]
  <2>1. i - 1 \in Nat /\ i - 1 < j /\ i - 1 < Len(a) /\ i - 1 < Len(b) /\ (i - 1) + 1 = i
    BY <1>3
  <2>2. i - 1 \notin Apart
    BY <1>2, <2>1
  <2> QED BY <2>1, <2>2
<1>5. SubSeq(a, 1, j) = SubSeq(b, 1, j)
  BY <1>3, <1>4
<1> DEFINE Fits(m) == /\ m <= Len(b) /\ SubSeq(a, 1, m) = SubSeq(b, 1, m)
                      /\ m < Len(a) /\ m < Len(b) => a[m + 1] # b[m + 1]
<1>6. Fits(j)
  BY <1>3, <1>5
<1>7. k = CHOOSE m \in 0 .. Len(a) : Fits(m)
  BY Zenon DEF CommonLength
<1>8. k \in 0 .. Len(a) /\ Fits(k)
  <2> HIDE DEF Fits
  <2> QED BY <1>3, <1>6, <1>7
<1>9. ASSUME NEW i \in 1 .. k PROVE a[i] = b[i]
  <2>1. SubSeq(a, 1, k)[i] = a[i] /\ SubSeq(b, 1, k)[i] = b[i]
    BY <1>8
  <2> QED BY <1>8, <2>1
<1> QED BY <1>8, <1>9

----------------------------------------------------------------------------
(* What the steps have in common *)

LEMMA ClaimFacts ==
    /\ \A c \in Claims : c.target \in Contracts /\ c.kind \in {"true", "stranger", "other"}
    /\ \A r \in Reports : r[1] \in OpIds /\ r[2] \in Claims
<1>1. \A f \in M3Faults : \A r \in f.reports : r[1] \in OpIds /\ r[2].target \in Contracts
                                               /\ r[2].kind \in {"true", "stranger", "other"}
  BY M3Assumption
<1> QED BY <1>1 DEF Claims, Reports

LEMMA M3Constants == PerSync \in Nat /\ ReadyDepth \in Nat /\ OpIds \subseteq Nat
  BY M3Assumption

LEMMA RowIsSome == ASSUME NEW row \in OpRows PROVE row # NoOp
<1>1. row.state # "NONE"
  BY DEF OpRows, OpStates
<1> QED BY <1>1 DEF NoOp

LEMMA IdlePoll == Idle \in Polls /\ Idle.pc = "idle" /\ Idle.head = <<>> /\ Idle.page = <<>>
  BY DEF Idle, Polls

LEMMA StoredRow ==
    ASSUME M3Inv, NEW o \in OpIds, rows[o] # NoOp
    PROVE  /\ rows[o] \in OpRows /\ rows[o].claim \in Claims /\ rows[o].claim.target \in Contracts
           /\ RowSound(rows[o], indexes[rows[o].claim.target])
<1>1. rows[o] \in OpRows
  BY DEF M3Inv, M3Types
<1> QED BY <1>1, ClaimFacts DEF M3Inv, RowsSound, OpRows

\* The network only adds: longer chains, new hashes, more facts.
NetOnward ==
    /\ net.facts \subseteq net'.facts /\ Len(net.chain) <= Len(net'.chain) /\ net.next <= net'.next
    /\ \A f \in net'.facts : f \in net.facts \/ f.at >= net.next

LEMMA RealKept ==
    ASSUME NEW chain \in Seq(Nat), Real(chain), net \in Nets, net' \in Nets, NetOnward
    PROVE  Real(chain)'
<1>1. \A i \in 1 .. Len(chain) : chain[i] \in Nat
  OBVIOUS
<1>2. net.next \in Nat /\ net'.next \in Nat /\ Len(net.chain) \in Nat /\ Len(net'.chain) \in Nat /\ Len(chain) \in Nat
  BY DEF Nets
<1>3. HashesOnce(chain, net'.next)
  BY <1>1, <1>2 DEF Real, HashesOnce, NetOnward
<1>4. \A f \in net'.facts : f.at \in Nat
  BY DEF Nets, Facts
<1>5. \A f \in net'.facts : InChain(f.at, chain) => f \in net.facts
  BY <1>1, <1>2, <1>4 DEF Real, HashesOnce, NetOnward, InChain
<1>6. TxsOnce(chain, net'.facts)
  BY <1>5 DEF Real, TxsOnce
<1> QED BY <1>2, <1>3, <1>6 DEF Real, NetOnward

\* The beginning of a chain is one.
LEMMA RealPrefix ==
    ASSUME net \in Nets, Real(net.chain), NEW k \in Nat, k <= Len(net.chain)
    PROVE  /\ SubSeq(net.chain, 1, k) \in Seq(Nat) /\ Len(SubSeq(net.chain, 1, k)) = k
           /\ \A i \in 1 .. k : SubSeq(net.chain, 1, k)[i] = net.chain[i]
           /\ Real(SubSeq(net.chain, 1, k))
<1>1. PICK chain \in Seq(Nat) : chain = net.chain
  BY DEF Nets
<1>2. PICK part : part = SubSeq(chain, 1, k)
  OBVIOUS
<1>3. part \in Seq(Nat) /\ Len(part) = k /\ \A i \in 1 .. k : part[i] = chain[i]
  BY <1>1, <1>2
<1>4. \A i \in 1 .. k : i \in 1 .. Len(chain)
  BY <1>1
<1>5. HashesOnce(part, net.next)
  BY <1>1, <1>3, <1>4 DEF Real, HashesOnce
<1>6. \A h : InChain(h, part) => InChain(h, chain)
  BY <1>3, <1>4 DEF InChain
<1>7. TxsOnce(part, net.facts)
  BY <1>1, <1>6 DEF Real, TxsOnce
<1>8. Real(part)
  BY <1>1, <1>3, <1>5, <1>7 DEF Real
<1> QED BY <1>1, <1>2, <1>3, <1>8

\* A poll that goes on, ends or begins.
PollOnward == Poll'.pc = "idle" \/ (Poll.pc # "idle" /\ Poll'.head = Poll.head) \/ (Poll'.head = net.chain /\ net' = net)

LEMMA RowCarries ==
    ASSUME M3Inv, NetOnward, net' \in Nets, PollOnward, NEW row \in OpRows, NEW c \in Contracts,
           RowSound(row, indexes[c]), indexes'[c].chain = indexes[c].chain, indexes'[c].healthy => indexes[c].healthy
    PROVE  RowSound(row, indexes[c])'
<1>1. PICK mine \in Indexes : mine = indexes[c]
  BY DEF M3Inv, M3Types
<1>2. PICK next : next = indexes'[c]
  OBVIOUS
<1>3. RowSound(row, mine) /\ next.chain = mine.chain /\ (next.healthy => mine.healthy)
  BY <1>1, <1>2
<1>4. Sound(row, net'.facts) /\ InIndex(row, next)
  BY <1>3 DEF RowSound, Sound, InIndex, NetOnward
<1>5. Len(net.chain) \in Nat /\ Len(net'.chain) \in Nat /\ row.n \in Nat /\ ReadyDepth \in Nat /\ Len(Poll.head) \in Nat
  BY M3Constants DEF M3Inv, M3Types, Nets, OpRows, Polls, Poll
<1>6. DeepIn(row, next)'
  <2> SUFFICES ASSUME row.state = "CONFIRMED"
               PROVE  /\ row.n + ReadyDepth <= Len(net'.chain) + 1
                      /\ Poll'.pc # "idle" => row.n + ReadyDepth <= Len(Poll'.head) + 1
                      /\ next.healthy => row.n + ReadyDepth <= Len(next.chain) + 1
    BY DEF DeepIn
  <2>1. PICK m \in Int : m = row.n + ReadyDepth
    BY <1>5
  <2>2. /\ m <= Len(net.chain) + 1
        /\ Poll.pc # "idle" => m <= Len(Poll.head) + 1
        /\ mine.healthy => m <= Len(mine.chain) + 1
    BY <1>3, <2>1 DEF RowSound, DeepIn
  <2>3. m <= Len(net'.chain) + 1
    BY <1>5, <2>2 DEF NetOnward
  <2>4. Poll'.pc # "idle" => m <= Len(Poll'.head) + 1
    BY <2>2 DEF PollOnward
  <2> QED BY <1>3, <2>1, <2>2, <2>3, <2>4
<1> QED BY <1>2, <1>4, <1>6 DEF RowSound

LEMMA RowsStand ==
    ASSUME M3Inv, NetOnward, net' \in Nets, PollOnward,
           \A c \in Contracts : indexes'[c].chain = indexes[c].chain /\ (indexes'[c].healthy => indexes[c].healthy),
           \A o \in OpIds : \/ rows'[o] = rows[o]
                            \/ rows'[o] \in OpRows /\ RowSound(rows[o], indexes[rows[o].claim.target])'
    PROVE  RowsSound'
<1> SUFFICES ASSUME NEW o \in OpIds, rows'[o] # NoOp
             PROVE  RowSound(rows[o], indexes[rows[o].claim.target])'
  BY DEF RowsSound
<1>1. CASE rows'[o] = rows[o]
  <2>1. PICK row \in OpRows : row = rows[o] /\ row.claim.target \in Contracts /\ RowSound(row, indexes[row.claim.target])
    BY <1>1, StoredRow
  <2>2. RowSound(row, indexes[row.claim.target])'
    BY <2>1, RowCarries
  <2> QED BY <1>1, <2>1, <2>2
<1> QED BY <1>1

\* saveOperation of a row that is as it should be.
LEMMA SavedRow ==
    ASSUME M3Inv, NEW o \in OpIds, NEW row \in OpRows, ValidEvidence(row), Save(o, row)
    PROVE  /\ rows' \in [OpIds -> OpRows \cup {NoOp}] /\ refused' = FALSE
           /\ \A p \in OpIds : rows'[p] = rows[p] \/ rows'[p] = row
           /\ \A p \in OpIds : rows[p] # NoOp => rows'[p] # NoOp
<1>1. rows \in [OpIds -> OpRows \cup {NoOp}] /\ refused = FALSE
  BY DEF M3Inv, M3Types
<1>2. refused' = FALSE
  BY <1>1 DEF Save
<1>3. rows' = rows \/ rows' = [rows EXCEPT ![o] = row]
  BY DEF Save
<1>4. row # NoOp
  BY RowIsSome
<1> QED BY <1>1, <1>2, <1>3, <1>4

LEMMA NoNews == ASSUME net' = net, net \in Nets PROVE net' \in Nets /\ NetOnward
  BY DEF NetOnward, Nets

\* A step that leaves the network and the indexes alone, and ends or goes on with the poll.
LEMMA PollMoves ==
    ASSUME M3Inv, UNCHANGED <<net, indexes>>, pool' \in Pools, refused' = FALSE,
           rows' \in [OpIds -> OpRows \cup {NoOp}],
           \A o \in OpIds : \/ rows'[o] = rows[o]
                            \/ rows'[o] \in OpRows /\ RowSound(rows[o], indexes[rows[o].claim.target])',
           \A o \in OpIds : rows[o] # NoOp => rows'[o] # NoOp,
           daemon' = [phase |-> daemon'.phase, poll |-> daemon'.poll, cursor |-> daemon'.cursor, last |-> daemon'.last],
           Poll' \in Polls, PollOnward, Real(Poll'.head), PageStored', HeadAhead', Tracking'
    PROVE  M3Inv'
<1>1. net \in Nets /\ net' \in Nets /\ NetOnward
  BY NoNews DEF M3Inv, M3Types
<1>2. RowsSound'
  BY <1>1, RowsStand
<1>3. ChainsReal'
  BY DEF M3Inv, ChainsReal, Real
<1>4. M3Types'
  BY DEF M3Inv, M3Types, Poll
<1> QED BY <1>2, <1>3, <1>4 DEF M3Inv

----------------------------------------------------------------------------
(* The steps keep the invariant *)

LEMMA M3Starts == M3ServerInit => M3Inv
<1> SUFFICES ASSUME M3ServerInit PROVE M3Inv
  OBVIOUS
<1>1. net = [chain |-> <<1>>, facts |-> {}, next |-> 2, calm |-> FALSE] /\ daemon = Booted /\ refused = FALSE
      /\ rows = [o \in OpIds |-> NoOp] /\ indexes = [c \in Contracts |-> [chain |-> <<>>, healthy |-> FALSE]]
      /\ pool \in M3Faults
  BY DEF M3ServerInit
<1>2. Poll = Idle
  BY <1>1 DEF Poll, Booted
<1>3. pool \in Pools
  <2>1. pool \in [reports : {pool.reports}, reorgs : Nat, faults : Nat, lost : Nat, closes : Nat]
    BY <1>1, M3Assumption
  <2>2. pool.reports \in SUBSET Reports
    BY <1>1 DEF Reports
  <2> QED BY <2>1, <2>2 DEF Pools
<1>4. net \in Nets
  BY <1>1 DEF Nets
<1>5. indexes \in [Contracts -> Indexes] /\ \A c \in Contracts : indexes[c].chain = <<>>
  BY <1>1 DEF Indexes
<1>6. M3Types
  BY <1>1, <1>2, <1>3, <1>4, <1>5, IdlePoll DEF M3Types, Booted, Poll
<1>7. ChainsReal
  <2>1. Len(net.chain) = 1 /\ net.chain[1] = 1 /\ net.next = 2 /\ net.facts = {} /\ Len(<<>>) = 0
    BY <1>1
  <2> QED BY <1>2, <1>5, <2>1, IdlePoll DEF ChainsReal, Real, HashesOnce, TxsOnce
<1>8. RowsSound
  BY <1>1 DEF RowsSound
<1>9. PageStored /\ HeadAhead /\ Tracking
  BY <1>2, IdlePoll DEF PageStored, HeadAhead, Tracking
<1> QED BY <1>1, <1>6, <1>7, <1>8, <1>9 DEF M3Inv

\* New blocks: the network goes onward, and its chain is a real one.
LEMMA GrowGoesOnward ==
    ASSUME M3Inv, Grow
    PROVE  net' \in Nets /\ NetOnward /\ Real(net.chain)' /\ \A f \in net'.facts : f.at < net'.next
<1>1. net \in Nets /\ pool \in Pools /\ Real(net.chain) /\ \A f \in net.facts : f.at < net.next
  BY DEF M3Inv, M3Types, ChainsReal
<1>2. PICK txs \in SUBSET {tx \in Txs : ReceiptOf(tx) = {}}, ok \in BOOLEAN :
         net' = [net EXCEPT !.chain = Append(@, net.next), !.next = @ + 1,
                            !.facts = @ \cup {[tx |-> tx, at |-> net.next, ok |-> ok] : tx \in txs}]
  BY DEF Grow
<1>3. PICK chain \in Seq(Nat), next \in Nat \ {0}, facts \in SUBSET Facts : chain = net.chain /\ next = net.next /\ facts = net.facts
  BY <1>1 DEF Nets
<1>4. PICK new : new = {[tx |-> tx, at |-> next, ok |-> ok] : tx \in txs}
  OBVIOUS
<1>5. \A tx \in txs : tx \in {c.tx : c \in Claims} /\ ReceiptOf(tx) = {}
  BY <1>1, <1>2 DEF Txs, Pools, Reports, Claims
<1>6. new \in SUBSET Facts
  BY <1>4, <1>5 DEF Facts
<1>7. PICK chain2 \in Seq(Nat) : chain2 = Append(chain, next)
  <2>1. Append(chain, next) \in Seq(Nat)
    OBVIOUS
  <2> QED BY <2>1, Zenon
<1>8. net' = [net EXCEPT !.chain = chain2, !.next = next + 1, !.facts = facts \cup new]
  BY <1>1, <1>2, <1>3, <1>4, <1>7 DEF Nets
<1>9. net' \in Nets /\ net'.chain = chain2 /\ net'.next = next + 1 /\ net'.facts = facts \cup new
  <2>1. PICK all \in SUBSET Facts : all = facts \cup new
    BY <1>6
  <2>2. PICK next2 \in Nat \ {0} : next2 = next + 1
    OBVIOUS
  <2>3. net' = [net EXCEPT !.chain = chain2, !.next = next2, !.facts = all]
    BY <1>8, <2>1, <2>2
  <2> QED BY <1>1, <2>1, <2>2, <2>3 DEF Nets
<1>10. \A f \in new : f.at = next
  BY <1>4
<1>11. Len(chain2) = Len(chain) + 1 /\ chain2[Len(chain) + 1] = next /\ \A i \in 1 .. Len(chain) : chain2[i] = chain[i]
  BY <1>7
<1>12. NetOnward
  BY <1>3, <1>9, <1>10, <1>11 DEF NetOnward
<1>13. \A i \in 1 .. Len(chain) : chain[i] \in Nat /\ chain[i] # 0 /\ chain[i] < next
  BY <1>1, <1>3 DEF Real, HashesOnce
<1>14. \A i \in 1 .. Len(chain2) : i \in 1 .. Len(chain) \/ i = Len(chain) + 1
  BY <1>11
<1>15. next # 0
  OBVIOUS
<1>16. HashesOnce(chain2, next + 1)
  <2>1. \A i \in 1 .. Len(chain2) : chain2[i] # 0 /\ chain2[i] < next + 1
    <3>1. ASSUME NEW i \in 1 .. Len(chain) PROVE chain2[i] # 0 /\ chain2[i] < next + 1
      <4>1. chain2[i] = chain[i]
        BY <1>11
      <4>2. PICK hash \in Nat : hash = chain[i] /\ hash # 0 /\ hash < next
        BY <1>13
      <4>3. hash < next + 1
        BY <4>2
      <4> QED BY <4>1, <4>2, <4>3
    <3>2. chain2[Len(chain) + 1] # 0 /\ chain2[Len(chain) + 1] < next + 1
      BY <1>11, <1>15
    <3> QED BY <1>14, <3>1, <3>2
  <2>2. ASSUME NEW i \in 1 .. Len(chain2), NEW j \in 1 .. Len(chain2), chain2[i] = chain2[j] PROVE i = j
    <3>1. \A m \in 1 .. Len(chain) : chain2[m] # next
      BY <1>11, <1>13
    <3>2. CASE i \in 1 .. Len(chain) /\ j \in 1 .. Len(chain)
      BY <1>1, <1>3, <1>11, <2>2, <3>2 DEF Real, HashesOnce
    <3> QED BY <1>11, <1>14, <2>2, <3>1, <3>2
  <2> QED BY <2>1, <2>2 DEF HashesOnce
<1>17. \A f \in facts : f.at \in Nat /\ f.at < next
  BY <1>1, <1>3 DEF Facts
<1>18. \A f \in facts : InChain(f.at, chain2) => InChain(f.at, chain)
  BY <1>11, <1>14, <1>17 DEF InChain
<1>19. \A f \in facts, g \in new : InChain(f.at, chain2) => f.tx # g.tx
  <2> SUFFICES ASSUME NEW f \in facts, NEW g \in new, InChain(f.at, chain2), f.tx = g.tx PROVE FALSE
    OBVIOUS
  <2>1. f.at \in Hashes
    BY <1>3, <1>18 DEF InChain, Hashes
  <2>2. g.tx \in txs
    BY <1>4
  <2> QED BY <1>3, <1>5, <2>1, <2>2 DEF ReceiptOf
<1>20. \A f, g \in new : f.tx = g.tx => f = g
  BY <1>4
<1>21. TxsOnce(chain2, facts \cup new)
  BY <1>1, <1>3, <1>18, <1>19, <1>20 DEF Real, TxsOnce
<1>22. \A f \in net'.facts : f.at < net'.next
  BY <1>9, <1>10, <1>17
<1> QED BY <1>9, <1>12, <1>16, <1>21, <1>22 DEF Real

LEMMA PrefixOf ==
    ASSUME NEW s \in Seq(Nat), NEW n \in Nat, n <= Len(s)
    PROVE  SubSeq(s, 1, n) \in Seq(Nat) /\ Len(SubSeq(s, 1, n)) = n /\ \A i \in 1 .. n : SubSeq(s, 1, n)[i] = s[i]
  OBVIOUS

LEMMA Joined ==
    ASSUME NEW s \in Seq(Nat), NEW t \in Seq(Nat)
    PROVE  /\ s \o t \in Seq(Nat) /\ Len(s \o t) = Len(s) + Len(t)
           /\ \A i \in 1 .. Len(s) : (s \o t)[i] = s[i]
           /\ \A i \in Len(s) + 1 .. Len(s) + Len(t) : (s \o t)[i] = t[i - Len(s)]
  OBVIOUS

\* The hashes of a chain after the first ones replaced by the next of the network.
Replaced(chain, chain2, len, next) ==
    /\ chain2 \in Seq(Nat) /\ Len(chain2) = Len(chain) /\ (\A i \in 1 .. len : chain2[i] = chain[i])
    /\ \A i \in len + 1 .. Len(chain) : chain2[i] = next + (i - len) - 1

LEMMA ReplacedEnd ==
    ASSUME NEW chain \in Seq(Nat), NEW len \in Nat, NEW k \in Nat, len + k = Len(chain), NEW next \in Nat \ {0}, NEW chain2,
           chain2 = SubSeq(chain, 1, len) \o [i \in 1 .. k |-> next + i - 1]
    PROVE  Replaced(chain, chain2, len, next)
<1>1. PICK kept : kept = SubSeq(chain, 1, len)
  OBVIOUS
<1>2. kept \in Seq(Nat) /\ Len(kept) = len /\ \A i \in 1 .. len : kept[i] = chain[i]
  <2>1. len <= Len(chain)
    OBVIOUS
  <2> QED BY <1>1, <2>1, PrefixOf
<1>3. PICK added : added = [i \in 1 .. k |-> next + i - 1]
  OBVIOUS
<1>4. \A i \in 1 .. k : next + i - 1 \in Nat
  OBVIOUS
<1>5. added \in Seq(Nat) /\ Len(added) = k /\ \A i \in 1 .. k : added[i] = next + i - 1
  BY <1>3, <1>4
<1>6. chain2 = kept \o added
  BY <1>1, <1>3
<1>7. /\ chain2 \in Seq(Nat) /\ Len(chain2) = Len(kept) + Len(added)
      /\ \A i \in 1 .. Len(kept) : chain2[i] = kept[i]
      /\ \A i \in Len(kept) + 1 .. Len(kept) + Len(added) : chain2[i] = added[i - Len(kept)]
  <2>1. kept \in Seq(Nat) /\ added \in Seq(Nat)
    BY <1>2, <1>5
  <2>2. /\ kept \o added \in Seq(Nat) /\ Len(kept \o added) = Len(kept) + Len(added)
        /\ \A i \in 1 .. Len(kept) : (kept \o added)[i] = kept[i]
        /\ \A i \in Len(kept) + 1 .. Len(kept) + Len(added) : (kept \o added)[i] = added[i - Len(kept)]
    BY <2>1, Joined, Zenon
  <2> QED BY <1>6, <2>2, Zenon
<1>8. ASSUME NEW i \in len + 1 .. Len(chain) PROVE chain2[i] = next + (i - len) - 1
  <2>1. i - len \in 1 .. k /\ i \in len + 1 .. len + k
    OBVIOUS
  <2> QED BY <1>2, <1>5, <1>7, <2>1
<1> QED BY <1>2, <1>5, <1>7, <1>8 DEF Replaced

LEMMA ReorganiseGoesOnward ==
    ASSUME M3Inv, Reorganise
    PROVE  net' \in Nets /\ NetOnward /\ Real(net.chain)' /\ \A f \in net'.facts : f.at < net'.next
<1>1. net \in Nets /\ Real(net.chain) /\ \A f \in net.facts : f.at < net.next
  BY DEF M3Inv, M3Types, ChainsReal
<1>2. PICK chain \in Seq(Nat), next \in Nat \ {0}, facts \in SUBSET Facts : chain = net.chain /\ next = net.next /\ facts = net.facts
  BY <1>1 DEF Nets
<1>3. PICK k, again, kept, gone :
         /\ k \in 1 .. Len(net.chain) - 1 /\ again \in BOOLEAN
         /\ kept = SubSeq(net.chain, 1, Len(net.chain) - k)
         /\ gone = {f \in net.facts : f.at \in Hashes \ {kept[i] : i \in 1 .. Len(kept)}}
         /\ net' = [net EXCEPT !.chain = kept \o [i \in 1 .. k |-> net.next + i - 1], !.next = @ + k,
                               !.facts = IF again THEN @ \cup {[f EXCEPT !.at = net.next] : f \in gone} ELSE @]
  BY DEF Reorganise
<1>4. PICK len \in Nat : len = Len(net.chain) - k /\ len + k = Len(chain) /\ len >= 1 /\ len <= Len(chain)
  <2>1. PICK m \in Nat : m = Len(chain)
    BY <1>2
  <2>2. k \in 1 .. m - 1
    BY <1>2, <1>3, <2>1
  <2>3. m - k \in Nat /\ (m - k) + k = m /\ m - k >= 1 /\ m - k <= m
    BY <2>2
  <2> QED BY <1>2, <2>1, <2>3
<1>5. k \in Nat /\ k >= 1
  BY <1>2, <1>3
<1>6. kept = SubSeq(chain, 1, len)
  BY <1>2, <1>3, <1>4
<1>7. Len(kept) = len /\ \A i \in 1 .. len : kept[i] = chain[i]
  BY <1>4, <1>6, PrefixOf
<1>9. gone \in SUBSET facts /\ gone = {f \in facts : f.at \in Hashes \ {kept[i] : i \in 1 .. Len(kept)}}
  BY <1>2, <1>3
<1>10. PICK new : new = IF again THEN {[f EXCEPT !.at = next] : f \in gone} ELSE {}
  OBVIOUS
<1>11. \A g \in new : \E f \in gone : g = [f EXCEPT !.at = next]
  BY <1>10
<1>12. \A f \in facts : f \in Facts /\ [f EXCEPT !.at = next] \in Facts /\ [f EXCEPT !.at = next].at = next
                        /\ [f EXCEPT !.at = next].tx = f.tx
  BY DEF Facts
<1>13. new \in SUBSET Facts /\ \A g \in new : g.at = next
  BY <1>9, <1>11, <1>12
<1>14. PICK chain2 : chain2 = SubSeq(chain, 1, len) \o [i \in 1 .. k |-> next + i - 1]
  OBVIOUS
<1>15. /\ chain2 \in Seq(Nat) /\ Len(chain2) = Len(chain) /\ (\A i \in 1 .. len : chain2[i] = chain[i])
       /\ \A i \in len + 1 .. Len(chain) : chain2[i] = next + (i - len) - 1
  <2>1. Replaced(chain, chain2, len, next)
    BY <1>4, <1>5, <1>14, ReplacedEnd
  <2> QED BY <2>1 DEF Replaced
<1>28. PICK m \in Nat : m = Len(chain) /\ m = Len(chain2) /\ len + k = m
  BY <1>2, <1>4, <1>15
<1>16. net' \in Nets /\ net'.chain = chain2 /\ net'.next = next + k /\ net'.facts = facts \cup new
  <2>1. PICK all \in SUBSET Facts : all = facts \cup new
    BY <1>13
  <2>2. PICK next2 \in Nat \ {0} : next2 = next + k
    BY <1>5
  <2>3. net'  = [net EXCEPT !.chain = chain2, !.next = @ + k,
                            !.facts = IF again THEN @ \cup {[f EXCEPT !.at = next] : f \in gone} ELSE @]
    <3>3. chain2 = kept \o [i \in 1 .. k |-> net.next + i - 1]
      BY <1>2, <1>6, <1>14, Zenon
    <3> QED BY <1>2, <1>3, <3>3
  <2>4. net' = [net EXCEPT !.chain = chain2, !.next = next2, !.facts = all]
    BY <1>1, <1>2, <1>10, <2>1, <2>2, <2>3 DEF Nets
  <2> QED BY <1>1, <1>15, <2>1, <2>2, <2>4 DEF Nets
<1>17. NetOnward
  <2>1. next <= next + k /\ next >= next
    BY <1>5
  <2>2. Len(chain) <= Len(chain2)
    BY <1>4, <1>15
  <2>3. \A f \in facts \cup new : f \in facts \/ f.at >= next
    BY <1>13, <2>1
  <2> QED BY <1>2, <1>16, <2>1, <2>2, <2>3 DEF NetOnward
<1>18. \A f \in facts : f.at \in Nat /\ f.at < next
  BY <1>1, <1>2 DEF Facts
<1>19. \A f \in net'.facts : f.at < net'.next
  BY <1>5, <1>13, <1>16, <1>18
<1>20. \A i \in 1 .. Len(chain) : chain[i] \in Nat /\ chain[i] # 0 /\ chain[i] < next
  BY <1>1, <1>2 DEF Real, HashesOnce
<1>21. HashesOnce(chain2, next + k)
  <2>1. ASSUME NEW i \in 1 .. Len(chain2) PROVE chain2[i] # 0 /\ chain2[i] < next + k /\ (i > len <=> chain2[i] >= next)
    <3>1. CASE i > len
      <4>1. i \in len + 1 .. Len(chain) /\ i - len \in 1 .. k
        BY <1>5, <1>28, <3>1
      <4>2. chain2[i] = next + (i - len) - 1
        BY <1>15, <4>1
      <4> QED BY <1>5, <3>1, <4>1, <4>2
    <3>2. CASE ~(i > len)
      <4>1. i \in 1 .. len /\ i \in 1 .. Len(chain)
        BY <1>5, <1>28, <3>2
      <4>2. PICK h \in Nat : h = chain2[i] /\ h # 0 /\ h < next
        BY <1>15, <1>20, <4>1
      <4> QED BY <1>5, <3>2, <4>2
    <3> QED BY <3>1, <3>2
  <2>2. ASSUME NEW i \in 1 .. Len(chain2), NEW j \in 1 .. Len(chain2), chain2[i] = chain2[j] PROVE i = j
    <3>1. i > len <=> j > len
      BY <2>1, <2>2
    <3>2. CASE i > len
      <4>1. i \in len + 1 .. Len(chain) /\ j \in len + 1 .. Len(chain)
        BY <1>28, <3>1, <3>2
      <4>3. chain2[i] = next + (i - len) - 1 /\ chain2[j] = next + (j - len) - 1
        BY <1>15, <4>1
      <4>2. PICK x \in Int, y \in Int : x = i /\ y = j
        BY <1>28
      <4>4. next + (x - len) - 1 = next + (y - len) - 1
        BY <2>2, <4>2, <4>3
      <4>5. x = y
        BY <4>4
      <4> QED BY <4>2, <4>5
    <3>3. CASE ~(i > len)
      <4>1. i \in 1 .. len /\ j \in 1 .. len /\ i \in 1 .. Len(chain) /\ j \in 1 .. Len(chain)
        BY <1>5, <1>28, <3>1, <3>3
      <4> QED BY <1>1, <1>2, <1>15, <2>2, <4>1 DEF Real, HashesOnce
    <3> QED BY <3>2, <3>3
  <2> QED BY <2>1, <2>2 DEF HashesOnce
<1>22. ASSUME NEW f \in facts, InChain(f.at, chain2) PROVE InChain(f.at, chain) /\ \E i \in 1 .. len : chain[i] = f.at
  <2>1. PICK i \in 1 .. Len(chain) : chain2[i] = f.at
    BY <1>15, <1>22 DEF InChain
  <2>2. ~(i > len)
    <3>1. i > len => i \in len + 1 .. Len(chain) /\ chain2[i] = next + (i - len) - 1
      BY <1>15
    <3> QED BY <1>18, <2>1, <3>1
  <2>3. i \in 1 .. len /\ chain[i] = f.at
    BY <1>15, <2>1, <2>2
  <2> QED BY <2>1, <2>3 DEF InChain
<1>23. \A f \in gone : InChain(f.at, chain) /\ ~\E i \in 1 .. len : chain[i] = f.at
  BY <1>2, <1>7, <1>9 DEF InChain, Hashes
<1>24. \A f, g \in facts : f.tx = g.tx /\ InChain(f.at, chain) /\ InChain(g.at, chain) => f = g
  BY <1>1, <1>2 DEF Real, TxsOnce
<1>25. ASSUME NEW f \in facts, NEW g \in new, f.tx = g.tx PROVE ~InChain(f.at, chain2)
  <2>1. PICK h \in gone : g = [h EXCEPT !.at = next]
    BY <1>11
  <2>2. h.tx = f.tx
    BY <1>9, <1>12, <1>25, <2>1
  <2> QED BY <1>9, <1>22, <1>23, <1>24, <2>2
<1>26. ASSUME NEW f \in new, NEW g \in new, f.tx = g.tx PROVE f = g
  <2>1. PICK h \in gone : f = [h EXCEPT !.at = next]
    BY <1>11
  <2>2. PICK h2 \in gone : g = [h2 EXCEPT !.at = next]
    BY <1>11
  <2>3. h.tx = h2.tx
    BY <1>9, <1>12, <1>26, <2>1, <2>2
  <2>4. h = h2
    BY <1>9, <1>23, <1>24, <2>3
  <2> QED BY <2>1, <2>2, <2>4
<1>27. TxsOnce(chain2, facts \cup new)
  BY <1>22, <1>24, <1>25, <1>26 DEF TxsOnce
<1> QED BY <1>2, <1>15, <1>16, <1>17, <1>19, <1>21, <1>27 DEF Real

LEMMA NetworkKeeps ==
    ASSUME M3Inv, Grow \/ Reorganise \/ ComeToRest
    PROVE  M3Inv'
<1>1. UNCHANGED <<rows, indexes, daemon, refused>> /\ Poll' = Poll
  BY DEF Grow, Reorganise, ComeToRest, Poll
<1>2. pool' \in Pools
  <2>1. pool' = pool \/ pool' = [pool EXCEPT !.reorgs = @ - 1]
    BY DEF Grow, Reorganise, ComeToRest
  <2>2. pool \in Pools
    BY DEF M3Inv, M3Types
  <2> QED BY <2>1, <2>2 DEF Pools
<1>3. net \in Nets
  BY DEF M3Inv, M3Types
<1>4. net' \in Nets /\ NetOnward /\ Real(net.chain)' /\ \A f \in net'.facts : f.at < net'.next
  <2>1. CASE Grow
    BY <2>1, GrowGoesOnward
  <2>2. CASE Reorganise
    BY <2>2, ReorganiseGoesOnward
  <2>3. CASE ComeToRest
    <3>1. net' \in Nets /\ net'.chain = net.chain /\ net'.facts = net.facts /\ net'.next = net.next
      BY <1>3, <2>3 DEF ComeToRest, Nets
    <3>2. NetOnward
      BY <1>3, <3>1 DEF NetOnward, Nets
    <3> QED BY <3>1, <3>2 DEF M3Inv, ChainsReal, Real
  <2> QED BY <2>1, <2>2, <2>3
<1>5. Real(Poll.head)'
  <2>1. PICK chain \in Seq(Nat) : chain = Poll.head
    BY DEF M3Inv, M3Types, Polls, Poll
  <2>2. Real(chain)
    BY <2>1 DEF M3Inv, ChainsReal
  <2>3. Real(chain)'
    BY <1>3, <1>4, <2>2, RealKept
  <2> QED BY <1>1, <2>1, <2>3
<1>6. ASSUME NEW c \in Contracts PROVE Real(indexes[c].chain)'
  <2>1. PICK chain \in Seq(Nat) : chain = indexes[c].chain
    BY DEF M3Inv, M3Types, Indexes
  <2>2. Real(chain)
    BY <2>1 DEF M3Inv, ChainsReal
  <2>3. Real(chain)'
    BY <1>3, <1>4, <2>2, RealKept
  <2> QED BY <1>1, <2>1, <2>3
<1>7. ChainsReal'
  BY <1>4, <1>5, <1>6 DEF ChainsReal
<1>8. PollOnward
  <2>1. Poll'.pc = "idle" \/ Poll.pc # "idle"
    BY <1>1
  <2> QED BY <1>1, <2>1 DEF PollOnward
<1>9. RowsSound'
  BY <1>1, <1>4, <1>8, RowsStand
<1>10. M3Types'
  BY <1>1, <1>2, <1>4 DEF M3Inv, M3Types
<1>11. (PageStored /\ HeadAhead /\ Tracking /\ ~refused)'
  BY <1>1 DEF M3Inv, PageStored, HeadAhead, Tracking
<1> QED BY <1>7, <1>9, <1>10, <1>11 DEF M3Inv

\* What the end of a poll leaves.
LEMMA EndedPoll ==
    ASSUME M3Inv, NEW result
    PROVE  /\ EndPoll(result).poll = Idle
           /\ EndPoll(result) = [phase |-> EndPoll(result).phase, poll |-> EndPoll(result).poll,
                                 cursor |-> EndPoll(result).cursor, last |-> EndPoll(result).last]
<1>1. daemon = [phase |-> daemon.phase, poll |-> daemon.poll, cursor |-> daemon.cursor, last |-> daemon.last]
  BY DEF M3Inv, M3Types
<1>2. PICK phase : EndPoll(result) = [daemon EXCEPT !.poll = Idle, !.last = result, !.phase = phase]
  <2>1. EndPoll(result) = [daemon EXCEPT !.poll = Idle, !.last = result,
                                         !.phase = IF daemon.phase = "starting" THEN "open" ELSE daemon.phase]
    BY <1>1 DEF EndPoll
  <2> QED BY <2>1, Zenon
<1> QED BY <1>1, <1>2

LEMMA RealEmpty == ASSUME M3Inv PROVE Real(<<>>)
<1>1. net.chain \in Seq(Nat) /\ Len(<<>>) = 0
  BY DEF M3Inv, M3Types, Nets
<1>2. Len(net.chain) \in Nat
  BY <1>1
<1> QED BY <1>1, <1>2 DEF Real, HashesOnce, TxsOnce, InChain

\* Without a poll nothing is said of it.
LEMMA IdleKeeps ==
    ASSUME M3Inv, daemon'.poll = Idle, UNCHANGED <<net, rows, refused>>, pool' \in Pools, indexes' \in [Contracts -> Indexes],
           \A c \in Contracts : indexes'[c].chain = indexes[c].chain /\ (indexes'[c].healthy => indexes[c].healthy),
           daemon' = [phase |-> daemon'.phase, poll |-> daemon'.poll, cursor |-> daemon'.cursor, last |-> daemon'.last]
    PROVE  M3Inv'
<1>1. Poll' = Idle
  BY DEF Poll
<1>2. net \in Nets /\ net' \in Nets /\ NetOnward
  BY NoNews DEF M3Inv, M3Types
<1>3. PollOnward
  BY <1>1, IdlePoll DEF PollOnward
<1>4. RowsSound'
  BY <1>2, <1>3, RowsStand
<1>5. Real(<<>>)
  BY RealEmpty
<1>6. ChainsReal'
  BY <1>1, <1>5, IdlePoll DEF M3Inv, ChainsReal, Real
<1>7. M3Types'
  BY IdlePoll DEF M3Inv, M3Types
<1>8. (PageStored /\ HeadAhead /\ Tracking /\ ~refused)'
  BY <1>1, IdlePoll DEF M3Inv, PageStored, HeadAhead, Tracking
<1> QED BY <1>4, <1>6, <1>7, <1>8 DEF M3Inv

LEMMA ProcessKeeps ==
    ASSUME M3Inv, PollFails \/ RestartM3 \/ FinishPage \/ CloseM3 \/ ClosedM3
    PROVE  M3Inv'
<1>1. pool \in Pools /\ indexes \in [Contracts -> Indexes]
      /\ daemon = [phase |-> daemon.phase, poll |-> daemon.poll, cursor |-> daemon.cursor, last |-> daemon.last]
  BY DEF M3Inv, M3Types
<1>2. UNCHANGED <<net, rows, refused>>
  BY DEF PollFails, RestartM3, FinishPage, CloseM3, ClosedM3
<1>3. pool' \in Pools
  BY <1>1 DEF PollFails, RestartM3, FinishPage, CloseM3, ClosedM3, Pools
<1>4. /\ indexes' \in [Contracts -> Indexes]
      /\ \A c \in Contracts : indexes'[c].chain = indexes[c].chain /\ (indexes'[c].healthy => indexes[c].healthy)
  <2>1. CASE PollFails
    <3>1. Poll.pc \in Contracts /\ indexes' = [indexes EXCEPT ![Poll.pc].healthy = FALSE]
      BY <2>1 DEF PollFails
    <3> QED BY <1>1, <3>1 DEF Indexes
  <2>2. CASE RestartM3
    <3>1. indexes' = [c \in Contracts |-> IF c = Poll.pc THEN [indexes[c] EXCEPT !.healthy = FALSE] ELSE indexes[c]]
      BY <2>2 DEF RestartM3
    <3> QED BY <1>1, <3>1 DEF Indexes
  <2>3. CASE FinishPage \/ CloseM3 \/ ClosedM3
    BY <1>1, <2>3 DEF FinishPage, CloseM3, ClosedM3
  <2> QED BY <2>1, <2>2, <2>3
<1>5. CASE PollFails \/ RestartM3 \/ FinishPage
  <2>1. daemon'.poll = Idle
        /\ daemon' = [phase |-> daemon'.phase, poll |-> daemon'.poll, cursor |-> daemon'.cursor, last |-> daemon'.last]
    <3>1. CASE PollFails
      BY <3>1, EndedPoll DEF PollFails
    <3>2. CASE RestartM3
      BY <3>2 DEF RestartM3, Booted
    <3>3. CASE FinishPage
      <4>1. PICK e : e = EndPoll("SUCCEEDED")
        OBVIOUS
      <4>2. e.poll = Idle /\ e = [phase |-> e.phase, poll |-> e.poll, cursor |-> e.cursor, last |-> e.last]
        BY <4>1, EndedPoll
      <4>3. PICK cursors : daemon' = [e EXCEPT !.cursor = cursors]
        BY <3>3, <4>1, Zenon DEF FinishPage
      <4> QED BY <4>2, <4>3
    <3> QED BY <1>5, <3>1, <3>2, <3>3
  <2> QED BY <1>2, <1>3, <1>4, <2>1, IdleKeeps
<1>6. CASE CloseM3 \/ ClosedM3
  <2>1. PICK phase : daemon' = [daemon EXCEPT !.phase = phase]
    BY <1>6, Zenon DEF CloseM3, ClosedM3
  <2>2. Poll' = Poll /\ UNCHANGED indexes
        /\ daemon' = [phase |-> daemon'.phase, poll |-> daemon'.poll, cursor |-> daemon'.cursor, last |-> daemon'.last]
    BY <1>1, <1>6, <2>1 DEF Poll, CloseM3, ClosedM3
  <2>3. PollOnward /\ Poll' \in Polls /\ Real(Poll'.head)
    BY <2>2 DEF PollOnward, M3Inv, M3Types, ChainsReal, Poll
  <2>4. PageStored' /\ HeadAhead' /\ Tracking'
    BY <1>2, <2>2 DEF M3Inv, PageStored, HeadAhead, Tracking
  <2>5. rows' \in [OpIds -> OpRows \cup {NoOp}] /\ refused' = FALSE
    BY <1>2 DEF M3Inv, M3Types
  <2> QED BY <1>2, <1>3, <2>2, <2>3, <2>4, <2>5, PollMoves
<1> QED BY <1>5, <1>6

\* The poll alone moves: to p.
LEMMA PollTo ==
    ASSUME M3Inv, NEW p \in Polls, daemon' = [daemon EXCEPT !.poll = p]
    PROVE  /\ Poll' = p
           /\ daemon' = [phase |-> daemon'.phase, poll |-> daemon'.poll, cursor |-> daemon'.cursor, last |-> daemon'.last]
<1>1. daemon = [phase |-> daemon.phase, poll |-> daemon.poll, cursor |-> daemon.cursor, last |-> daemon.last]
  BY DEF M3Inv, M3Types
<1> QED BY <1>1 DEF Poll

LEMMA BeginPollKeeps == ASSUME M3Inv, BeginPoll PROVE M3Inv'
<1>1. net \in Nets /\ pool \in Pools /\ indexes \in [Contracts -> Indexes] /\ refused = FALSE
      /\ rows \in [OpIds -> OpRows \cup {NoOp}]
  BY DEF M3Inv, M3Types
<1>2. PICK p : p = [Idle EXCEPT !.pc = "vault", !.head = net.chain]
  OBVIOUS
<1>3. p \in Polls /\ p.pc = "vault" /\ p.head = net.chain /\ p.page = <<>>
  <2>1. net.chain \in Seq(Nat) /\ Idle \in Polls
    BY <1>1, IdlePoll DEF Nets
  <2> QED BY <1>2, <2>1, IdlePoll DEF Polls
<1>4. UNCHANGED <<net, rows, indexes, refused, pool>> /\ daemon' = [daemon EXCEPT !.poll = p]
  BY <1>2 DEF BeginPoll, SetPoll
<1>5. Poll' = p
      /\ daemon' = [phase |-> daemon'.phase, poll |-> daemon'.poll, cursor |-> daemon'.cursor, last |-> daemon'.last]
  BY <1>3, <1>4, PollTo
<1>6. PollOnward /\ Real(Poll'.head)
  BY <1>3, <1>4, <1>5 DEF PollOnward, M3Inv, ChainsReal
<1>7. PageStored' /\ Tracking'
  BY <1>3, <1>5 DEF PageStored, Tracking
<1>8. HeadAhead'
  <2>1. "vault" \in Contracts /\ "pass" \in Contracts
    BY DEF Contracts
  <2>2. Len(indexes["vault"].chain) <= Len(net.chain) /\ Len(indexes["pass"].chain) <= Len(net.chain)
    BY <2>1 DEF M3Inv, ChainsReal, Real
  <2> QED BY <1>3, <1>4, <1>5, <2>2 DEF HeadAhead
<1> QED BY <1>1, <1>3, <1>4, <1>5, <1>6, <1>7, <1>8, PollMoves

LEMMA TakePageKeeps == ASSUME M3Inv, TakePage PROVE M3Inv'
<1>1. pool \in Pools /\ indexes \in [Contracts -> Indexes] /\ refused = FALSE /\ Poll \in Polls
      /\ rows \in [OpIds -> OpRows \cup {NoOp}] /\ Poll.pc = "page" /\ UNCHANGED <<net, rows, indexes, refused, pool>>
  BY DEF M3Inv, M3Types, TakePage, Poll
<1>2. CASE ~Poll.caught
  <2>1. daemon' = EndPoll("SUCCEEDED")
    BY <1>2 DEF TakePage
  <2>2. daemon'.poll = Idle
        /\ daemon' = [phase |-> daemon'.phase, poll |-> daemon'.poll, cursor |-> daemon'.cursor, last |-> daemon'.last]
    BY <2>1, EndedPoll
  <2> QED BY <1>1, <2>2, IdleKeeps
<1>3. CASE Poll.caught
  <2>1. PICK page \in Seq(Stored) : page = Interleaved(TrackableFrom("vault"), TrackableFrom("pass"))
    BY PageIn, Zenon
  <2>2. page \in Seq(OpIds) /\ \A i \in 1 .. Len(page) : rows[page[i]] # NoOp
    <3>1. Stored \subseteq OpIds /\ \A o \in Stored : rows[o] # NoOp
      BY DEF Stored
    <3>2. \A i \in 1 .. Len(page) : page[i] \in Stored
      BY <2>1
    <3> QED BY <2>1, <3>1, <3>2
  <2>3. PICK p : p = [Poll EXCEPT !.pc = "receipt", !.page = page]
    OBVIOUS
  <2>4. p \in Polls /\ p.pc = "receipt" /\ p.page = page /\ p.head = Poll.head
    BY <1>1, <2>2, <2>3 DEF Polls
  <2>5. daemon' = [daemon EXCEPT !.poll = p]
    <3>1. daemon' = [daemon EXCEPT !.poll.pc = "receipt", !.poll.page = page]
      BY <1>3, <2>1, Zenon DEF TakePage
    <3>2. daemon = [phase |-> daemon.phase, poll |-> daemon.poll, cursor |-> daemon.cursor, last |-> daemon.last]
      BY DEF M3Inv, M3Types
    <3> QED BY <2>3, <3>1, <3>2 DEF Poll
  <2>6. Poll' = p
        /\ daemon' = [phase |-> daemon'.phase, poll |-> daemon'.poll, cursor |-> daemon'.cursor, last |-> daemon'.last]
    BY <2>4, <2>5, PollTo
  <2>7. PollOnward /\ Real(Poll'.head)
    BY <1>1, <2>4, <2>6 DEF PollOnward, M3Inv, ChainsReal
  <2>8. PageStored' /\ HeadAhead' /\ Tracking'
    BY <1>1, <2>2, <2>4, <2>6 DEF PageStored, HeadAhead, Tracking
  <2> QED BY <1>1, <2>4, <2>6, <2>7, <2>8, PollMoves
<1> QED BY <1>2, <1>3

\* A row that is saved while the poll stays where it is.
LEMMA SavedBeside ==
    ASSUME M3Inv, NEW o \in OpIds, NEW row \in OpRows, RowSound(row, indexes[row.claim.target]), Save(o, row), pool' \in Pools,
           UNCHANGED <<net, indexes, daemon>>
    PROVE  M3Inv'
<1>1. ValidEvidence(row)
  BY DEF RowSound, Sound
<1>2. /\ rows' \in [OpIds -> OpRows \cup {NoOp}] /\ refused' = FALSE
      /\ \A p \in OpIds : rows'[p] = rows[p] \/ rows'[p] = row
      /\ \A p \in OpIds : rows[p] # NoOp => rows'[p] # NoOp
  BY <1>1, SavedRow
<1>3. Poll' = Poll /\ Poll \in Polls
      /\ daemon' = [phase |-> daemon'.phase, poll |-> daemon'.poll, cursor |-> daemon'.cursor, last |-> daemon'.last]
  BY DEF Poll, M3Inv, M3Types
<1>4. RowSound(row, indexes[row.claim.target])'
  BY <1>3 DEF RowSound, Sound, InIndex, DeepIn
<1>5. \A p \in OpIds : \/ rows'[p] = rows[p]
                       \/ rows'[p] \in OpRows /\ RowSound(rows[p], indexes[rows[p].claim.target])'
  BY <1>2, <1>4
<1>6. PollOnward /\ Real(Poll'.head)
  BY <1>3 DEF PollOnward, M3Inv, ChainsReal
<1>7. HeadAhead' /\ Tracking'
  BY <1>3 DEF M3Inv, HeadAhead, Tracking
<1>8. PageStored'
  <2>1. \A i \in 1 .. Len(Poll.page) : Poll.page[i] \in OpIds
    BY <1>3 DEF Polls
  <2> QED BY <1>2, <1>3, <2>1 DEF M3Inv, PageStored
<1> QED BY <1>2, <1>3, <1>5, <1>6, <1>7, <1>8, PollMoves

LEMMA ReportKeeps ==
    ASSUME M3Inv, NEW r \in pool.reports, Report(r[1], r[2])
    PROVE  M3Inv'
<1>1. pool \in Pools /\ UNCHANGED <<net, indexes, daemon, pool>>
  BY DEF M3Inv, M3Types, Report
<1>2. r[1] \in OpIds /\ r[2] \in Claims
  BY <1>1, ClaimFacts DEF Pools
<1>3. PICK o \in OpIds, claim \in Claims : o = r[1] /\ claim = r[2]
  BY <1>2
<1>4. PICK row : row = Submitted(claim)
  OBVIOUS
<1>5. row \in OpRows /\ row.claim = claim /\ row.state = "SUBMITTED" /\ ~row.canonical /\ ~row.reconciled
      /\ row.at = 0 /\ row.receipt = "none"
  BY <1>4 DEF Submitted, OpRows, OpStates, OpErrors
<1>6. ValidEvidence(row)
  BY <1>4 DEF Submitted, ValidEvidence
<1>7. RowSound(row, indexes[row.claim.target])
  BY <1>5, <1>6 DEF RowSound, Sound, InIndex, DeepIn
<1>8. Save(o, row)
  BY <1>3, <1>4 DEF Report
<1> QED BY <1>1, <1>5, <1>7, <1>8, SavedBeside

LEMMA RecordGoneKeeps ==
    ASSUME M3Inv, NEW o \in OpIds, NEW state \in {"REPLACED", "DROPPED"}, RecordGone(o, state)
    PROVE  M3Inv'
<1>1. PICK old \in OpRows : old = rows[o] /\ old.claim.target \in Contracts /\ RowSound(old, indexes[old.claim.target])
  BY StoredRow DEF RecordGone
<1>2. pool' \in Pools /\ UNCHANGED <<net, indexes, daemon>>
  BY DEF M3Inv, M3Types, RecordGone, Pools
<1>3. old.state \in {"SUBMITTED", "REORGED"}
  <2>1. state \in Transitions[old.state] /\ old.state \in OpStates
    BY <1>1 DEF RecordGone, Allowed, OpRows
  <2> QED BY <2>1 DEF Transitions, OpStates
<1>4. PICK row : row = GivenUp(old, state)
  OBVIOUS
<1>5. row \in OpRows /\ row.claim = old.claim /\ row.state = state /\ ~row.canonical /\ ~row.reconciled /\ ~row.confirmedAt
      /\ row.at = old.at /\ row.receipt = old.receipt /\ row.confirmations = old.confirmations /\ row.sent = old.sent
      /\ (row.replacement <=> state = "REPLACED")
      /\ row.error = IF state = "REPLACED" THEN "TRANSACTION_REPLACED" ELSE "TRANSACTION_DROPPED"
  BY <1>4 DEF GivenUp, OpRows, OpStates, OpErrors
<1>6. ValidEvidence(row)
  BY <1>1, <1>3, <1>5 DEF RowSound, Sound, ValidEvidence
<1>7. RowSound(row, indexes[row.claim.target])
  BY <1>1, <1>5, <1>6 DEF RowSound, Sound, InIndex, DeepIn
<1>8. Save(o, row)
  BY <1>1, <1>4 DEF RecordGone
<1> QED BY <1>2, <1>5, <1>7, <1>8, SavedBeside

\* The poll moves on within its page, with or without a row that is saved.
LEMMA TrackingMoves ==
    ASSUME M3Inv, Poll.pc # "idle", NEW p \in Polls, daemon' = [daemon EXCEPT !.poll = p], p.head = Poll.head,
           p.pc \in {"receipt", "reconcile"}, UNCHANGED <<net, indexes, pool>>,
           \A i \in 1 .. Len(p.page) : p.page[i] \in OpIds /\ rows[p.page[i]] # NoOp,
           p.pc = "reconcile" =>
              /\ p.page # <<>> /\ p.row \in OpRows /\ p.row.state \in {"MINED", "CONFIRMING", "RECONCILIATION_FAILED"}
              /\ p.row.n = p.receipt
              /\ indexes[p.row.claim.target].healthy /\ indexes[p.row.claim.target].chain = p.head,
           \/ UNCHANGED <<rows, refused>>
           \/ \E o \in OpIds, row \in OpRows : RowSound(row, indexes[row.claim.target]) /\ Save(o, row)
    PROVE  M3Inv'
<1>1. Poll' = p
      /\ daemon' = [phase |-> daemon'.phase, poll |-> daemon'.poll, cursor |-> daemon'.cursor, last |-> daemon'.last]
  BY PollTo
<1>2. pool' \in Pools /\ rows \in [OpIds -> OpRows \cup {NoOp}] /\ refused = FALSE
  BY DEF M3Inv, M3Types
<1>3. PollOnward /\ Real(Poll'.head)
  BY <1>1 DEF PollOnward, M3Inv, ChainsReal
<1>4. HeadAhead' /\ Tracking'
  BY <1>1 DEF HeadAhead, Tracking
<1>5. CASE UNCHANGED <<rows, refused>>
  <2>1. PageStored'
    BY <1>1, <1>5 DEF PageStored
  <2> QED BY <1>1, <1>2, <1>3, <1>4, <1>5, <2>1, PollMoves
<1>6. ASSUME NEW o \in OpIds, NEW row \in OpRows, RowSound(row, indexes[row.claim.target]), Save(o, row) PROVE M3Inv'
  <2>1. ValidEvidence(row)
    BY <1>6 DEF RowSound, Sound
  <2>2. /\ rows' \in [OpIds -> OpRows \cup {NoOp}] /\ refused' = FALSE
        /\ \A q \in OpIds : rows'[q] = rows[q] \/ rows'[q] = row
        /\ \A q \in OpIds : rows[q] # NoOp => rows'[q] # NoOp
    BY <1>6, <2>1, SavedRow
  <2>3. RowSound(row, indexes[row.claim.target])'
    BY <1>1, <1>6 DEF RowSound, Sound, InIndex, DeepIn
  <2>4. \A q \in OpIds : \/ rows'[q] = rows[q]
                         \/ rows'[q] \in OpRows /\ RowSound(rows[q], indexes[rows[q].claim.target])'
    BY <2>2, <2>3
  <2>5. PageStored'
    BY <1>1, <2>2 DEF PageStored
  <2> QED BY <1>1, <1>2, <1>3, <1>4, <2>2, <2>4, <2>5, PollMoves
<1> QED BY <1>5, <1>6

\* The operation at the head of the page, and what is left of it.
LEMMA PageHead ==
    ASSUME M3Inv, Poll.page # <<>>
    PROVE  /\ Head(Poll.page) \in OpIds /\ rows[Head(Poll.page)] # NoOp
           /\ Onward \in Polls /\ Onward.pc = "receipt" /\ Onward.head = Poll.head
           /\ \A i \in 1 .. Len(Onward.page) : Onward.page[i] \in OpIds /\ rows[Onward.page[i]] # NoOp
           /\ \A i \in 1 .. Len(Poll.page) : Poll.page[i] \in OpIds /\ rows[Poll.page[i]] # NoOp
<1>1. Poll \in Polls /\ \A i \in 1 .. Len(Poll.page) : rows[Poll.page[i]] # NoOp
  BY DEF M3Inv, M3Types, PageStored, Poll
<1>2. PICK page \in Seq(OpIds) : page = Poll.page
  BY <1>1 DEF Polls
<1>3. Len(page) >= 1 /\ Head(page) = page[1] /\ Len(page) \in Nat /\ \A i \in 1 .. Len(page) : page[i] \in OpIds
  BY <1>2
<1>4. Tail(page) \in Seq(OpIds) /\ Len(Tail(page)) = Len(page) - 1 /\ \A i \in 1 .. Len(page) - 1 : Tail(page)[i] = page[i + 1]
  BY <1>2
<1>5. 1 \in 1 .. Len(page) /\ \A i \in 1 .. Len(page) - 1 : i + 1 \in 1 .. Len(page)
  BY <1>3
<1>6. PICK seen \in Seq(OpIds) : seen = Append(Poll.seen, page[1])
  <2>1. Poll.seen \in Seq(OpIds) /\ page[1] \in OpIds
    BY <1>1, <1>3, <1>5 DEF Polls
  <2>2. Append(Poll.seen, page[1]) \in Seq(OpIds)
    BY <2>1
  <2> QED BY <2>2, Zenon
<1>7. PICK tail \in Seq(OpIds) : tail = Tail(page)
  BY <1>4, Zenon
<1>8. Onward = [Poll EXCEPT !.pc = "receipt", !.page = tail, !.seen = seen, !.row = NoOp, !.receipt = 0]
  BY <1>1, <1>2, <1>3, <1>6, <1>7 DEF Onward, Polls
<1>9. Onward \in Polls /\ Onward.pc = "receipt" /\ Onward.head = Poll.head /\ Onward.page = tail
  BY <1>1, <1>8 DEF Polls
<1>10. \A i \in 1 .. Len(tail) : tail[i] \in OpIds /\ rows[tail[i]] # NoOp
  BY <1>1, <1>2, <1>3, <1>4, <1>5, <1>7
<1> QED BY <1>1, <1>2, <1>3, <1>5, <1>9, <1>10

\* What validateOperationEvidence says of an operation whose receipt succeeded.
LEMMA Succeeded ==
    ASSUME NEW row \in OpRows, ValidEvidence(row), row.state \in {"MINED", "CONFIRMING", "RECONCILIATION_FAILED"}
    PROVE  row.sent /\ row.at # 0 /\ row.receipt = "SUCCESS" /\ ~row.replacement /\ row.canonical
  BY DEF ValidEvidence

LEMMA TrackTheReceiptKeeps == ASSUME M3Inv, TrackTheReceipt PROVE M3Inv'
<1> DEFINE op == Head(Poll.page)
           was == rows[op]
           theirs == indexes[was.claim.target]
           seen == {g \in ReceiptOf(was.claim.tx) : \E i \in 1 .. Len(theirs.chain) : theirs.chain[i] = g.at}
           fit == theirs.healthy /\ theirs.chain = Poll.head /\ was.claim.kind # "stranger" /\ seen # {}
           fact == CHOOSE g \in seen : TRUE
           place == CHOOSE i \in 1 .. Len(theirs.chain) : theirs.chain[i] = fact.at
           will == Included(was, place, fact.at, fact.ok)
<1>1. Poll.pc = "receipt" /\ Poll.page # <<>> /\ UNCHANGED <<net, indexes, pool>> /\ Poll \in Polls
  BY DEF TrackTheReceipt, M3Inv, M3Types, Poll
<1>2. \/ /\ fit /\ was.state \in {"SUBMITTED", "REORGED"} /\ Save(op, will)
         /\ SetPoll(IF fact.ok /\ ValidEvidence(will) THEN [Poll EXCEPT !.pc = "reconcile", !.row = will, !.receipt = place] ELSE Onward)
      \/ /\ fit /\ was.state \in {"MINED", "CONFIRMING", "RECONCILIATION_FAILED"} /\ fact.ok
         /\ SetPoll([Poll EXCEPT !.pc = "reconcile", !.row = was, !.receipt = place])
         /\ UNCHANGED <<rows, refused>>
      \/ SetPoll(Onward) /\ UNCHANGED <<rows, refused>>
  BY Zenon DEF TrackTheReceipt
<1>3. PICK o \in OpIds : o = op /\ rows[o] # NoOp
  BY <1>1, PageHead
<1>4. PICK row \in OpRows : row = was /\ row.claim.target \in Contracts /\ RowSound(row, indexes[row.claim.target])
  BY <1>3, StoredRow
<1>5. PICK mine \in Indexes : mine = theirs /\ mine = indexes[row.claim.target]
  BY <1>4 DEF M3Inv, M3Types
<1>6. PICK found : found = seen /\ found = {g \in ReceiptOf(row.claim.tx) : \E i \in 1 .. Len(mine.chain) : mine.chain[i] = g.at}
  BY <1>4, <1>5, Zenon
<1>7. fit = (mine.healthy /\ mine.chain = Poll.head /\ row.claim.kind # "stranger" /\ found # {})
  BY <1>4, <1>5, <1>6, Zenon
<1>8. PICK f : f = fact /\ f = CHOOSE g \in found : TRUE
  BY <1>6, Zenon
<1>9. PICK n : n = place /\ n = CHOOSE i \in 1 .. Len(mine.chain) : mine.chain[i] = f.at
  BY <1>5, <1>8, Zenon
<1>10. PICK new : new = will /\ new = Included(row, n, f.at, f.ok)
  BY <1>4, <1>8, <1>9, Zenon
<1> HIDE DEF op, was, theirs, seen, fit, fact, place, will
<1>11. \/ /\ fit /\ row.state \in {"SUBMITTED", "REORGED"} /\ Save(o, new)
          /\ SetPoll(IF f.ok /\ ValidEvidence(new) THEN [Poll EXCEPT !.pc = "reconcile", !.row = new, !.receipt = n] ELSE Onward)
       \/ /\ fit /\ row.state \in {"MINED", "CONFIRMING", "RECONCILIATION_FAILED"} /\ f.ok
          /\ SetPoll([Poll EXCEPT !.pc = "reconcile", !.row = row, !.receipt = n])
          /\ UNCHANGED <<rows, refused>>
       \/ SetPoll(Onward) /\ UNCHANGED <<rows, refused>>
  BY <1>2, <1>3, <1>4, <1>8, <1>9, <1>10, Zenon
<1>12. net \in Nets /\ mine.chain \in Seq(Nat) /\ Real(mine.chain)
  BY <1>4, <1>5 DEF M3Inv, M3Types, ChainsReal, Indexes
<1>13. ASSUME fit
       PROVE  /\ f \in net.facts /\ f \in Facts /\ f.tx = row.claim.tx /\ f.at # 0 /\ row.claim.kind # "stranger"
              /\ n \in Nat /\ n \in 1 .. Len(mine.chain) /\ mine.chain[n] = f.at /\ mine.healthy /\ mine.chain = Poll.head
  <2>1. f \in found
    BY <1>7, <1>8, <1>13
  <2>2. f \in net.facts /\ f.tx = row.claim.tx /\ \E i \in 1 .. Len(mine.chain) : mine.chain[i] = f.at
    BY <1>6, <2>1 DEF ReceiptOf
  <2>3. n \in 1 .. Len(mine.chain) /\ mine.chain[n] = f.at
    BY <1>9, <2>2
  <2>4. f \in Facts /\ n \in Nat
    BY <1>12, <2>2, <2>3 DEF Nets
  <2>5. f.at # 0
    BY <1>12, <2>3 DEF Real, HashesOnce
  <2> QED BY <1>7, <1>13, <2>2, <2>3, <2>4, <2>5
<1>14. CASE SetPoll(Onward) /\ UNCHANGED <<rows, refused>>
  <2>1. daemon' = [daemon EXCEPT !.poll = Onward]
    BY <1>14 DEF SetPoll
  <2> QED BY <1>1, <1>14, <2>1, PageHead, TrackingMoves
<1>15. CASE /\ fit /\ row.state \in {"SUBMITTED", "REORGED"} /\ Save(o, new)
            /\ SetPoll(IF f.ok /\ ValidEvidence(new) THEN [Poll EXCEPT !.pc = "reconcile", !.row = new, !.receipt = n] ELSE Onward)
  <2>1. f.at \in Nat /\ f.ok \in BOOLEAN /\ f = [tx |-> f.tx, at |-> f.at, ok |-> f.ok] /\ n \in Nat
    BY <1>13, <1>15 DEF Facts
  <2>2. new \in OpRows /\ new.claim = row.claim /\ new.state = (IF f.ok THEN "MINED" ELSE "REVERTED") /\ new.n = n
        /\ new.at = f.at /\ new.receipt = (IF f.ok THEN "SUCCESS" ELSE "REVERTED") /\ new.confirmations = 0 /\ new.canonical
        /\ ~new.reconciled /\ ~new.confirmedAt /\ new.error = (IF f.ok THEN "none" ELSE "TRANSACTION_REVERTED")
        /\ new.sent = row.sent /\ new.replacement = row.replacement
    <3>1. PICK at \in Nat : at = f.at
      BY <2>1
    <3>2. PICK state \in OpStates : state = IF f.ok THEN "MINED" ELSE "REVERTED"
      BY DEF OpStates
    <3>3. PICK receipt \in {"none", "SUCCESS", "REVERTED"} : receipt = IF f.ok THEN "SUCCESS" ELSE "REVERTED"
      OBVIOUS
    <3>4. PICK error \in OpErrors : error = IF f.ok THEN "none" ELSE "TRANSACTION_REVERTED"
      BY DEF OpErrors
    <3>5. new = [row EXCEPT !.state = state, !.n = n, !.at = at, !.receipt = receipt, !.confirmations = 0,
                            !.canonical = TRUE, !.reconciled = FALSE, !.confirmedAt = FALSE, !.error = error]
      BY <1>10, <3>1, <3>2, <3>3, <3>4, Zenon DEF Included
    <3>6. new.claim = row.claim /\ new.state = state /\ new.n = n /\ new.at = at
          /\ new.receipt = receipt /\ new.confirmations = 0 /\ new.canonical = TRUE /\ new.reconciled = FALSE
          /\ new.confirmedAt = FALSE /\ new.error = error /\ new.sent = row.sent /\ new.replacement = row.replacement
      BY <3>5 DEF OpRows
    <3>7. new \in OpRows
      <4>1. PICK half \in OpRows : half = [row EXCEPT !.state = state, !.n = n, !.at = at, !.receipt = receipt, !.error = error]
        BY <2>1 DEF OpRows
      <4>2. PICK yes \in BOOLEAN, no \in BOOLEAN, none \in Int : yes = TRUE /\ no = FALSE /\ none = 0
        <5>1. TRUE \in BOOLEAN /\ FALSE \in BOOLEAN
          BY Zenon
        <5>2. 0 \in Int
          OBVIOUS
        <5> QED BY <5>1, <5>2, Zenon
      <4>3. new = [half EXCEPT !.confirmations = none, !.canonical = yes, !.reconciled = no, !.confirmedAt = no]
        BY <3>5, <4>1, <4>2 DEF OpRows
      <4> QED BY <4>3 DEF OpRows
    <3> QED BY <3>1, <3>2, <3>3, <3>4, <3>6, <3>7
  <2>3. row.sent /\ ~row.replacement
    BY <1>4, <1>15 DEF RowSound, Sound, ValidEvidence
  <2>4. ValidEvidence(new)
    BY <1>13, <1>15, <2>1, <2>2, <2>3 DEF ValidEvidence
  <2>5. f.ok => [tx |-> new.claim.tx, at |-> new.at, ok |-> TRUE] \in net.facts
    BY <1>13, <1>15, <2>1, <2>2
  <2>6. RowSound(new, mine)
    BY <1>13, <1>15, <2>2, <2>4, <2>5 DEF RowSound, Sound, InIndex, DeepIn
  <2>7. RowSound(new, indexes[new.claim.target])
    BY <1>5, <2>2, <2>6
  <2>8. CASE ~f.ok
    <3>1. daemon' = [daemon EXCEPT !.poll = Onward]
      BY <1>15, <2>8 DEF SetPoll
    <3> QED BY <1>1, <1>15, <2>2, <2>7, <3>1, PageHead, TrackingMoves
  <2>9. CASE f.ok
    <3>1. PICK p : p = [Poll EXCEPT !.pc = "reconcile", !.row = new, !.receipt = n]
      OBVIOUS
    <3>2. p \in Polls /\ p.pc = "reconcile" /\ p.row = new /\ p.receipt = n /\ p.head = Poll.head /\ p.page = Poll.page
      BY <1>1, <2>1, <2>2, <3>1 DEF Polls
    <3>3. daemon' = [daemon EXCEPT !.poll = p]
      BY <1>15, <2>4, <2>9, <3>1 DEF SetPoll
    <3>4. /\ p.page # <<>> /\ p.row \in OpRows /\ p.row.state \in {"MINED", "CONFIRMING", "RECONCILIATION_FAILED"}
          /\ p.row.n = p.receipt
          /\ indexes[p.row.claim.target].healthy /\ indexes[p.row.claim.target].chain = p.head
      BY <1>1, <1>5, <1>13, <1>15, <2>2, <2>9, <3>2
    <3>5. \A i \in 1 .. Len(p.page) : p.page[i] \in OpIds /\ rows[p.page[i]] # NoOp
      BY <1>1, <3>2, PageHead
    <3>6. \E q \in OpIds, r \in OpRows : RowSound(r, indexes[r.claim.target]) /\ Save(q, r)
      BY <1>15, <2>2, <2>7, Zenon
    <3> QED BY <1>1, <3>2, <3>3, <3>4, <3>5, <3>6, TrackingMoves
  <2> QED BY <2>1, <2>8, <2>9
<1>16. CASE /\ fit /\ row.state \in {"MINED", "CONFIRMING", "RECONCILIATION_FAILED"} /\ f.ok
            /\ SetPoll([Poll EXCEPT !.pc = "reconcile", !.row = row, !.receipt = n])
            /\ UNCHANGED <<rows, refused>>
  <2>1. ValidEvidence(row) /\ InIndex(row, mine)
        /\ (row.receipt = "SUCCESS" => [tx |-> row.claim.tx, at |-> row.at, ok |-> TRUE] \in net.facts)
    BY <1>4, <1>5 DEF RowSound, Sound
  <2>2. row.receipt = "SUCCESS" /\ row.canonical
    BY <1>16, <2>1, Succeeded
  <2>3. PICK g \in net.facts : g = [tx |-> row.claim.tx, at |-> row.at, ok |-> TRUE]
    BY <2>1, <2>2
  <2>4. row.n \in 1 .. Len(mine.chain) /\ mine.chain[row.n] = row.at
    BY <2>1, <2>2 DEF InIndex
  <2>5. f = g
    <3>1. InChain(f.at, mine.chain) /\ InChain(g.at, mine.chain) /\ f.tx = g.tx
      BY <1>13, <1>16, <2>3, <2>4 DEF InChain
    <3> QED BY <1>12, <1>13, <1>16, <2>3, <3>1 DEF Real, TxsOnce
  <2>6. row.n = n
    BY <1>12, <1>13, <1>16, <2>3, <2>4, <2>5 DEF Real, HashesOnce
  <2>7. PICK p : p = [Poll EXCEPT !.pc = "reconcile", !.row = row, !.receipt = n]
    OBVIOUS
  <2>8. p \in Polls /\ p.pc = "reconcile" /\ p.row = row /\ p.receipt = n /\ p.head = Poll.head /\ p.page = Poll.page
    BY <1>1, <1>13, <1>16, <2>7 DEF Polls
  <2>9. daemon' = [daemon EXCEPT !.poll = p]
    BY <1>16, <2>7 DEF SetPoll
  <2>10. /\ p.page # <<>> /\ p.row \in OpRows /\ p.row.state \in {"MINED", "CONFIRMING", "RECONCILIATION_FAILED"}
         /\ p.row.n = p.receipt
         /\ indexes[p.row.claim.target].healthy /\ indexes[p.row.claim.target].chain = p.head
    BY <1>1, <1>5, <1>13, <1>16, <2>6, <2>8
  <2>11. \A i \in 1 .. Len(p.page) : p.page[i] \in OpIds /\ rows[p.page[i]] # NoOp
    BY <1>1, <2>8, PageHead
  <2> QED BY <1>1, <1>16, <2>8, <2>9, <2>10, <2>11, TrackingMoves
<1> QED BY <1>11, <1>14, <1>15, <1>16

\* The transaction's own events are what the call that was made left.
LEMMA AgreedCall == ASSUME NEW row, Agrees(row) PROVE row.claim.kind # "other"
<1>1. EventsOf(row) = {ExpectedEvent(row)}
  BY DEF Agrees, VaultAgrees, PassAgrees
<1>2. EventsOf(row) \subseteq {"made"}
  BY DEF EventsOf
<1>3. ExpectedEvent(row) = "made"
  BY <1>1, <1>2, Zenon
<1> QED BY <1>3 DEF ExpectedEvent

\* A matched operation is confirmed at its depth.
LEMMA MatchedRow ==
    ASSUME NEW row \in OpRows, ValidEvidence(row), row.state \in {"MINED", "CONFIRMING", "RECONCILIATION_FAILED"},
           NEW depth \in Int, NEW new, new = Matched(row, depth)
    PROVE  /\ new \in OpRows /\ ValidEvidence(new) /\ new.claim = row.claim /\ new.n = row.n /\ new.at = row.at
           /\ new.receipt = row.receipt /\ (new.state # "CONFIRMED" <=> depth < ReadyDepth)
<1>1. row.sent /\ row.at # 0 /\ row.receipt = "SUCCESS" /\ ~row.replacement /\ row.canonical
  BY Succeeded
<1>2. ReadyDepth \in Nat
  BY M3Constants
<1>3. PICK state \in OpStates : state = IF depth >= ReadyDepth THEN "CONFIRMED" ELSE "CONFIRMING"
  BY DEF OpStates
<1>4. PICK deep \in BOOLEAN : deep = (depth >= ReadyDepth)
  <2>1. (depth >= ReadyDepth) \in BOOLEAN
    BY <1>2
  <2> QED BY <2>1, Zenon
<1>5. PICK yes \in BOOLEAN : yes = TRUE
  BY Zenon
<1>6. PICK error \in OpErrors : error = "none"
  BY DEF OpErrors
<1>7. new = [row EXCEPT !.state = state, !.confirmations = depth, !.canonical = yes, !.reconciled = yes,
                        !.confirmedAt = deep, !.error = error]
  <2>1. row.canonical = TRUE
    BY <1>1 DEF OpRows
  <2>2. (IF depth >= ReadyDepth THEN TRUE ELSE row.canonical) = TRUE
    BY <2>1
  <2> QED BY <1>3, <1>4, <1>5, <1>6, <2>2, Zenon DEF Matched
<1>8. new \in OpRows
  BY <1>7 DEF OpRows
<1>9. new.claim = row.claim /\ new.n = row.n /\ new.at = row.at /\ new.receipt = row.receipt /\ new.sent = row.sent
      /\ new.replacement = row.replacement /\ new.state = state /\ new.canonical = yes /\ new.reconciled = yes
      /\ new.confirmedAt = deep /\ new.error = error
  BY <1>7 DEF OpRows
<1>10. ValidEvidence(new)
  BY <1>1, <1>3, <1>4, <1>5, <1>6, <1>9 DEF ValidEvidence
<1> QED BY <1>2, <1>3, <1>8, <1>9, <1>10

\* One that does not match is tried again.
LEMMA MismatchedRow ==
    ASSUME NEW row \in OpRows, ValidEvidence(row), row.state \in {"MINED", "CONFIRMING", "RECONCILIATION_FAILED"},
           NEW code \in {"EVENT_EVIDENCE_MISMATCH", "CONTRACT_STATE_MISMATCH"}, NEW new, new = Mismatched(row, code)
    PROVE  /\ new \in OpRows /\ ValidEvidence(new) /\ new.claim = row.claim /\ new.n = row.n /\ new.at = row.at
           /\ new.receipt = row.receipt /\ new.canonical = row.canonical /\ ~new.reconciled /\ new.state = "RECONCILIATION_FAILED"
<1>1. row.sent /\ row.at # 0 /\ row.receipt = "SUCCESS" /\ ~row.replacement /\ row.canonical
  BY Succeeded
<1>2. PICK state \in OpStates, error \in OpErrors : state = "RECONCILIATION_FAILED" /\ error = code
  BY DEF OpStates, OpErrors
<1>3. PICK no \in BOOLEAN : no = FALSE
  BY Zenon
<1>4. new = [row EXCEPT !.state = state, !.reconciled = no, !.confirmedAt = no, !.error = error]
  BY <1>2, <1>3, Zenon DEF Mismatched
<1>5. new \in OpRows
  BY <1>4 DEF OpRows
<1>6. new.claim = row.claim /\ new.n = row.n /\ new.at = row.at /\ new.receipt = row.receipt /\ new.sent = row.sent
      /\ new.replacement = row.replacement /\ new.canonical = row.canonical /\ new.state = state /\ new.reconciled = no
      /\ new.confirmedAt = no /\ new.error = error
  BY <1>4 DEF OpRows
<1>7. ValidEvidence(new)
  BY <1>1, <1>2, <1>3, <1>6 DEF ValidEvidence
<1> QED BY <1>2, <1>3, <1>5, <1>6, <1>7

LEMMA TrackTheOutcomeKeeps == ASSUME M3Inv, TrackTheOutcome PROVE M3Inv'
<1>1. Poll.pc = "reconcile" /\ UNCHANGED <<net, indexes, pool>> /\ Poll \in Polls /\ SetPoll(Onward)
  BY DEF TrackTheOutcome, M3Inv, M3Types, Poll
<1>2. PICK row \in OpRows : row = Poll.row
  BY <1>1 DEF M3Inv, Tracking
<1>3. Poll.page # <<>> /\ row.state \in {"MINED", "CONFIRMING", "RECONCILIATION_FAILED"} /\ row.n = Poll.receipt
      /\ indexes[row.claim.target].healthy /\ indexes[row.claim.target].chain = Poll.head
  BY <1>1, <1>2 DEF M3Inv, Tracking
<1>4. PICK o \in OpIds : o = Head(Poll.page) /\ rows[o] # NoOp
  BY <1>3, PageHead
<1>5. PICK depth \in Int : depth = Len(Poll.head) - Poll.receipt + 1
  BY <1>1 DEF Polls
<1>6. PICK code \in {"EVENT_EVIDENCE_MISMATCH", "CONTRACT_STATE_MISMATCH"} :
         code = IF EventsOf(row) # {ExpectedEvent(row)} THEN "EVENT_EVIDENCE_MISMATCH" ELSE "CONTRACT_STATE_MISMATCH"
  OBVIOUS
<1>7. \/ rows[o] = row /\ Agrees(row) /\ Save(o, Matched(row, depth))
      \/ rows[o] = row /\ Save(o, Mismatched(row, code))
      \/ UNCHANGED <<rows, refused>>
  BY <1>2, <1>4, <1>5, <1>6, Zenon DEF TrackTheOutcome
<1>8. daemon' = [daemon EXCEPT !.poll = Onward]
  BY <1>1 DEF SetPoll
<1>9. /\ Onward \in Polls /\ Onward.pc = "receipt" /\ Onward.head = Poll.head
      /\ \A i \in 1 .. Len(Onward.page) : Onward.page[i] \in OpIds /\ rows[Onward.page[i]] # NoOp
  BY <1>3, PageHead
<1>10. ASSUME rows[o] = row
       PROVE  /\ RowSound(row, indexes[row.claim.target]) /\ ValidEvidence(row) /\ row.receipt = "SUCCESS" /\ row.canonical
              /\ row.at # 0
  <2>1. RowSound(row, indexes[row.claim.target]) /\ ValidEvidence(row)
    BY <1>4, <1>10, StoredRow DEF RowSound, Sound
  <2> QED BY <1>3, <2>1, Succeeded
<1>11. PICK mine : mine = indexes[row.claim.target]
  OBVIOUS
<1>12. CASE rows[o] = row /\ Agrees(row) /\ Save(o, Matched(row, depth))
  <2>1. PICK new : new = Matched(row, depth)
    OBVIOUS
  <2>2. /\ new \in OpRows /\ ValidEvidence(new) /\ new.claim = row.claim /\ new.n = row.n /\ new.at = row.at
        /\ new.receipt = row.receipt /\ (new.state # "CONFIRMED" <=> depth < ReadyDepth)
    BY <1>3, <1>10, <1>12, <2>1, MatchedRow
  <2>3. Sound(new, net.facts)
    <3>1. row.claim.kind # "other"
      BY <1>12, AgreedCall
    <3> QED BY <1>10, <1>12, <2>2, <3>1 DEF RowSound, Sound
  <2>4. InIndex(new, mine)
    BY <1>10, <1>11, <1>12, <2>2 DEF RowSound, InIndex
  <2>5. DeepIn(new, mine)
    <3>1. Len(Poll.head) \in Nat /\ Len(net.chain) \in Nat /\ row.n \in Nat /\ ReadyDepth \in Nat
      BY <1>1, M3Constants DEF Polls, OpRows, M3Inv, M3Types, Nets
    <3>2. Len(Poll.head) <= Len(net.chain)
      BY DEF M3Inv, ChainsReal, Real
    <3>3. new.state = "CONFIRMED" => row.n + ReadyDepth <= Len(Poll.head) + 1
      BY <1>3, <1>5, <2>2, <3>1
    <3>4. new.state = "CONFIRMED" => row.n + ReadyDepth <= Len(net.chain) + 1
      <4>1. PICK m \in Int, a \in Int, b \in Int : m = row.n + ReadyDepth /\ a = Len(Poll.head) /\ b = Len(net.chain)
        BY <3>1
      <4> QED BY <3>2, <3>3, <4>1
    <3> QED BY <1>3, <1>11, <2>2, <3>3, <3>4 DEF DeepIn
  <2>6. RowSound(new, indexes[new.claim.target]) /\ Save(o, new)
    BY <1>11, <1>12, <2>1, <2>2, <2>3, <2>4, <2>5 DEF RowSound
  <2>7. \E q \in OpIds, r \in OpRows : RowSound(r, indexes[r.claim.target]) /\ Save(q, r)
    BY <2>2, <2>6, Zenon
  <2> QED BY <1>1, <1>8, <1>9, <2>7, TrackingMoves
<1>13. CASE rows[o] = row /\ Save(o, Mismatched(row, code))
  <2>1. PICK new : new = Mismatched(row, code)
    OBVIOUS
  <2>2. /\ new \in OpRows /\ ValidEvidence(new) /\ new.claim = row.claim /\ new.n = row.n /\ new.at = row.at
        /\ new.receipt = row.receipt /\ new.canonical = row.canonical /\ ~new.reconciled /\ new.state = "RECONCILIATION_FAILED"
    BY <1>3, <1>10, <1>13, <2>1, MismatchedRow
  <2>3. RowSound(new, mine)
    BY <1>10, <1>11, <1>13, <2>2 DEF RowSound, Sound, InIndex, DeepIn
  <2>4. RowSound(new, indexes[new.claim.target]) /\ Save(o, new)
    BY <1>11, <1>13, <2>1, <2>2, <2>3
  <2>5. \E q \in OpIds, r \in OpRows : RowSound(r, indexes[r.claim.target]) /\ Save(q, r)
    BY <2>2, <2>4, Zenon
  <2> QED BY <1>1, <1>8, <1>9, <2>5, TrackingMoves
<1>14. CASE UNCHANGED <<rows, refused>>
  BY <1>1, <1>8, <1>9, <1>14, TrackingMoves
<1> QED BY <1>7, <1>12, <1>13, <1>14

\* The rollback's UPDATE.
LEMMA DisplacedRow ==
    ASSUME NEW row \in OpRows, NEW facts, Sound(row, facts), NEW from, NEW new, new = Displaced(row, from)
    PROVE  /\ new \in OpRows /\ new.claim = row.claim
           /\ \/ new = row /\ (row.canonical => ~(row.n >= from))
              \/ Sound(new, facts) /\ ~new.canonical /\ new.state = "REORGED"
<1>1. CASE row.state \in {"MINED", "CONFIRMING", "CONFIRMED", "REVERTED", "RECONCILIATION_FAILED"} /\ row.n >= from
  <2>1. PICK state \in OpStates, error \in OpErrors : state = "REORGED" /\ error = "CHAIN_REORG"
    BY DEF OpStates, OpErrors
  <2>2. PICK no \in BOOLEAN : no = FALSE
    BY Zenon
  <2>3. new = [row EXCEPT !.state = state, !.canonical = no, !.reconciled = no, !.confirmedAt = no, !.error = error]
    BY <1>1, <2>1, <2>2, Zenon DEF Displaced
  <2>4. new \in OpRows
    BY <2>3 DEF OpRows
  <2>5. new.claim = row.claim /\ new.n = row.n /\ new.at = row.at /\ new.receipt = row.receipt /\ new.sent = row.sent
        /\ new.replacement = row.replacement /\ new.state = state /\ new.canonical = no /\ new.reconciled = no
        /\ new.confirmedAt = no /\ new.error = error
    BY <2>3 DEF OpRows
  <2>6. row.sent /\ row.at # 0 /\ row.receipt # "none" /\ ~row.replacement
    BY <1>1 DEF Sound, ValidEvidence
  <2>7. ValidEvidence(new)
    BY <2>1, <2>2, <2>5, <2>6 DEF ValidEvidence
  <2>8. Sound(new, facts)
    BY <2>2, <2>5, <2>7 DEF Sound
  <2> QED BY <2>1, <2>2, <2>4, <2>5, <2>8
<1>2. CASE ~(row.state \in {"MINED", "CONFIRMING", "CONFIRMED", "REVERTED", "RECONCILIATION_FAILED"} /\ row.n >= from)
  <2>1. new = row
    BY <1>2 DEF Displaced
  <2>2. row.state \in OpStates
    BY DEF OpRows
  <2>3. row.canonical => row.state \in {"MINED", "CONFIRMING", "CONFIRMED", "REVERTED", "RECONCILIATION_FAILED"}
    BY <2>2 DEF Sound, ValidEvidence, OpStates
  <2> QED BY <1>2, <2>1, <2>3
<1> QED BY <1>1, <1>2

\* A row of the contract that is brought up: its block is kept, or it is displaced.
LEMMA SyncedRow ==
    ASSUME M3Inv, NEW row \in OpRows, NEW mine \in Indexes, RowSound(row, mine), NEW next \in Indexes,
           NEW k \in Nat, k <= Len(mine.chain), k <= Len(next.chain),
           \A i \in 1 .. k : next.chain[i] = mine.chain[i],
           Poll.pc # "idle", next.healthy => Len(next.chain) = Len(Poll.head), net' = net,
           Poll'.pc # "idle" => Poll'.head = Poll.head,
           NEW new, new = IF k < Len(mine.chain) THEN Displaced(row, k + 1) ELSE row
    PROVE  new \in OpRows /\ new.claim = row.claim /\ RowSound(new, next)'
<1>1. Sound(row, net.facts) /\ InIndex(row, mine) /\ DeepIn(row, mine)
  BY DEF RowSound
<1>2. /\ new \in OpRows /\ new.claim = row.claim
      /\ \/ new = row /\ (row.canonical => k = Len(mine.chain) \/ ~(row.n >= k + 1))
         \/ Sound(new, net.facts) /\ ~new.canonical /\ new.state = "REORGED"
  <2>1. CASE k < Len(mine.chain)
    BY <1>1, <2>1, DisplacedRow
  <2>2. CASE ~(k < Len(mine.chain))
    <3>1. Len(mine.chain) \in Nat
      BY DEF Indexes
    <3> QED BY <2>2, <3>1
  <2> QED BY <2>1, <2>2
<1>3. CASE new = row /\ (row.canonical => k = Len(mine.chain) \/ ~(row.n >= k + 1))
  <2>1. Sound(row, net'.facts)
    BY <1>1
  <2>2. InIndex(row, next)
    <3> SUFFICES ASSUME row.canonical PROVE row.n \in 1 .. Len(next.chain) /\ next.chain[row.n] = row.at
      BY DEF InIndex
    <3>1. row.n \in 1 .. Len(mine.chain) /\ mine.chain[row.n] = row.at /\ Len(mine.chain) \in Nat /\ Len(next.chain) \in Nat
      BY <1>1 DEF InIndex, Indexes
    <3>2. row.n \in 1 .. k
      BY <1>3, <3>1
    <3> QED BY <3>1, <3>2
  <2>3. DeepIn(row, next)'
    <3>1. row.state = "CONFIRMED" =>
             row.n + ReadyDepth <= Len(net.chain) + 1 /\ row.n + ReadyDepth <= Len(Poll.head) + 1
      BY <1>1 DEF DeepIn
    <3> QED BY <3>1 DEF DeepIn
  <2> QED BY <1>2, <1>3, <2>1, <2>2, <2>3 DEF RowSound, InIndex
<1>4. CASE Sound(new, net.facts) /\ ~new.canonical /\ new.state = "REORGED"
  <2>1. RowSound(new, next)'
    BY <1>4 DEF RowSound, Sound, InIndex, DeepIn
  <2> QED BY <1>2, <2>1
<1> QED BY <1>2, <1>3, <1>4

\* How far a synchronisation goes.
LEMMA SyncTarget ==
    ASSUME NEW len \in Nat, NEW head \in Nat, len <= head, NEW k \in Nat, k <= len,
           NEW bounded, bounded = IF len + 1 + PerSync - 1 < head THEN len + 1 + PerSync - 1 ELSE head,
           NEW to, to = IF bounded - k <= PerSync THEN bounded ELSE k
    PROVE  to \in Nat /\ k <= to /\ to <= head
<1>1. PerSync \in Nat
  BY M3Constants
<1> QED BY <1>1

LEMMA SyncTheContractKeeps ==
    ASSUME M3Inv, NEW c \in Contracts, SyncTheContract(c)
    PROVE  M3Inv'
<1> DEFINE my == indexes[c].chain
           top == Len(Poll.head)
           reach == IF Len(my) + 1 + PerSync - 1 < top THEN Len(my) + 1 + PerSync - 1 ELSE top
           same == CommonLength(my, net.chain)
           fit == reach - same <= PerSync
<1>1. /\ Poll.pc = c /\ UNCHANGED <<net, refused, pool>>
      /\ rows' = [o \in OpIds |-> IF o \in Stored /\ rows[o].claim.target = c /\ same < Len(my)
                                  THEN Displaced(rows[o], same + 1) ELSE rows[o]]
      /\ indexes' = [indexes EXCEPT ![c] = [chain |-> SubSeq(net.chain, 1, IF fit THEN reach ELSE same),
                                            healthy |-> fit /\ reach = top]]
      /\ daemon' = IF fit THEN [daemon EXCEPT !.poll.pc = IF c = "vault" THEN "pass" ELSE "page",
                                              !.poll.caught = @ /\ reach >= top]
                   ELSE EndPoll("FAILED")
  BY Zenon DEF SyncTheContract
<1>2. net \in Nets /\ indexes \in [Contracts -> Indexes] /\ Poll \in Polls /\ pool \in Pools
      /\ rows \in [OpIds -> OpRows \cup {NoOp}]
      /\ daemon = [phase |-> daemon.phase, poll |-> Poll, cursor |-> daemon.cursor, last |-> daemon.last]
  BY DEF M3Inv, M3Types, Poll
<1>3. PICK mine \in Indexes : mine = indexes[c]
  BY <1>2
<1>4. mine.chain \in Seq(Nat) /\ net.chain \in Seq(Nat) /\ my = mine.chain
  BY <1>2, <1>3 DEF Indexes, Nets
<1>5. PICK k : k = same
  OBVIOUS
<1>6. k \in Nat /\ k <= Len(mine.chain) /\ k <= Len(net.chain) /\ \A i \in 1 .. k : mine.chain[i] = net.chain[i]
  BY <1>4, <1>5, CommonLengthHolds
<1>7. PICK head \in Nat : head = top
  BY <1>2 DEF Polls
<1>8. Len(mine.chain) \in Nat /\ Len(net.chain) \in Nat /\ Len(mine.chain) <= head /\ head <= Len(net.chain)
  BY <1>1, <1>3, <1>4, <1>7 DEF M3Inv, HeadAhead, Contracts, ChainsReal, Real
<1>9. PICK bounded : bounded = reach /\ bounded = IF Len(mine.chain) + 1 + PerSync - 1 < head THEN Len(mine.chain) + 1 + PerSync - 1 ELSE head
  BY <1>4, <1>7, Zenon
<1>10. PICK fits \in BOOLEAN : fits = fit /\ fits = (bounded - k <= PerSync)
  <2>1. PICK i \in Int, j \in Int : i = bounded - k /\ j = PerSync
    <3>1. PerSync \in Int /\ k \in Int /\ head \in Int /\ Len(mine.chain) \in Int
      BY <1>6, <1>8, M3Constants
    <3>2. bounded = IF Len(mine.chain) + 1 + PerSync - 1 < head THEN Len(mine.chain) + 1 + PerSync - 1 ELSE head
      BY <1>9
    <3>3. bounded \in Int
      BY <3>1, <3>2
    <3>4. bounded - k \in Int
      BY <3>1, <3>3
    <3> QED BY <3>1, <3>4, Zenon
  <2>2. (i <= j) \in BOOLEAN
    OBVIOUS
  <2>3. fit = (bounded - k <= PerSync)
    BY <1>5, <1>9, Zenon
  <2> QED BY <2>1, <2>2, <2>3, Zenon
<1>11. PICK to : to = (IF fit THEN reach ELSE same) /\ to = IF fits THEN bounded ELSE k
  BY <1>5, <1>9, <1>10, Zenon
<1>12. to \in Nat /\ k <= to /\ to <= head
  BY <1>6, <1>8, <1>9, <1>10, <1>11, SyncTarget
<1>13. PICK healthy \in BOOLEAN : healthy = (fit /\ reach = top) /\ healthy = (fits /\ bounded = head)
  <2>1. (fit /\ reach = top) \in BOOLEAN
    BY Zenon
  <2>2. (fit /\ reach = top) = (fits /\ bounded = head)
    BY <1>7, <1>9, <1>10, Zenon
  <2> QED BY <2>1, <2>2, Zenon
<1>14. PICK caught \in BOOLEAN : caught = (Poll.caught /\ reach >= top)
  <2>1. (Poll.caught /\ reach >= top) \in BOOLEAN
    BY Zenon
  <2> QED BY <2>1, Zenon
<1>15. PICK onto \in {"pass", "page"} : onto = IF c = "vault" THEN "pass" ELSE "page"
  OBVIOUS
<1>16. PICK next : next = [chain |-> SubSeq(net.chain, 1, to), healthy |-> healthy]
  OBVIOUS
<1>17. rows' = [o \in OpIds |-> IF o \in Stored /\ rows[o].claim.target = c /\ k < Len(mine.chain)
                                THEN Displaced(rows[o], k + 1) ELSE rows[o]]
  BY <1>1, <1>4, <1>5, Zenon
<1>18. indexes' = [indexes EXCEPT ![c] = next]
  BY <1>1, <1>11, <1>13, <1>16, Zenon
<1>19. \/ fits /\ daemon' = [daemon EXCEPT !.poll.pc = onto, !.poll.caught = caught]
       \/ ~fits /\ daemon' = EndPoll("FAILED")
  <2>1. CASE fits
    <3>1. daemon' = [daemon EXCEPT !.poll.pc = IF c = "vault" THEN "pass" ELSE "page",
                                   !.poll.caught = daemon.poll.caught /\ reach >= top]
      <4> HIDE DEF reach, top
      <4> QED BY <1>1, <1>2, <1>10, <2>1 DEF Polls
    <3> QED BY <1>14, <1>15, <2>1, <3>1, Zenon DEF Poll
  <2>2. CASE ~fits
    BY <1>1, <1>10, <2>2, Zenon
  <2> QED BY <2>1, <2>2
<1> HIDE DEF my, top, reach, same, fit
<1>20. /\ next \in Indexes /\ Len(next.chain) = to /\ Real(next.chain) /\ next.healthy = healthy
       /\ \A i \in 1 .. k : next.chain[i] = mine.chain[i]
  <2>1. Real(net.chain) /\ to <= Len(net.chain)
    BY <1>8, <1>12 DEF M3Inv, ChainsReal
  <2>2. PICK part : part = SubSeq(net.chain, 1, to)
    OBVIOUS
  <2>3. part \in Seq(Nat) /\ Len(part) = to /\ (\A i \in 1 .. to : part[i] = net.chain[i]) /\ Real(part)
    BY <1>2, <1>12, <2>1, <2>2, RealPrefix
  <2>4. next \in Indexes /\ next.chain = part /\ next.healthy = healthy
    BY <1>16, <2>2, <2>3 DEF Indexes
  <2>5. \A i \in 1 .. k : i \in 1 .. to
    BY <1>6, <1>12
  <2> QED BY <1>6, <2>3, <2>4, <2>5
<1>21. next.healthy => Len(next.chain) = Len(Poll.head)
  BY <1>7, <1>11, <1>13, <1>20 DEF top
<1>22. indexes' \in [Contracts -> Indexes] /\ indexes'[c] = next /\ \A d \in Contracts : d # c => indexes'[d] = indexes[d]
  BY <1>2, <1>18, <1>20
<1>23. /\ Poll' \in Polls
       /\ daemon' = [phase |-> daemon'.phase, poll |-> daemon'.poll, cursor |-> daemon'.cursor, last |-> daemon'.last]
       /\ \/ Poll' = Idle
          \/ Poll'.pc = onto /\ Poll'.head = Poll.head /\ Poll'.page = Poll.page
  <2>1. CASE daemon' = [daemon EXCEPT !.poll.pc = onto, !.poll.caught = caught]
    <3>1. PICK p : p = [Poll EXCEPT !.pc = onto, !.caught = caught]
      OBVIOUS
    <3>2. p \in Polls /\ p.pc = onto /\ p.head = Poll.head /\ p.page = Poll.page
      BY <1>2, <3>1 DEF Polls
    <3>3. daemon' = [daemon EXCEPT !.poll = p]
      BY <1>2, <2>1, <3>1 DEF Poll
    <3>4. Poll' = p
          /\ daemon' = [phase |-> daemon'.phase, poll |-> daemon'.poll, cursor |-> daemon'.cursor, last |-> daemon'.last]
      BY <3>2, <3>3, PollTo
    <3> QED BY <3>2, <3>4
  <2>2. CASE daemon' = EndPoll("FAILED")
    <3>1. Poll' = Idle
          /\ daemon' = [phase |-> daemon'.phase, poll |-> daemon'.poll, cursor |-> daemon'.cursor, last |-> daemon'.last]
      BY <2>2, EndedPoll DEF Poll
    <3> QED BY <3>1, IdlePoll
  <2> QED BY <1>19, <2>1, <2>2
<1>24. Poll.pc # "idle" /\ PollOnward /\ (Poll'.pc # "idle" => Poll'.head = Poll.head)
  BY <1>1, <1>23, IdlePoll DEF PollOnward, Contracts
<1>25. net' = net /\ net' \in Nets /\ NetOnward
  BY <1>1, <1>2, NoNews
<1>26. ASSUME NEW o \in OpIds
       PROVE  /\ rows'[o] \in OpRows \cup {NoOp} /\ (rows[o] # NoOp => rows'[o] # NoOp)
              /\ rows'[o] # NoOp => RowSound(rows[o], indexes[rows[o].claim.target])'
  <2>1. CASE rows[o] = NoOp
    BY <1>17, <2>1 DEF Stored
  <2>2. CASE rows[o] # NoOp
    <3>1. PICK row \in OpRows : row = rows[o] /\ row.claim.target \in Contracts /\ RowSound(row, indexes[row.claim.target])
      BY <2>2, StoredRow
    <3>2. CASE row.claim.target = c
      <4>1. PICK new : new = IF k < Len(mine.chain) THEN Displaced(row, k + 1) ELSE row
        OBVIOUS
      <4>2. rows'[o] = new
        BY <1>17, <2>2, <3>1, <3>2, <4>1 DEF Stored
      <4>3. RowSound(row, mine) /\ k <= Len(next.chain)
        BY <1>3, <1>12, <1>20, <3>1, <3>2
      <4>4. new \in OpRows /\ new.claim = row.claim /\ RowSound(new, next)'
        <5>1. k \in Nat /\ k <= Len(mine.chain) /\ k <= Len(next.chain) /\ next \in Indexes
          BY <1>6, <1>20, <4>3
        <5>2. \A i \in 1 .. k : next.chain[i] = mine.chain[i]
          BY <1>20
        <5>3. RowSound(row, mine) /\ Poll.pc # "idle" /\ net' = net /\ (Poll'.pc # "idle" => Poll'.head = Poll.head)
          BY <1>24, <1>25, <4>3
        <5> QED BY <1>21, <4>1, <5>1, <5>2, <5>3, SyncedRow
      <4>5. RowSound(rows[o], indexes[rows[o].claim.target])'
        BY <1>22, <3>2, <4>2, <4>4
      <4> QED BY <4>2, <4>4, <4>5, RowIsSome
    <3>3. CASE row.claim.target # c
      <4>1. rows'[o] = row
        BY <1>17, <3>1, <3>3
      <4>2. indexes'[row.claim.target] = indexes[row.claim.target]
        BY <1>22, <3>1, <3>3
      <4>3. RowSound(row, indexes[row.claim.target])'
        BY <1>24, <1>25, <3>1, <4>2, RowCarries
      <4>4. RowSound(rows[o], indexes[rows[o].claim.target])'
        BY <4>1, <4>3
      <4> QED BY <4>1, <4>4, RowIsSome
    <3> QED BY <3>2, <3>3
  <2> QED BY <2>1, <2>2
<1>27. rows' \in [OpIds -> OpRows \cup {NoOp}] /\ RowsSound'
  <2>1. RowsSound'
    BY <1>26 DEF RowsSound
  <2>2. \A o \in OpIds : rows'[o] \in OpRows \cup {NoOp}
    BY <1>26
  <2>3. rows' = [o \in OpIds |-> rows'[o]]
    BY <1>17
  <2> QED BY <2>1, <2>2, <2>3
<1>28. M3Types'
  BY <1>1, <1>2, <1>22, <1>23, <1>25, <1>27 DEF M3Inv, M3Types, Poll
<1>29. ChainsReal'
  <2>1. Real(Poll'.head)
    BY <1>23, IdlePoll, RealEmpty DEF M3Inv, ChainsReal
  <2>2. \A d \in Contracts : Real(indexes'[d].chain)
    BY <1>20, <1>22 DEF M3Inv, ChainsReal
  <2> QED BY <1>25, <2>1, <2>2 DEF M3Inv, ChainsReal, Real
<1>30. PageStored'
  <2>1. \A i \in 1 .. Len(Poll.page) : Poll.page[i] \in OpIds
    BY <1>2 DEF Polls
  <2>2. CASE Poll' = Idle
    BY <2>2, IdlePoll DEF PageStored
  <2>3. CASE Poll'.page = Poll.page
    BY <1>26, <2>1, <2>3 DEF M3Inv, PageStored
  <2> QED BY <1>23, <2>2, <2>3
<1>31. HeadAhead'
  <2>1. CASE Poll'.pc = "pass"
    <3>1. c = "vault" /\ Poll'.head = Poll.head
      BY <1>15, <1>23, <2>1, IdlePoll
    <3>2. "pass" \in Contracts /\ indexes'["pass"] = indexes["pass"]
      BY <1>22, <3>1 DEF Contracts
    <3> QED BY <1>1, <2>1, <3>1, <3>2 DEF M3Inv, HeadAhead
  <2>2. CASE Poll'.pc # "pass"
    BY <1>23, <2>2, IdlePoll DEF HeadAhead
  <2> QED BY <2>1, <2>2
<1>32. Tracking' /\ ~refused'
  BY <1>1, <1>23, IdlePoll DEF Tracking, M3Inv
<1> QED BY <1>27, <1>28, <1>29, <1>30, <1>31, <1>32 DEF M3Inv

LEMMA M3Keeps == M3Inv /\ [M3ServerNext]_m3ServerVars => M3Inv'
<1> SUFFICES ASSUME M3Inv, [M3ServerNext]_m3ServerVars PROVE M3Inv'
  OBVIOUS
<1>1. CASE UNCHANGED m3ServerVars
  <2>1. UNCHANGED <<net, rows, indexes, daemon, refused, pool>> /\ Poll' = Poll
    BY <1>1 DEF m3ServerVars, Poll
  <2>2. RowsSound'
    BY <2>1 DEF M3Inv, RowsSound, RowSound, Sound, InIndex, DeepIn
  <2> QED BY <2>1, <2>2 DEF M3Inv, M3Types, ChainsReal, Real, PageStored, HeadAhead, Tracking
<1>2. CASE PollStep
  BY <1>2, BeginPollKeeps, TakePageKeeps, ProcessKeeps, TrackTheReceiptKeeps, TrackTheOutcomeKeeps, SyncTheContractKeeps DEF PollStep
<1>3. CASE PollFails \/ RestartM3 \/ CloseM3 \/ ClosedM3
  BY <1>3, ProcessKeeps
<1>4. CASE Grow \/ Reorganise \/ ComeToRest
  BY <1>4, NetworkKeeps
<1>5. CASE \E r \in pool.reports : Report(r[1], r[2])
  BY <1>5, ReportKeeps
<1>6. CASE \E o \in OpIds, state \in {"REPLACED", "DROPPED"} : RecordGone(o, state)
  BY <1>6, RecordGoneKeeps
<1> QED BY <1>1, <1>2, <1>3, <1>4, <1>5, <1>6 DEF M3ServerNext

\* Operations that are as they say are accepted, and ready ones are true and deep.
LEMMA M3Implies == M3Inv => OperationsSound
<1> SUFFICES ASSUME M3Inv PROVE OperationsSound
  OBVIOUS
<1>1. ASSUME NEW o \in Stored PROVE o \in OpIds /\ rows[o] # NoOp
  BY DEF Stored
<1>2. EvidenceAccepted
  <2>1. ASSUME NEW o \in Stored PROVE ValidEvidence(rows[o])
    BY <1>1, StoredRow DEF RowSound, Sound
  <2> QED BY <2>1 DEF EvidenceAccepted, M3Inv
<1>3. ASSUME NEW o \in Stored, ShownReady(o)
      PROVE  /\ rows[o].claim.kind = "true"
             /\ [tx |-> rows[o].claim.tx, at |-> rows[o].at, ok |-> TRUE] \in net.facts
             /\ Len(indexes[rows[o].claim.target].chain) - rows[o].n + 1 >= ReadyDepth
  <2>1. PICK row \in OpRows : row = rows[o] /\ row.claim \in Claims /\ row.claim.target \in Contracts
                              /\ RowSound(row, indexes[row.claim.target])
    BY <1>1, StoredRow
  <2>2. PICK mine \in Indexes : mine = indexes[row.claim.target]
    BY <2>1 DEF M3Inv, M3Types
  <2>3. row.state = "CONFIRMED" /\ row.reconciled /\ mine.healthy
    BY <1>3, <2>1, <2>2 DEF ShownReady, ProductReady
  <2>4. Sound(row, net.facts) /\ DeepIn(row, mine)
    BY <2>1, <2>2 DEF RowSound
  <2>5. row.at # 0 /\ row.receipt = "SUCCESS"
    BY <2>3, <2>4 DEF Sound, ValidEvidence
  <2>6. row.claim.kind = "true"
    BY <2>1, <2>3, <2>4, <2>5, ClaimFacts DEF Sound
  <2>7. row.n + ReadyDepth <= Len(mine.chain) + 1 /\ row.n \in Nat /\ ReadyDepth \in Nat /\ Len(mine.chain) \in Nat
    BY <2>3, <2>4, M3Constants DEF DeepIn, OpRows, Indexes
  <2>8. Len(mine.chain) - row.n + 1 >= ReadyDepth
    BY <2>7
  <2> QED BY <2>1, <2>2, <2>4, <2>5, <2>6, <2>8 DEF Sound
<1>4. ReadyIsTrue
  BY <1>3, Zenon DEF ReadyIsTrue
<1> QED BY <1>2, <1>4 DEF OperationsSound

\* However the network reorganises, whatever is reported, and wherever polls fail and the process stops,
\* the store accepts every operation it comes to hold (validateOperationEvidence), and the evidence route
\* calls one ready only when the reported call was made, succeeded and is deep (operationEvidence).
THEOREM OperationsStaySound == M3ServerSpec => []OperationsSound
<1>1. M3ServerInit => M3Inv
  BY M3Starts
<1>2. M3Inv /\ [M3ServerNext]_m3ServerVars => M3Inv'
  BY M3Keeps
<1>3. M3Inv => OperationsSound
  BY M3Implies
<1> QED BY <1>1, <1>2, <1>3, PTL DEF M3ServerSpec

----------------------------------------------------------------------------
(* The market's chain: what a block's ancestry is *)

\* Some block of a set has the lowest number.
LEMMA LowestBlock ==
    ASSUME NEW S \in SUBSET Blocks, S # {}
    PROVE  \E b \in S : \A c \in S : Number[b] <= Number[c]
<1> DEFINE Numbers == {Number[b] : b \in S}
<1>1. Numbers \in SUBSET Nat /\ Numbers # {}
  BY IndexerAssumption
<1> HIDE DEF Numbers
<1>2. PICK n \in Numbers : \A m \in Numbers : n <= m
  BY <1>1, LeastNumber
<1> QED BY <1>2 DEF Numbers

LEMMA ParentBelow ==
    ASSUME NEW b \in Blocks
    PROVE  /\ Number[b] \in Nat /\ Parent[b] \in Blocks \cup {NoBlock} /\ NoBlock \notin Blocks
           /\ Parent[b] # NoBlock => Parent[b] \in Blocks /\ Number[b] = Number[Parent[b]] + 1 /\ Number[Parent[b]] \in Nat
           /\ Parent[b] = NoBlock => Number[b] = DeploymentBlock
<1>1. Number[b] \in Nat /\ Parent[b] \in Blocks \cup {NoBlock} /\ NoBlock \notin Blocks
  BY IndexerAssumption DEF OrNone
<1>2. Parent[b] # NoBlock => Parent[b] \in Blocks /\ Number[b] = Number[Parent[b]] + 1
  BY <1>1, IndexerAssumption
<1>3. Parent[b] # NoBlock => Number[Parent[b]] \in Nat
  BY <1>2, IndexerAssumption
<1>4. Parent[b] = NoBlock => Number[b] = DeploymentBlock
  BY IndexerAssumption
<1> QED BY <1>1, <1>2, <1>3, <1>4

\* A set of blocks that holds a block whenever it holds its parent holds every block.
LEMMA FromTheFirst ==
    ASSUME NEW S \in SUBSET Blocks, \A b \in Blocks : (Parent[b] # NoBlock => Parent[b] \in S) => b \in S
    PROVE  S = Blocks
<1> SUFFICES ASSUME Blocks \ S # {} PROVE FALSE
  OBVIOUS
<1>1. PICK b \in Blocks \ S : \A c \in Blocks \ S : Number[b] <= Number[c]
  BY LowestBlock
<1>2. Parent[b] # NoBlock /\ Parent[b] \notin S
  BY <1>1
<1>3. Parent[b] \in Blocks \ S /\ Number[b] = Number[Parent[b]] + 1 /\ Number[Parent[b]] \in Nat
  BY <1>1, <1>2, ParentBelow
<1> QED BY <1>1, <1>3

\* Ancestry has its equation: the smallest sets that are closed under Parent satisfy it.
LEMMA AncestryEquation ==
    ASSUME NEW b \in Blocks
    PROVE  Ancestry[b] = {b} \cup (IF Parent[b] = NoBlock THEN {} ELSE Ancestry[Parent[b]])
<1> DEFINE Closed(S) == \A x \in S : Parent[x] # NoBlock => Parent[x] \in S
           Up(x) == {c \in Blocks : \A S \in SUBSET Blocks : x \in S /\ Closed(S) => c \in S}
           step(f, x) == {x} \cup (IF Parent[x] = NoBlock THEN {} ELSE f[Parent[x]])
           ups == [x \in Blocks |-> Up(x)]
<1>1. ASSUME NEW x \in Blocks PROVE Up(x) = step(ups, x)
  <2>1. CASE Parent[x] = NoBlock
    <3>1. Closed({x}) /\ x \in Up(x)
      BY <2>1
    <3> QED BY <2>1, <3>1
  <2>2. CASE Parent[x] # NoBlock
    <3>1. Parent[x] \in Blocks /\ ups[Parent[x]] = Up(Parent[x])
      BY <2>2, IndexerAssumption DEF OrNone
    <3>2. Closed({x} \cup Up(Parent[x]))
      <4>1. Parent[x] \in Up(Parent[x])
        BY <3>1
      <4>2. ASSUME NEW y \in Up(Parent[x]), Parent[y] # NoBlock PROVE Parent[y] \in Up(Parent[x])
        BY <4>2, IndexerAssumption DEF OrNone
      <4> QED BY <4>1, <4>2
    <3>3. Up(x) \subseteq {x} \cup Up(Parent[x])
      <4>1. {x} \cup Up(Parent[x]) \in SUBSET Blocks
        OBVIOUS
      <4> QED BY <3>2, <4>1
    <3>4. x \in Up(x)
      OBVIOUS
    <3>5. Up(Parent[x]) \subseteq Up(x)
      BY <2>2, <3>1
    <3> QED BY <2>2, <3>1, <3>3, <3>4, <3>5
  <2> QED BY <2>1, <2>2
<1> HIDE DEF Up
<1>2. ups = [x \in Blocks |-> step(ups, x)]
  BY <1>1
<1>3. Ancestry = [x \in Blocks |-> step(Ancestry, x)]
  BY <1>2 DEF Ancestry
<1> QED BY <1>3

\* What lies below a block is below it, down to the deployment block, one of each number.
AncestryFacts(b) ==
    /\ Ancestry[b] \subseteq Blocks
    /\ \A c \in Ancestry[b] : c = b \/ Number[c] < Number[b]
    /\ \A c, d \in Ancestry[b] : Number[c] = Number[d] => c = d
    /\ \A c \in Ancestry[b] : Ancestry[c] = {d \in Ancestry[b] : Number[d] <= Number[c]}
    /\ Number[b] >= DeploymentBlock
    /\ \A n \in Nat : DeploymentBlock <= n /\ n <= Number[b] => \E c \in Ancestry[b] : Number[c] = n

LEMMA AncestryHolds == \A b \in Blocks : b \in Ancestry[b] /\ AncestryFacts(b)
<1> DEFINE Fine == {b \in Blocks : AncestryFacts(b)}
<1>1. \A b \in Blocks : b \in Ancestry[b]
  BY AncestryEquation
<1>2. DeploymentBlock \in Nat /\ \A c \in Blocks : Number[c] \in Nat
  BY IndexerAssumption
<1>3. ASSUME NEW b \in Blocks, Parent[b] # NoBlock => Parent[b] \in Fine PROVE b \in Fine
  <2>1. CASE Parent[b] = NoBlock
    <3>1. Ancestry[b] = {b} /\ Number[b] = DeploymentBlock
      BY <2>1, AncestryEquation, ParentBelow
    <3> QED BY <1>2, <3>1 DEF AncestryFacts
  <2>2. CASE Parent[b] # NoBlock
    <3>1. PICK p \in Blocks : p = Parent[b] /\ AncestryFacts(p) /\ Number[b] = Number[p] + 1
      BY <1>3, <2>2, ParentBelow
    <3>2. Ancestry[b] = {b} \cup Ancestry[p] /\ p \in Ancestry[p]
      BY <1>1, <2>2, <3>1, AncestryEquation
    <3>3. \A c \in Ancestry[p] : c \in Blocks /\ Number[c] \in Nat /\ Number[c] <= Number[p] /\ Number[c] < Number[b]
      BY <1>2, <3>1 DEF AncestryFacts
    <3>4. Ancestry[b] \subseteq Blocks /\ \A c \in Ancestry[b] : c = b \/ Number[c] < Number[b]
      BY <3>2, <3>3
    <3>5. \A c, d \in Ancestry[b] : Number[c] = Number[d] => c = d
      BY <1>2, <3>1, <3>2, <3>3 DEF AncestryFacts
    <3>6. ASSUME NEW c \in Ancestry[b] PROVE Ancestry[c] = {d \in Ancestry[b] : Number[d] <= Number[c]}
      <4>1. CASE c = b
        BY <1>2, <3>2, <3>3, <4>1
      <4>2. CASE c \in Ancestry[p]
        <5>1. Ancestry[c] = {d \in Ancestry[p] : Number[d] <= Number[c]} /\ ~(Number[b] <= Number[c])
          BY <1>2, <3>1, <3>3, <4>2 DEF AncestryFacts
        <5> QED BY <3>2, <5>1
      <4> QED BY <3>2, <3>6, <4>1, <4>2
    <3>7. Number[b] >= DeploymentBlock
      BY <1>2, <3>1 DEF AncestryFacts
    <3>8. ASSUME NEW n \in Nat, DeploymentBlock <= n, n <= Number[b] PROVE \E c \in Ancestry[b] : Number[c] = n
      <4>1. CASE n = Number[b]
        BY <3>2, <4>1
      <4>2. CASE n <= Number[p]
        BY <3>1, <3>2, <3>8, <4>2 DEF AncestryFacts
      <4> QED BY <1>2, <3>1, <3>8, <4>1, <4>2
    <3> QED BY <3>4, <3>5, <3>6, <3>7, <3>8 DEF AncestryFacts
  <2> QED BY <2>1, <2>2
<1>4. Fine = Blocks
  <2>1. Fine \in SUBSET Blocks
    OBVIOUS
  <2> HIDE DEF Fine
  <2> QED BY <1>3, <2>1, FromTheFirst
<1> QED BY <1>1, <1>4

\* What is found at a number has it.
LEMMA FoundAt ==
    ASSUME NEW S, NEW n
    PROVE  /\ BlockAt(S, n) \in S \cup {NoBlock}
           /\ BlockAt(S, n) # NoBlock => BlockAt(S, n) \in S /\ Number[BlockAt(S, n)] = n
           /\ \A b \in S : Number[b] = n => BlockAt(S, n) \in S /\ Number[BlockAt(S, n)] = n
  BY DEF BlockAt

----------------------------------------------------------------------------
(* The market's operations and the polls of them *)

OperationPolls == [pc : {"idle", "canonical", "finish"}, old : Operations, receipt : OrNone(Blocks), canonical : BOOLEAN]

OperationsTyped == tip \in Blocks /\ operation \in [Accounts -> Operations] /\ poll \in [Accounts -> OperationPolls]

LEMMA OperationsLeft ==
    ASSUME OperationsTyped, tip' = tip \/ tip' \in Blocks, operation' = operation, poll' = poll
    PROVE  OperationsTyped'
  BY DEF OperationsTyped

LEMMA NoOperationTyped == NoOperation \in Operations /\ NotPolling \in OperationPolls
<1>1. NoOperation \in Operations
  BY DEF NoOperation, Operations, OperationState, OrNone
<1>2. PICK none, no : none = NoOperation /\ no = FALSE /\ no \in BOOLEAN
  BY Zenon
<1>3. [pc |-> "idle", old |-> none, receipt |-> NoBlock, canonical |-> no] \in OperationPolls
  BY <1>1, <1>2 DEF OperationPolls, OrNone
<1> QED BY <1>1, <1>2, <1>3 DEF NotPolling

\* What a poll makes of the row it read.
LEMMA ReorgedTyped ==
    ASSUME NEW old \in Operations, NEW error \in {"RECEIPT_REMOVED", "NON_CANONICAL_RECEIPT"}
    PROVE  /\ [old EXCEPT !.state = "REORGED", !.error = error] \in Operations
           /\ [old EXCEPT !.state = "REORGED", !.error = error].state = "REORGED"
  BY DEF Operations, OperationState

LEMMA NextTyped ==
    ASSUME OperationsTyped, NEW a \in Accounts
    PROVE  NextOperation(a) \in Operations /\ NextOperation(a).state \in {"REORGED", "REVERTED", "COMPLETED", "INCLUDED"}
<1>1. PICK p \in OperationPolls : p = poll[a]
  BY DEF OperationsTyped
<1>2. p.old \in Operations /\ p.receipt \in OrNone(Blocks)
  BY DEF OperationPolls
<1>3. CASE ~p.canonical
  <2>1. PICK old \in Operations : old = p.old
    BY <1>2
  <2>2. NextOperation(a) = [old EXCEPT !.state = "REORGED", !.error = "NON_CANONICAL_RECEIPT"]
    BY <1>1, <1>3, <2>1 DEF NextOperation
  <2> QED BY <2>1, <2>2, ReorgedTyped
<1>4. CASE p.canonical
  <2>1. PICK state \in {"REVERTED", "COMPLETED", "INCLUDED"} :
          NextOperation(a) = [block |-> p.receipt, error |-> "none", state |-> state]
    BY <1>1, <1>4 DEF NextOperation
  <2>2. PICK b \in OrNone(Blocks) : b = p.receipt
    BY <1>2
  <2>3. [block |-> b, error |-> "none", state |-> state] \in Operations
    BY DEF Operations, OperationState
  <2> QED BY <2>1, <2>2, <2>3
<1> QED BY <1>3, <1>4

LEMMA OperationUpdated ==
    ASSUME OperationsTyped, NEW a \in Accounts, NEW next \in Operations, NEW p \in OperationPolls, UpdateOperation(a, next),
           tip' = tip, poll' = poll \/ poll' = [poll EXCEPT ![a] = p]
    PROVE  OperationsTyped'
<1>1. operation' = [operation EXCEPT ![a] = next]
  BY DEF UpdateOperation
<1> QED BY <1>1 DEF OperationsTyped

LEMMA PollsMove ==
    ASSUME OperationsTyped, NEW a \in Accounts, NEW p \in OperationPolls, tip' = tip, operation' = operation,
           poll' = [poll EXCEPT ![a] = p]
    PROVE  OperationsTyped'
  BY DEF OperationsTyped

LEMMA OperationsStart == Init => OperationsTyped
  BY NoOperationTyped DEF Init, OperationsTyped

LEMMA OperationsKeep == OperationsTyped /\ [Next]_vars => OperationsTyped'
<1> SUFFICES ASSUME OperationsTyped, [Next]_vars PROVE OperationsTyped'
  OBVIOUS
<1>1. CASE UNCHANGED vars
  BY <1>1, OperationsLeft DEF vars, chainVars, storeVars, apiVars
<1>2. CASE TickStep
  <2>1. tip' = tip /\ operation' = operation /\ poll' = poll
    BY <1>2 DEF TickStep, BeginTick, CheckCursor, SearchHit, SearchEnd, RewindTo, SearchMiss, SearchExhausted, RollbackProjection,
         NothingToScan, FetchHeaders, FetchLogs, CommitScan, ReadSnapshot, Publish, ThrowTick, chainVars, storeVars, apiVars
  <2> QED BY <2>1, OperationsLeft
<1>3. ASSUME NEW a \in Accounts, ServiceStep(a) PROVE OperationsTyped'
  <2>1. CASE QuoteClaim(a) \/ ReserveClaim(a) \/ SimulateClaim(a) \/ EndQuote(a) \/ ExpireVoucher(a)
    <3>1. tip' = tip /\ operation' = operation /\ poll' = poll
      BY <2>1 DEF QuoteClaim, ReserveClaim, SimulateClaim, EndQuote, ExpireVoucher, chainVars, storeVars, apiVars
    <3> QED BY <3>1, OperationsLeft
  <2>2. CASE Submit(a)
    <3>1. PICK o \in Operations : o = operation[a]
      BY DEF OperationsTyped
    <3>2. PICK new : new = [o EXCEPT !.state = "SUBMITTED"]
      OBVIOUS
    <3>3. new \in Operations
      BY <3>2 DEF Operations, OperationState
    <3>4. operation' = [operation EXCEPT ![a] = new] /\ tip' = tip /\ poll' = poll
      BY <2>2, <3>1, <3>2 DEF Submit, OperationsTyped, Operations, chainVars, apiVars
    <3> QED BY <3>3, <3>4 DEF OperationsTyped
  <2>3. CASE PollRemoved(a)
    <3>1. PICK o \in Operations : o = operation[a]
      BY DEF OperationsTyped
    <3>2. PICK next : next = [o EXCEPT !.state = "REORGED", !.error = "RECEIPT_REMOVED"]
      OBVIOUS
    <3>3. UpdateOperation(a, next) /\ tip' = tip /\ poll' = poll
      BY <2>3, <3>1, <3>2 DEF PollRemoved, chainVars, apiVars
    <3> QED BY <3>2, <3>3, ReorgedTyped, NoOperationTyped, OperationUpdated
  <2>4. CASE PollReceipt(a)
    <3>1. PICK b \in Receipts(a) : poll' = [poll EXCEPT ![a] = [NotPolling EXCEPT !.pc = "canonical", !.old = operation[a], !.receipt = b]]
      BY <2>4 DEF PollReceipt
    <3>2. b \in Blocks
      BY <3>1, AncestryHolds DEF Receipts, AncestryFacts, OperationsTyped
    <3>3. PICK o \in Operations : o = operation[a]
      BY DEF OperationsTyped
    <3>4. PICK none \in OperationPolls : none = NotPolling
      BY NoOperationTyped
    <3>5. PICK p : p = [none EXCEPT !.pc = "canonical", !.old = o, !.receipt = b]
      OBVIOUS
    <3>6. p \in OperationPolls
      BY <3>2, <3>5 DEF OperationPolls, OrNone
    <3>7. tip' = tip /\ operation' = operation /\ poll' = [poll EXCEPT ![a] = p]
      BY <2>4, <3>1, <3>3, <3>4, <3>5 DEF PollReceipt, chainVars, storeVars
    <3> QED BY <3>6, <3>7, PollsMove
  <2>5. CASE PollCanonical(a)
    <3>1. PICK p \in OperationPolls : p = poll[a]
      BY DEF OperationsTyped
    <3>2. PICK flag \in BOOLEAN : flag = Canonical(poll[a].receipt)
      BY Zenon DEF Canonical
    <3>3. PICK q : q = [p EXCEPT !.pc = "finish", !.canonical = flag]
      OBVIOUS
    <3>4. q \in OperationPolls
      BY <3>3 DEF OperationPolls
    <3>5. poll' = [poll EXCEPT ![a].pc = "finish", ![a].canonical = flag] /\ tip' = tip /\ operation' = operation
      BY <2>5, <3>2 DEF PollCanonical, chainVars, storeVars
    <3>6. poll' = [poll EXCEPT ![a] = q]
      BY <3>1, <3>3, <3>5 DEF OperationsTyped, OperationPolls
    <3> QED BY <3>4, <3>5, <3>6, PollsMove
  <2>6. CASE PollFinish(a)
    <3>1. PICK next \in Operations : next = NextOperation(a)
      BY NextTyped
    <3>2. PICK none \in OperationPolls : none = NotPolling
      BY NoOperationTyped
    <3>3. UpdateOperation(a, next) \/ operation' = operation
      BY <2>6, <3>1 DEF PollFinish
    <3>4. poll' = [poll EXCEPT ![a] = none] /\ tip' = tip
      BY <2>6, <3>2 DEF PollFinish, chainVars
    <3> QED BY <3>3, <3>4, PollsMove, OperationUpdated
  <2>7. CASE PollFail(a)
    BY <2>7, PollsMove, NoOperationTyped DEF PollFail, chainVars, storeVars
  <2> QED BY <1>3, <2>1, <2>2, <2>3, <2>4, <2>5, <2>6, <2>7 DEF ServiceStep
<1>4. CASE Crash
  BY <1>4, NoOperationTyped DEF Crash, OperationsTyped, chainVars, storeVars
<1>5. CASE Settle \/ \E b \in Blocks : MoveTip(b)
  <2>1. tip' \in Blocks /\ operation' = operation /\ poll' = poll
    BY <1>5 DEF Settle, MoveTip, storeVars, apiVars, OperationsTyped
  <2> QED BY <2>1, OperationsLeft
<1> QED BY <1>1, <1>2, <1>3, <1>4, <1>5 DEF Next

----------------------------------------------------------------------------
(* The market's vouchers *)

Vouchers == [status : VoucherStatus, live : BOOLEAN, tx : BOOLEAN]

\* A voucher whose transaction is known is past being issued.
Used(v) == v.tx => v.status \notin {"NONE", "ISSUED"}
VouchersUsed == voucher \in [Accounts -> Vouchers] /\ \A a \in Accounts : Used(voucher[a])

\* What a step may do to one: another status, a transaction, an end of its time, or a first issue.
OnlyOnward(old, new) == new \in Vouchers /\ Used(new) /\ (old.tx => new.tx)

LEMMA VouchersMove ==
    ASSUME VouchersUsed, NEW next, voucher' = [a \in Accounts |-> next[a]], \A a \in Accounts : OnlyOnward(voucher[a], next[a])
    PROVE  VouchersUsed' /\ \A a \in Accounts : voucher[a].tx => voucher'[a].tx /\ voucher'[a].status # "ISSUED"
  BY DEF VouchersUsed, OnlyOnward, Used

LEMMA VoucherMoves ==
    ASSUME VouchersUsed, NEW a \in Accounts, NEW new, OnlyOnward(voucher[a], new), voucher' = [voucher EXCEPT ![a] = new]
    PROVE  VouchersUsed' /\ \A c \in Accounts : voucher[c].tx => voucher'[c].tx /\ voucher'[c].status # "ISSUED"
  BY DEF VouchersUsed, OnlyOnward, Used

LEMMA VouchersStay ==
    ASSUME VouchersUsed, voucher' = voucher
    PROVE  VouchersUsed' /\ \A c \in Accounts : voucher[c].tx => voucher'[c].tx /\ voucher'[c].status # "ISSUED"
  BY DEF VouchersUsed, Used

\* A status an operation can have.
LEMMA StatusOnward ==
    ASSUME NEW v \in Vouchers, Used(v), NEW status \in VoucherStatus \ {"NONE", "ISSUED"}
    PROVE  OnlyOnward(v, [v EXCEPT !.status = status]) /\ OnlyOnward(v, [v EXCEPT !.status = status, !.tx = TRUE])
<1>1. PICK m : m = [v EXCEPT !.status = status]
  OBVIOUS
<1>2. m \in Vouchers /\ m.tx = v.tx /\ m.status = status
  BY <1>1 DEF Vouchers
<1>3. PICK yes \in BOOLEAN : yes = TRUE
  BY Zenon
<1>4. PICK n : n = [v EXCEPT !.status = status, !.tx = yes]
  OBVIOUS
<1>5. n \in Vouchers /\ n.tx = yes /\ n.status = status
  BY <1>4 DEF Vouchers
<1> QED BY <1>1, <1>2, <1>3, <1>4, <1>5 DEF OnlyOnward, Used

\* updateOperation moves the status of a voucher that has its transaction.
LEMMA UpdatedVoucher ==
    ASSUME VouchersUsed, NEW a \in Accounts, NEW next, next.state \in VoucherStatus \ {"NONE", "ISSUED"}, UpdateOperation(a, next)
    PROVE  VouchersUsed' /\ \A c \in Accounts : voucher[c].tx => voucher'[c].tx /\ voucher'[c].status # "ISSUED"
<1>1. PICK v \in Vouchers : v = voucher[a] /\ Used(v)
  BY DEF VouchersUsed
<1>2. PICK status \in VoucherStatus \ {"NONE", "ISSUED"} : status = next.state
  OBVIOUS
<1>3. PICK new : new = [v EXCEPT !.status = status]
  OBVIOUS
<1>4. OnlyOnward(voucher[a], new)
  BY <1>1, <1>3, StatusOnward
<1>5. voucher' = voucher \/ voucher' = [voucher EXCEPT ![a] = new]
  BY <1>1, <1>2, <1>3 DEF UpdateOperation
<1> QED BY <1>4, <1>5, VouchersStay, VoucherMoves

LEMMA VouchersStart == Init => VouchersUsed
<1> SUFFICES ASSUME Init PROVE VouchersUsed
  OBVIOUS
<1>1. NoVoucher \in Vouchers /\ Used(NoVoucher)
  BY DEF NoVoucher, Vouchers, VoucherStatus, Used
<1> QED BY <1>1 DEF Init, VouchersUsed

LEMMA VouchersKeep ==
    VouchersUsed /\ OperationsTyped /\ [Next]_vars =>
       VouchersUsed' /\ \A a \in Accounts : voucher[a].tx => voucher'[a].tx /\ voucher'[a].status # "ISSUED"
<1> DEFINE Kept == VouchersUsed' /\ \A a \in Accounts : voucher[a].tx => voucher'[a].tx /\ voucher'[a].status # "ISSUED"
<1> SUFFICES ASSUME VouchersUsed, OperationsTyped, [Next]_vars PROVE Kept
  OBVIOUS
<1>1. ASSUME voucher' = voucher PROVE Kept
  BY <1>1, VouchersStay
<1> HIDE DEF Kept
<1>2. CASE UNCHANGED vars
  BY <1>1, <1>2 DEF vars, storeVars
<1>3. CASE TickStep
  <2>1. CASE BeginTick \/ CheckCursor \/ SearchMiss \/ SearchExhausted \/ NothingToScan \/ FetchHeaders \/ FetchLogs
             \/ CommitScan \/ ReadSnapshot \/ ThrowTick
    <3>1. voucher' = voucher
      BY <2>1 DEF BeginTick, CheckCursor, SearchMiss, SearchExhausted, NothingToScan, FetchHeaders, FetchLogs, CommitScan,
                  ReadSnapshot, ThrowTick, storeVars
    <3> QED BY <1>1, <3>1
  <2>2. CASE SearchHit \/ SearchEnd
    <3>1. voucher' = voucher
      BY <2>2 DEF SearchHit, SearchEnd, RewindTo, storeVars
    <3> QED BY <1>1, <3>1
  <2>3. CASE RollbackProjection
    <3>1. PICK n : RollbackFrom(n)
      BY <2>3 DEF RollbackProjection
    <3>2. PICK next : next = [a \in Accounts |->
            IF voucher[a].tx /\ \E c \in RolledBack(n) : c[1] = a THEN [voucher[a] EXCEPT !.status = "REORGED"] ELSE voucher[a]]
      OBVIOUS
    <3>3. ASSUME NEW a \in Accounts PROVE OnlyOnward(voucher[a], next[a])
      <4>1. PICK v \in Vouchers : v = voucher[a] /\ Used(v)
        BY DEF VouchersUsed
      <4>2. next[a] = [v EXCEPT !.status = "REORGED"] \/ next[a] = v
        BY <3>2, <4>1
      <4>3. "REORGED" \in VoucherStatus \ {"NONE", "ISSUED"}
        BY DEF VoucherStatus
      <4>4. OnlyOnward(v, [v EXCEPT !.status = "REORGED"]) /\ OnlyOnward(v, v)
        BY <4>1, <4>3, StatusOnward DEF OnlyOnward
      <4> QED BY <4>1, <4>2, <4>4
    <3>4. voucher' = [a \in Accounts |-> next[a]]
      BY <3>1, <3>2 DEF RollbackFrom
    <3> QED BY <3>3, <3>4, VouchersMove DEF Kept
  <2>4. CASE Publish
    <3>1. ObserveClaims(index.claims, index.cursor)
      BY <2>4 DEF Publish
    <3>2. PICK next : next = voucher'
      OBVIOUS
    <3>3. ASSUME NEW a \in Accounts PROVE OnlyOnward(voucher[a], next[a])
      <4>1. PICK v \in Vouchers : v = voucher[a] /\ Used(v)
        BY DEF VouchersUsed
      <4>2. PICK status \in VoucherStatus \ {"NONE", "ISSUED"} :
              next[a] = [v EXCEPT !.tx = TRUE, !.status = status] \/ next[a] = v
        <5>1. "COMPLETED" \in VoucherStatus \ {"NONE", "ISSUED"} /\ "INCLUDED" \in VoucherStatus \ {"NONE", "ISSUED"}
          BY DEF VoucherStatus
        <5>2. \/ next[a] = [v EXCEPT !.tx = TRUE, !.status = "COMPLETED"]
              \/ next[a] = [v EXCEPT !.tx = TRUE, !.status = "INCLUDED"]
              \/ next[a] = v
          BY <3>1, <3>2, <4>1 DEF ObserveClaims
        <5> QED BY <5>1, <5>2
      <4>3. OnlyOnward(v, [v EXCEPT !.status = status, !.tx = TRUE]) /\ OnlyOnward(v, v)
        BY <4>1, StatusOnward DEF OnlyOnward
      <4>4. [v EXCEPT !.status = status, !.tx = TRUE] = [v EXCEPT !.tx = TRUE, !.status = status]
        BY DEF Vouchers
      <4> QED BY <4>1, <4>2, <4>3, <4>4
    <3>4. voucher' = [a \in Accounts |-> next[a]]
      BY <3>1, <3>2 DEF ObserveClaims
    <3> QED BY <3>3, <3>4, VouchersMove DEF Kept
  <2> QED BY <1>3, <2>1, <2>2, <2>3, <2>4 DEF TickStep
<1>4. ASSUME NEW a \in Accounts, ServiceStep(a) PROVE Kept
  <2>1. PICK v \in Vouchers : v = voucher[a] /\ Used(v)
    BY DEF VouchersUsed
  <2>2. CASE QuoteClaim(a) \/ SimulateClaim(a) \/ EndQuote(a) \/ PollReceipt(a) \/ PollCanonical(a) \/ PollFail(a)
    <3>1. voucher' = voucher
      BY <2>2 DEF QuoteClaim, SimulateClaim, EndQuote, PollReceipt, PollCanonical, PollFail, storeVars
    <3> QED BY <1>1, <3>1
  <2>3. CASE ReserveClaim(a)
    <3>1. PICK new : new = [status |-> "ISSUED", live |-> TRUE, tx |-> FALSE]
      OBVIOUS
    <3>2. (voucher' = [voucher EXCEPT ![a] = new] \/ voucher' = voucher) /\ ~v.tx
      BY <2>1, <2>3, <3>1 DEF ReserveClaim, MayReserve, MayReuse, Used
    <3>3. OnlyOnward(voucher[a], new)
      BY <2>1, <3>1, <3>2 DEF OnlyOnward, Used, Vouchers, VoucherStatus
    <3> QED BY <1>1, <3>2, <3>3, VoucherMoves DEF Kept
  <2>4. CASE Submit(a)
    <3>1. PICK new : new = [v EXCEPT !.status = "SUBMITTED", !.tx = TRUE]
      OBVIOUS
    <3>2. voucher' = voucher \/ voucher' = [voucher EXCEPT ![a] = new]
      BY <2>1, <2>4, <3>1 DEF Submit, VouchersUsed, Vouchers
    <3>3. "SUBMITTED" \in VoucherStatus \ {"NONE", "ISSUED"}
      BY DEF VoucherStatus
    <3>4. OnlyOnward(voucher[a], new)
      BY <2>1, <3>1, <3>3, StatusOnward
    <3> QED BY <1>1, <3>2, <3>4, VoucherMoves DEF Kept
  <2>5. CASE PollRemoved(a)
    <3>1. PICK o \in Operations : o = operation[a]
      BY DEF OperationsTyped
    <3>2. PICK next : next = [o EXCEPT !.state = "REORGED", !.error = "RECEIPT_REMOVED"]
      OBVIOUS
    <3>3. UpdateOperation(a, next)
      BY <2>5, <3>1, <3>2 DEF PollRemoved
    <3>4. next.state \in VoucherStatus \ {"NONE", "ISSUED"}
      BY <3>2, ReorgedTyped DEF VoucherStatus
    <3> QED BY <3>3, <3>4, UpdatedVoucher DEF Kept
  <2>6. CASE PollFinish(a)
    <3>1. PICK next : next = NextOperation(a)
      OBVIOUS
    <3>2. next.state \in VoucherStatus \ {"NONE", "ISSUED"}
      BY <3>1, NextTyped DEF VoucherStatus
    <3>3. UpdateOperation(a, next) \/ voucher' = voucher
      BY <2>6, <3>1 DEF PollFinish
    <3> QED BY <1>1, <3>2, <3>3, UpdatedVoucher DEF Kept
  <2>7. CASE ExpireVoucher(a)
    <3>1. PICK new : new = [v EXCEPT !.live = FALSE]
      OBVIOUS
    <3>2. voucher' = [voucher EXCEPT ![a] = new]
      BY <2>1, <2>7, <3>1 DEF ExpireVoucher, VouchersUsed, Vouchers
    <3>3. OnlyOnward(voucher[a], new)
      BY <2>1, <3>1 DEF OnlyOnward, Used, Vouchers
    <3> QED BY <3>2, <3>3, VoucherMoves DEF Kept
  <2> QED BY <1>4, <2>2, <2>3, <2>4, <2>5, <2>6, <2>7 DEF ServiceStep
<1>5. CASE Crash \/ Settle \/ \E b \in Blocks : MoveTip(b)
  <2>1. voucher' = voucher
    BY <1>5 DEF Crash, Settle, MoveTip, storeVars
  <2> QED BY <1>1, <2>1
<1> QED BY <1>2, <1>3, <1>4, <1>5 DEF Next

\* "no second voucher is silently issued": whatever reorganisations, late polls and crashes do to its
\* status, a voucher whose transaction was submitted or observed keeps it and is not issued again
\* (reserveClaim, rollbackClaims, updateOperation), for any number of accounts and any chain.
THEOREM SpentVouchersStay == Spec => SpentStaysSpent
<1>1. Init => VouchersUsed /\ OperationsTyped
  BY VouchersStart, OperationsStart
<1>2. VouchersUsed /\ OperationsTyped /\ [Next]_vars => VouchersUsed' /\ OperationsTyped'
  BY VouchersKeep, OperationsKeep
<1>3. VouchersUsed /\ OperationsTyped /\ [Next]_vars =>
        [\A a \in Accounts : voucher[a].tx => voucher'[a].tx /\ voucher'[a].status # "ISSUED"]_vars
  BY VouchersKeep
<1> QED BY <1>1, <1>2, <1>3, PTL DEF Spec, SpentStaysSpent

----------------------------------------------------------------------------
(* The market's index and projection *)

MarketIndexes == [blocks : SUBSET Blocks, claims : SUBSET (Accounts \X Blocks), cursor : OrNone(Blocks)]
Ticks == [pc : TickPcs, head : OrNone(Blocks), n : Int, to : OrNone(Blocks), got : SUBSET (Accounts \X Blocks)]

IndexTyped ==
    /\ index \in MarketIndexes /\ index.claims \subseteq Accounts \X index.blocks
    /\ snapshots \subseteq Blocks /\ observed \subseteq Accounts \X Blocks
    /\ tick \in Ticks

\* What a poll t knows between two of its calls: a chain fetched to be stored goes on from the cursor,
\* the search is below it, and nothing is HEALTHY before it is published.
TickSound(t, cursor, h) ==
    /\ t.pc # "idle" => t.head \in Blocks /\ h # "HEALTHY"
    /\ t.pc \in {"check", "search", "snapshot", "publish"} => cursor # NoBlock
    /\ t.pc = "search" => t.n < Number[cursor]
    /\ t.pc \in {"logs", "verify"} => t.to \in Blocks /\ (cursor # NoBlock => cursor \in Ancestry[t.to])
    /\ t.pc = "verify" => t.got \subseteq Accounts \X Ancestry[t.to]

\* Between the two commits of a rewind what it keeps of the projection is already on the index's chain.
ProjectionHeld ==
    /\ ProjectionFollowsIndex
    /\ Held => /\ \A b \in snapshots : Number[b] <= tick.n => b \in index.blocks
               /\ \A c \in observed : Number[c[2]] <= tick.n => c \in index.claims
    /\ HealthyMeansPublished

IndexInv ==
    /\ IndexTyped /\ IndexIsOneChain
    /\ TickSound(tick, index.cursor, health)
    /\ KillInRewind \/ ProjectionHeld

LEMMA ParentIn ==
    ASSUME NEW b \in Blocks, NEW c \in Ancestry[b], Parent[c] # NoBlock
    PROVE  Parent[c] \in Ancestry[b]
<1>1. c \in Blocks /\ Ancestry[c] \subseteq Ancestry[b]
  BY AncestryHolds DEF AncestryFacts
<1>2. Parent[c] \in Blocks /\ Ancestry[c] = {c} \cup Ancestry[Parent[c]]
  BY <1>1, AncestryEquation, ParentBelow
<1> QED BY <1>1, <1>2, AncestryHolds

LEMMA CursorTyped == ASSUME IndexTyped PROVE index.cursor \in OrNone(Blocks) /\ index.blocks \subseteq Blocks
  BY DEF IndexTyped, MarketIndexes

LEMMA TickTyped ==
    ASSUME IndexTyped
    PROVE  tick.pc \in TickPcs /\ tick.head \in OrNone(Blocks) /\ tick.n \in Int /\ tick.to \in OrNone(Blocks)
  BY DEF IndexTyped, Ticks

LEMMA RestingTyped == Resting \in Ticks /\ Resting.pc = "idle"
  BY IndexerAssumption DEF Resting, Ticks, TickPcs, OrNone

LEMMA PcMoves ==
    ASSUME NEW t \in Ticks, NEW pc \in TickPcs
    PROVE  LET u == [t EXCEPT !.pc = pc] IN
           u \in Ticks /\ u.pc = pc /\ u.head = t.head /\ u.n = t.n /\ u.to = t.to /\ u.got = t.got
  BY DEF Ticks

\* The poll goes on, or ends, and the stores stay.
LEMMA TickMoves ==
    ASSUME IndexInv, index' = index, snapshots' = snapshots, observed' = observed,
           KillInRewind \/ tick.pc # "rollback", tick' \in Ticks, tick'.pc # "rollback",
           TickSound(tick', index.cursor, health'), health' # "HEALTHY"
    PROVE  IndexInv'
<1>1. IndexTyped'
  BY DEF IndexInv, IndexTyped
<1>2. IndexIsOneChain'
  BY DEF IndexInv, IndexIsOneChain
<1>3. ASSUME ~KillInRewind PROVE ProjectionHeld'
  <2>1. snapshots \subseteq index.blocks /\ observed \subseteq index.claims
    BY <1>3 DEF IndexInv, ProjectionHeld, ProjectionFollowsIndex, Held
  <2> QED BY <2>1 DEF ProjectionHeld, ProjectionFollowsIndex, HealthyMeansPublished, Held
<1> QED BY <1>1, <1>2, <1>3 DEF IndexInv

LEMMA IndexLeft ==
    ASSUME IndexInv, index' = index, snapshots' = snapshots, observed' = observed, tick' = tick, health' = health
    PROVE  IndexInv'
<1>1. Latest' = Latest
  BY DEF Latest
<1> QED BY <1>1 DEF IndexInv, IndexTyped, IndexIsOneChain, ProjectionHeld, ProjectionFollowsIndex, HealthyMeansPublished, Held

\* The chain below n, of a chain.
LEMMA Below ==
    ASSUME NEW b \in Blocks, NEW n \in Int, n <= Number[b]
    PROVE  /\ n >= DeploymentBlock =>
                /\ BlockAt(Ancestry[b], n) \in Blocks /\ BlockAt(Ancestry[b], n) # NoBlock
                /\ {c \in Ancestry[b] : Number[c] <= n} = Ancestry[BlockAt(Ancestry[b], n)]
           /\ n < DeploymentBlock => BlockAt(Ancestry[b], n) = NoBlock /\ {c \in Ancestry[b] : Number[c] <= n} = {}
<1>1. AncestryFacts(b) /\ DeploymentBlock \in Nat /\ \A c \in Blocks : Number[c] \in Nat /\ c # NoBlock
  BY AncestryHolds, IndexerAssumption
<1>2. ASSUME n >= DeploymentBlock
      PROVE  /\ BlockAt(Ancestry[b], n) \in Blocks /\ BlockAt(Ancestry[b], n) # NoBlock
             /\ {c \in Ancestry[b] : Number[c] <= n} = Ancestry[BlockAt(Ancestry[b], n)]
  <2>1. PICK c \in Ancestry[b] : Number[c] = n
    BY <1>1, <1>2 DEF AncestryFacts
  <2>2. PICK d : d = BlockAt(Ancestry[b], n) /\ d \in Ancestry[b] /\ Number[d] = n
    BY <2>1, FoundAt
  <2>3. Ancestry[d] = {c2 \in Ancestry[b] : Number[c2] <= Number[d]} /\ d \in Blocks
    BY <1>1, <2>2 DEF AncestryFacts
  <2> QED BY <1>1, <2>2, <2>3
<1>3. ASSUME n < DeploymentBlock, NEW c \in Ancestry[b] PROVE ~(Number[c] <= n)
  <2>1. c \in Blocks
    BY <1>1 DEF AncestryFacts
  <2>2. Number[c] >= DeploymentBlock
    BY <2>1, AncestryHolds DEF AncestryFacts
  <2> QED BY <1>1, <1>3, <2>1, <2>2
<1>4. ASSUME n < DeploymentBlock PROVE BlockAt(Ancestry[b], n) = NoBlock
  <2>1. \A c \in Ancestry[b] : Number[c] # n
    BY <1>1, <1>3, <1>4 DEF AncestryFacts
  <2> QED BY <2>1 DEF BlockAt
<1> QED BY <1>2, <1>3, <1>4

LEMMA RewindKeeps ==
    ASSUME IndexInv, NEW n \in Int, tick.pc = "search", n <= Number[index.cursor], RewindTo(n)
    PROVE  IndexInv'
<1>1. PICK b \in Blocks : b = index.cursor /\ index.blocks = Ancestry[b]
  BY CursorTyped DEF IndexInv, TickSound, IndexIsOneChain, OrNone
<1>2. PICK blocks : blocks = {x \in Ancestry[b] : Number[x] <= n}
  OBVIOUS
<1>3. PICK claims : claims = {c \in index.claims : Number[c[2]] <= n}
  OBVIOUS
<1>4. PICK cursor : cursor = BlockAt(Ancestry[b], n)
  OBVIOUS
<1>5. cursor \in OrNone(Blocks) /\ blocks = IF cursor = NoBlock THEN {} ELSE Ancestry[cursor]
  <2>1. DeploymentBlock \in Int
    BY IndexerAssumption
  <2> QED BY <1>1, <1>2, <1>4, <2>1, Below DEF OrNone
<1>6. index' = [blocks |-> blocks, claims |-> claims, cursor |-> cursor]
  BY <1>1, <1>2, <1>3, <1>4 DEF RewindTo, LocalAt
<1>7. PICK t \in Ticks : t = tick
  BY DEF IndexInv, IndexTyped
<1>8. PICK u : u = [t EXCEPT !.pc = "rollback", !.n = n]
  OBVIOUS
<1>9. u \in Ticks /\ u.pc = "rollback" /\ u.n = n /\ u.head = t.head
  BY <1>8 DEF Ticks, TickPcs
<1>10. tick' = u /\ snapshots' = snapshots /\ observed' = observed /\ health' = health
  BY <1>7, <1>8 DEF RewindTo, storeVars
<1>11. blocks \subseteq Blocks /\ claims \subseteq Accounts \X blocks /\ claims \in SUBSET (Accounts \X Blocks)
  <2>1. index.claims \subseteq Accounts \X Ancestry[b] /\ Ancestry[b] \subseteq Blocks
    BY <1>1, AncestryHolds DEF IndexInv, IndexTyped, AncestryFacts
  <2> QED BY <1>2, <1>3, <2>1
<1>12. IndexTyped'
  <2>1. index' \in MarketIndexes /\ index'.claims \subseteq Accounts \X index'.blocks
    BY <1>5, <1>6, <1>11 DEF MarketIndexes
  <2>2. snapshots' \subseteq Blocks /\ observed' \subseteq Accounts \X Blocks
    BY <1>10 DEF IndexInv, IndexTyped
  <2> QED BY <1>9, <1>10, <2>1, <2>2 DEF IndexTyped
<1>13. IndexIsOneChain'
  BY <1>5, <1>6 DEF IndexIsOneChain
<1>14. TickSound(tick', index'.cursor, health')
  BY <1>7, <1>9, <1>10 DEF TickSound, IndexInv
<1>15. ASSUME ~KillInRewind PROVE ProjectionHeld'
  <2>1. snapshots \subseteq index.blocks /\ observed \subseteq index.claims
    BY <1>15 DEF IndexInv, ProjectionHeld, ProjectionFollowsIndex, Held
  <2>2. \A x \in snapshots : Number[x] <= n => x \in blocks
    BY <1>1, <1>2, <2>1
  <2>3. \A c \in observed : Number[c[2]] <= n => c \in claims
    BY <1>3, <2>1
  <2>4. health # "HEALTHY"
    BY DEF IndexInv, TickSound
  <2> QED BY <1>6, <1>9, <1>10, <2>2, <2>3, <2>4 DEF ProjectionHeld, ProjectionFollowsIndex, HealthyMeansPublished, Held
<1> QED BY <1>12, <1>13, <1>14, <1>15 DEF IndexInv

LEMMA RollbackKeeps == ASSUME IndexInv, RollbackProjection PROVE IndexInv'
<1>1. PICK n \in Int : n = tick.n
  BY TickTyped DEF IndexInv
<1>2. snapshots' = {b \in snapshots : Number[b] <= n} /\ observed' = {c \in observed : ~(Number[c[2]] > n)}
  BY <1>1 DEF RollbackProjection, RollbackFrom, RolledBack
<1>3. PICK t \in Ticks : t = tick
  BY DEF IndexInv, IndexTyped
<1>4. PICK u : u = [t EXCEPT !.pc = "scan"]
  OBVIOUS
<1>5. u \in Ticks /\ u.pc = "scan" /\ u.head = t.head
  BY <1>4 DEF Ticks, TickPcs
<1>6. tick' = u /\ index' = index /\ health' = health /\ tick.pc = "rollback"
  BY <1>3, <1>4 DEF RollbackProjection, Goto
<1>7. IndexTyped'
  BY <1>2, <1>5, <1>6 DEF IndexInv, IndexTyped
<1>8. IndexIsOneChain'
  BY <1>6 DEF IndexInv, IndexIsOneChain
<1>9. TickSound(tick', index'.cursor, health')
  BY <1>3, <1>5, <1>6 DEF IndexInv, TickSound
<1>10. ASSUME ~KillInRewind PROVE ProjectionHeld'
  <2>1. \A b \in snapshots : Number[b] <= n => b \in index.blocks
    BY <1>1, <1>6, <1>10 DEF IndexInv, ProjectionHeld, Held
  <2>2. \A c \in observed : Number[c[2]] <= n => c \in index.claims
    BY <1>1, <1>6, <1>10 DEF IndexInv, ProjectionHeld, Held
  <2>3. \A c \in observed : Number[c[2]] \in Int
    BY IndexerAssumption DEF IndexInv, IndexTyped
  <2>4. health # "HEALTHY"
    BY <1>6 DEF IndexInv, TickSound
  <2> QED BY <1>2, <1>5, <1>6, <2>1, <2>2, <2>3, <2>4 DEF ProjectionHeld, ProjectionFollowsIndex, HealthyMeansPublished, Held
<1> QED BY <1>7, <1>8, <1>9, <1>10 DEF IndexInv

\* Storing a fetched chain.
LEMMA CommitKeeps == ASSUME IndexInv, CommitScan PROVE IndexInv'
<1>1. PICK to \in Blocks : to = tick.to
  BY DEF IndexInv, TickSound, CommitScan
<1>2. PICK segment : segment = Segment(to)
  OBVIOUS
<1>3. PICK got : got = tick.got /\ got \subseteq Accounts \X Ancestry[to]
  BY <1>1 DEF IndexInv, TickSound, CommitScan
<1>4. \A b \in Blocks : Number[b] \in Nat
  BY IndexerAssumption
<1>5. index.blocks \cup segment = Ancestry[to]
  <2>1. Ancestry[to] \subseteq Blocks
    BY AncestryHolds DEF AncestryFacts
  <2>2. CASE index.cursor = NoBlock
    <3>1. index.blocks = {} /\ segment = {b \in Ancestry[to] : Number[b] >= DeploymentBlock}
      BY <1>2, <2>2 DEF IndexInv, IndexIsOneChain, Segment, ScanFrom
    <3>2. \A b \in Ancestry[to] : Number[b] >= DeploymentBlock
      BY <2>1, AncestryHolds DEF AncestryFacts
    <3> QED BY <3>1, <3>2
  <2>3. CASE index.cursor # NoBlock
    <3>1. PICK c \in Ancestry[to] : c = index.cursor
      BY <1>1, <2>3 DEF IndexInv, TickSound, CommitScan
    <3>2. index.blocks = Ancestry[c] /\ segment = {b \in Ancestry[to] : Number[b] >= Number[c] + 1}
      BY <1>2, <2>3, <3>1 DEF IndexInv, IndexIsOneChain, Segment, ScanFrom
    <3>3. Ancestry[c] = {b \in Ancestry[to] : Number[b] <= Number[c]} /\ Number[c] \in Nat
      BY <1>4, <2>1, AncestryHolds DEF AncestryFacts
    <3>4. \A b \in Ancestry[to] : Number[b] <= Number[c] \/ Number[b] >= Number[c] + 1
      BY <1>4, <2>1, <3>3
    <3> QED BY <3>2, <3>3, <3>4
  <2> QED BY <2>2, <2>3
<1>6. PICK claims : claims = index.claims \cup got
  OBVIOUS
<1>7. PICK blocks : blocks = Ancestry[to] /\ blocks \in SUBSET Blocks
  BY AncestryHolds DEF AncestryFacts
<1>8. claims \subseteq Accounts \X blocks /\ claims \in SUBSET (Accounts \X Blocks)
  <2>1. index.claims \subseteq Accounts \X index.blocks
    BY DEF IndexInv, IndexTyped
  <2> QED BY <1>3, <1>5, <1>6, <1>7, <2>1
<1>9. index' = [blocks |-> blocks, claims |-> claims, cursor |-> to]
  BY <1>1, <1>2, <1>3, <1>5, <1>6, <1>7 DEF CommitScan
<1>10. PICK t \in Ticks : t = tick
  BY DEF IndexInv, IndexTyped
<1>11. PICK u : u = [t EXCEPT !.pc = "snapshot"]
  OBVIOUS
<1>12. u \in Ticks /\ u.pc = "snapshot" /\ u.head = t.head
  BY <1>11 DEF Ticks, TickPcs
<1>13. (tick' = u \/ tick' = Resting) /\ snapshots' = snapshots /\ observed' = observed /\ health' = health /\ t.pc = "verify"
  BY <1>10, <1>11 DEF CommitScan, storeVars
<1>14. to # NoBlock
  BY IndexerAssumption
<1>15. IndexTyped'
  <2>1. index' \in MarketIndexes /\ index'.claims \subseteq Accounts \X index'.blocks
    BY <1>7, <1>8, <1>9 DEF MarketIndexes, OrNone
  <2>2. snapshots' \subseteq Blocks /\ observed' \subseteq Accounts \X Blocks
    BY <1>13 DEF IndexInv, IndexTyped
  <2>3. tick' \in Ticks
    BY <1>12, <1>13, RestingTyped
  <2> QED BY <2>1, <2>2, <2>3 DEF IndexTyped
<1>16. IndexIsOneChain'
  BY <1>7, <1>9, <1>14 DEF IndexIsOneChain
<1>17. t.head \in Blocks /\ health # "HEALTHY"
  BY <1>10, <1>13 DEF IndexInv, TickSound
<1>18. TickSound(tick', index'.cursor, health')
  BY <1>9, <1>12, <1>13, <1>14, <1>17, RestingTyped DEF TickSound
<1>19. ASSUME ~KillInRewind PROVE ProjectionHeld'
  <2>1. snapshots \subseteq index.blocks /\ observed \subseteq index.claims
    BY <1>10, <1>13, <1>19 DEF IndexInv, ProjectionHeld, ProjectionFollowsIndex, Held
  <2>2. snapshots \subseteq blocks /\ observed \subseteq claims
    BY <1>5, <1>6, <1>7, <2>1
  <2>3. tick'.pc # "rollback"
    BY <1>12, <1>13, RestingTyped
  <2> QED BY <1>9, <1>13, <1>17, <2>2, <2>3 DEF ProjectionHeld, ProjectionFollowsIndex, HealthyMeansPublished, Held
<1> QED BY <1>15, <1>16, <1>18, <1>19 DEF IndexInv

\* The highest block of a set on one chain that has the chain's end.
LEMMA HighestIs ==
    ASSUME NEW b \in Blocks, NEW S, b \in S, S \subseteq Ancestry[b]
    PROVE  (CHOOSE c \in S : \A d \in S : Number[d] <= Number[c]) = b
<1>1. \A d \in S : d \in Blocks /\ Number[d] \in Nat /\ (d = b \/ Number[d] < Number[b])
  BY AncestryHolds, IndexerAssumption DEF AncestryFacts
<1>2. \A d \in S : Number[d] <= Number[b]
  BY <1>1
<1>3. ASSUME NEW c \in S, \A d \in S : Number[d] <= Number[c] PROVE c = b
  BY <1>1, <1>3
<1> QED BY <1>2, <1>3

LEMMA PublishKeeps == ASSUME IndexInv, Publish PROVE IndexInv'
<1>1. PICK b \in Blocks : b = index.cursor /\ b # NoBlock
  BY CursorTyped DEF IndexInv, TickSound, Publish, OrNone
<1>2. tick' = Resting /\ index' = index /\ snapshots' = snapshots \cup {b} /\ observed' = observed \cup index.claims
  BY <1>1 DEF Publish, ObserveClaims
<1>3. IndexTyped'
  <2>1. index.claims \subseteq Accounts \X Blocks
    BY CursorTyped DEF IndexInv, IndexTyped
  <2> QED BY <1>1, <1>2, <2>1, RestingTyped DEF IndexInv, IndexTyped
<1>4. IndexIsOneChain'
  BY <1>2 DEF IndexInv, IndexIsOneChain
<1>5. TickSound(tick', index'.cursor, health')
  BY <1>2, RestingTyped DEF TickSound
<1>6. ASSUME ~KillInRewind PROVE ProjectionHeld'
  <2>1. snapshots \subseteq index.blocks /\ observed \subseteq index.claims
    BY <1>6 DEF IndexInv, ProjectionHeld, ProjectionFollowsIndex, Held, Publish
  <2>2. index.blocks = Ancestry[b] /\ b \in Ancestry[b]
    BY <1>1, AncestryHolds DEF IndexInv, IndexIsOneChain
  <2>3. PICK S : S = snapshots'
    OBVIOUS
  <2>4. b \in S /\ S \subseteq Ancestry[b]
    BY <1>2, <2>1, <2>2, <2>3
  <2>5. Latest' = b
    <3>1. Latest' = CHOOSE c \in S : \A d \in S : Number[d] <= Number[c]
      BY <2>3, <2>4 DEF Latest
    <3> QED BY <2>4, <3>1, HighestIs
  <2>6. observed' = index.claims
    BY <1>2, <2>1
  <2> QED BY <1>1, <1>2, <2>2, <2>3, <2>4, <2>5, <2>6, RestingTyped
        DEF ProjectionHeld, ProjectionFollowsIndex, HealthyMeansPublished, Held
<1> QED BY <1>3, <1>4, <1>5, <1>6 DEF IndexInv

\* The fetched headers go on from the cursor.
LEMMA FetchedFollows ==
    ASSUME IndexInv, OperationsTyped, FetchHeaders
    PROVE  LET to == RemoteAt(ScanTo) IN to \in Blocks /\ (index.cursor # NoBlock => index.cursor \in Ancestry[to])
<1>1. PICK to : to = RemoteAt(ScanTo) /\ to # NoBlock
  BY DEF FetchHeaders, Linked
<1>2. to \in Ancestry[tip] /\ Number[to] = ScanTo
  BY <1>1, FoundAt DEF RemoteAt
<1>3. to \in Blocks
  BY <1>2, AncestryHolds DEF OperationsTyped, AncestryFacts
<1>4. ASSUME index.cursor # NoBlock PROVE index.cursor \in Ancestry[to]
  <2>1. PICK c \in Blocks : c = index.cursor
    BY <1>4, CursorTyped DEF IndexInv, OrNone
  <2>2. PICK from \in Nat : from = ScanFrom /\ from = Number[c] + 1 /\ DeploymentBlock <= from /\ from <= Number[to]
    <3>1. ScanFrom = Number[c] + 1 /\ ScanFrom <= ScanTo
      BY <1>4, <2>1 DEF ScanFrom, FetchHeaders
    <3>2. Number[c] \in Nat /\ DeploymentBlock \in Nat /\ Number[c] >= DeploymentBlock
      BY IndexerAssumption, AncestryHolds DEF AncestryFacts
    <3> QED BY <1>2, <3>1, <3>2
  <2>3. PICK segment : segment = Segment(to) /\ segment = {b \in Ancestry[to] : Number[b] >= from}
    BY <2>2 DEF Segment
  <2>4. PICK b \in Ancestry[to] : Number[b] = from
    BY <1>3, <2>2, AncestryHolds DEF AncestryFacts
  <2>5. PICK first : first = BlockAt(segment, from) /\ first \in segment
    BY <2>2, <2>3, <2>4, FoundAt
  <2>6. Parent[first] = c /\ c # NoBlock /\ first \in Ancestry[to]
    BY <1>1, <1>4, <2>1, <2>2, <2>3, <2>5 DEF FetchHeaders, Linked
  <2> QED BY <1>3, <2>1, <2>6, ParentIn
<1> QED BY <1>1, <1>3, <1>4

LEMMA IndexStarts == Init => IndexInv
<1> SUFFICES ASSUME Init PROVE IndexInv
  OBVIOUS
<1>1. PICK none : none = [blocks |-> {}, claims |-> {}, cursor |-> NoBlock]
  OBVIOUS
<1>2. none \in MarketIndexes /\ none.blocks = {} /\ none.claims = {} /\ none.cursor = NoBlock
  BY <1>1 DEF MarketIndexes, OrNone
<1>3. index = none /\ snapshots = {} /\ observed = {} /\ tick = Resting /\ health = "SYNCING"
  BY <1>1 DEF Init
<1>4. IndexTyped /\ IndexIsOneChain /\ TickSound(tick, index.cursor, health)
  BY <1>2, <1>3, RestingTyped DEF IndexTyped, IndexIsOneChain, TickSound
<1>5. ProjectionHeld
  BY <1>2, <1>3, RestingTyped DEF ProjectionHeld, ProjectionFollowsIndex, HealthyMeansPublished, Held
<1> QED BY <1>4, <1>5 DEF IndexInv

\* The head a poll reads.
LEMMA BeginTickKeeps == ASSUME IndexInv, OperationsTyped, BeginTick PROVE IndexInv'
<1>1. PICK pc \in {"scan", "check", "search"} :
        /\ pc = IF index.cursor = NoBlock THEN "scan" ELSE IF Number[index.cursor] <= Number[tip] THEN "check" ELSE "search"
        /\ pc # "scan" => index.cursor # NoBlock
        /\ pc = "search" => ~(Number[index.cursor] <= Number[tip])
  OBVIOUS
<1>2. PICK head \in Blocks : head = tip /\ Number[head] \in Nat
  BY IndexerAssumption DEF OperationsTyped
<1>3. PICK none \in Ticks : none = Resting
  BY RestingTyped
<1>4. PICK m \in Nat : m = Number[head]
  BY <1>2
<1>5. PICK u : u = [none EXCEPT !.head = head, !.n = m, !.pc = pc]
  OBVIOUS
<1>6. u \in Ticks /\ u.pc = pc /\ u.head = head /\ u.n = m
  <2>1. pc \in TickPcs /\ head \in OrNone(Blocks) /\ m \in Int
    BY <1>1 DEF TickPcs, OrNone
  <2> QED BY <1>5, <2>1 DEF Ticks
<1>7. tick' = u /\ health' = "SYNCING" /\ tick.pc = "idle" /\ index' = index /\ snapshots' = snapshots /\ observed' = observed
  BY <1>1, <1>2, <1>3, <1>4, <1>5 DEF BeginTick, storeVars
<1>8. pc = "search" => m < Number[index.cursor]
  <2>1. pc # "scan" => Number[index.cursor] \in Nat
    BY <1>1, CursorTyped, IndexerAssumption DEF IndexInv, OrNone
  <2> QED BY <1>1, <1>2, <1>4, <2>1
<1>9. TickSound(u, index.cursor, health')
  BY <1>1, <1>6, <1>7, <1>8 DEF TickSound
<1> QED BY <1>1, <1>6, <1>7, <1>9, TickMoves

LEMMA CheckCursorKeeps == ASSUME IndexInv, CheckCursor PROVE IndexInv'
<1>1. PICK t \in Ticks : t = tick
  BY DEF IndexInv, IndexTyped
<1>2. PICK c \in Blocks : c = index.cursor /\ Number[c] \in Nat /\ c # NoBlock
  BY CursorTyped, IndexerAssumption DEF IndexInv, CheckCursor, TickSound, OrNone
<1>3. PICK m \in Int : m = Number[c] - 1
  BY <1>2
<1>4. PICK u, v : u = [t EXCEPT !.pc = "scan"] /\ v = [t EXCEPT !.pc = "search", !.n = m]
  OBVIOUS
<1>5. u \in Ticks /\ u.pc = "scan" /\ u.head = t.head /\ v \in Ticks /\ v.pc = "search" /\ v.n = m /\ v.head = t.head
  BY <1>4 DEF Ticks, TickPcs
<1>6. (tick' = u \/ tick' = v) /\ t.pc = "check" /\ index' = index /\ snapshots' = snapshots /\ observed' = observed /\ health' = health
  BY <1>1, <1>2, <1>3, <1>4 DEF CheckCursor, storeVars
<1>7. t.head \in Blocks /\ health # "HEALTHY"
  BY <1>1, <1>6 DEF IndexInv, TickSound
<1>8. m < Number[c]
  BY <1>2, <1>3
<1>9. TickSound(u, index.cursor, health) /\ TickSound(v, index.cursor, health)
  BY <1>2, <1>5, <1>7, <1>8 DEF TickSound
<1>10. tick' \in Ticks /\ tick'.pc # "rollback" /\ TickSound(tick', index.cursor, health') /\ tick.pc # "rollback"
  BY <1>1, <1>5, <1>6, <1>9
<1> QED BY <1>6, <1>7, <1>10, TickMoves

LEMMA SearchKeeps == ASSUME IndexInv, SearchHit \/ SearchEnd \/ SearchMiss PROVE IndexInv'
<1>1. PICK t \in Ticks : t = tick
  BY DEF IndexInv, IndexTyped
<1>2. PICK n \in Int : n = t.n
  BY DEF Ticks
<1>3. tick.pc = "search" /\ index.cursor # NoBlock /\ n < Number[index.cursor] /\ t.head \in Blocks /\ health # "HEALTHY"
  BY <1>1, <1>2 DEF IndexInv, TickSound, SearchHit, SearchEnd, SearchMiss
<1>4. PICK c \in Blocks : c = index.cursor /\ Number[c] \in Nat
  BY <1>3, CursorTyped, IndexerAssumption DEF IndexInv, OrNone
<1>5. CASE SearchHit
  <2>1. RewindTo(n) /\ n <= Number[index.cursor]
    BY <1>1, <1>2, <1>3, <1>4, <1>5 DEF SearchHit
  <2> QED BY <1>3, <2>1, RewindKeeps
<1>6. CASE SearchEnd
  <2>1. PICK m \in Int : m = DeploymentBlock - 1
    BY IndexerAssumption
  <2>2. m <= Number[index.cursor]
    BY <1>4, <2>1, AncestryHolds, IndexerAssumption DEF AncestryFacts
  <2>3. RewindTo(m)
    BY <1>6, <2>1 DEF SearchEnd
  <2> QED BY <1>3, <2>2, <2>3, RewindKeeps
<1>7. CASE SearchMiss
  <2>1. PICK m \in Int : m = n - 1
    OBVIOUS
  <2>2. PICK u : u = [t EXCEPT !.n = m]
    OBVIOUS
  <2>3. u \in Ticks /\ u.pc = t.pc /\ u.head = t.head /\ u.n = m
    BY <2>2 DEF Ticks
  <2>4. tick' = u /\ index' = index /\ snapshots' = snapshots /\ observed' = observed /\ health' = health
    BY <1>1, <1>2, <1>7, <2>1, <2>2 DEF SearchMiss, storeVars
  <2>5. m < Number[index.cursor]
    BY <1>3, <1>4, <2>1
  <2>6. TickSound(u, index.cursor, health)
    BY <1>1, <1>3, <2>3, <2>5 DEF TickSound
  <2> QED BY <1>1, <1>3, <2>3, <2>4, <2>6, TickMoves
<1> QED BY <1>5, <1>6, <1>7

\* Without a cursor there is something to scan.
LEMMA NothingScanned == ASSUME IndexInv, NothingToScan PROVE index.cursor # NoBlock
<1> SUFFICES ASSUME index.cursor = NoBlock PROVE FALSE
  OBVIOUS
<1>1. PICK head \in Blocks : head = tick.head
  BY DEF IndexInv, TickSound, NothingToScan
<1>2. PICK h \in Nat : h = Number[head] /\ h >= DeploymentBlock
  BY IndexerAssumption, AncestryHolds DEF AncestryFacts
<1>3. PICK d \in Nat, m \in Nat \ {0} : d = DeploymentBlock /\ m = MaxBlocks
  BY IndexerAssumption
<1>4. d > (IF d + m - 1 < h THEN d + m - 1 ELSE h)
  BY <1>1, <1>2, <1>3 DEF NothingToScan, ScanFrom, ScanTo
<1> QED BY <1>2, <1>3, <1>4

LEMMA ScanKeeps ==
    ASSUME IndexInv, OperationsTyped, NothingToScan \/ FetchHeaders \/ FetchLogs \/ ReadSnapshot
    PROVE  IndexInv'
<1>1. PICK t \in Ticks : t = tick
  BY DEF IndexInv, IndexTyped
<1>2. t.pc \in {"scan", "logs", "snapshot"} /\ t.head \in Blocks /\ health # "HEALTHY"
  BY <1>1 DEF IndexInv, TickSound, NothingToScan, FetchHeaders, FetchLogs, ReadSnapshot
<1>3. index' = index /\ snapshots' = snapshots /\ observed' = observed /\ health' = health
  BY DEF NothingToScan, FetchHeaders, FetchLogs, ReadSnapshot, storeVars
<1>4. ASSUME NEW u \in Ticks, tick' = u, u.pc # "rollback", TickSound(u, index.cursor, health) PROVE IndexInv'
  BY <1>1, <1>2, <1>3, <1>4, TickMoves
<1>5. CASE NothingToScan
  <2>1. PICK u : u = [t EXCEPT !.pc = "snapshot"]
    OBVIOUS
  <2>2. u \in Ticks /\ u.pc = "snapshot" /\ u.head = t.head
    BY <2>1 DEF Ticks, TickPcs
  <2>3. tick' = u
    BY <1>1, <1>5, <2>1 DEF NothingToScan, Goto
  <2>4. TickSound(u, index.cursor, health)
    BY <1>2, <1>5, <2>2, NothingScanned DEF TickSound
  <2> QED BY <1>4, <2>2, <2>3, <2>4
<1>6. CASE FetchHeaders
  <2>1. PICK to : to = RemoteAt(ScanTo) /\ to \in Blocks /\ (index.cursor # NoBlock => index.cursor \in Ancestry[to])
    BY <1>6, FetchedFollows
  <2>2. PICK u : u = [t EXCEPT !.pc = "logs", !.to = to]
    OBVIOUS
  <2>3. u \in Ticks /\ u.pc = "logs" /\ u.head = t.head /\ u.to = to
    BY <2>1, <2>2 DEF Ticks, TickPcs, OrNone
  <2>4. tick' = u
    BY <1>1, <1>6, <2>1, <2>2 DEF FetchHeaders
  <2>5. TickSound(u, index.cursor, health)
    BY <1>2, <2>1, <2>3 DEF TickSound
  <2> QED BY <1>4, <2>3, <2>4, <2>5
<1>7. CASE FetchLogs
  <2>1. PICK to \in Blocks : to = t.to /\ (index.cursor # NoBlock => index.cursor \in Ancestry[to])
    BY <1>1, <1>7 DEF IndexInv, TickSound, FetchLogs
  <2>2. PICK got : got = ClaimsIn(Segment(to) \cap Ancestry[tip])
    OBVIOUS
  <2>3. got \subseteq Accounts \X Ancestry[to] /\ got \in SUBSET (Accounts \X Blocks)
    <3>1. Segment(to) \subseteq Ancestry[to] /\ Ancestry[to] \subseteq Blocks
      BY AncestryHolds DEF Segment, AncestryFacts
    <3> QED BY <2>2, <3>1 DEF ClaimsIn
  <2>4. PICK u : u = [t EXCEPT !.pc = "verify", !.got = got]
    OBVIOUS
  <2>5. u \in Ticks /\ u.pc = "verify" /\ u.head = t.head /\ u.to = to /\ u.got = got
    BY <2>1, <2>3, <2>4 DEF Ticks, TickPcs
  <2>6. tick' = u
    BY <1>1, <1>7, <2>1, <2>2, <2>4 DEF FetchLogs
  <2>7. TickSound(u, index.cursor, health)
    BY <1>2, <2>1, <2>3, <2>5 DEF TickSound
  <2> QED BY <1>4, <2>5, <2>6, <2>7
<1>8. CASE ReadSnapshot
  <2>1. PICK u : u = [t EXCEPT !.pc = "publish"]
    OBVIOUS
  <2>2. u \in Ticks /\ u.pc = "publish" /\ u.head = t.head
    BY <2>1 DEF Ticks, TickPcs
  <2>3. tick' = u /\ index.cursor # NoBlock
    BY <1>1, <1>8, <2>1 DEF ReadSnapshot, Goto, IndexInv, TickSound
  <2>4. TickSound(u, index.cursor, health)
    BY <1>2, <2>2, <2>3 DEF TickSound
  <2> QED BY <1>4, <2>2, <2>3, <2>4
<1> QED BY <1>5, <1>6, <1>7, <1>8

LEMMA TickEnds == ASSUME IndexInv, SearchExhausted \/ ThrowTick \/ Crash PROVE IndexInv'
<1>1. /\ index' = index /\ snapshots' = snapshots /\ observed' = observed /\ tick' = Resting /\ health' # "HEALTHY"
      /\ KillInRewind \/ tick.pc # "rollback"
  BY DEF SearchExhausted, ThrowTick, Crash, storeVars
<1>2. TickSound(tick', index.cursor, health')
  BY <1>1, RestingTyped DEF TickSound
<1>3. tick' \in Ticks /\ tick'.pc # "rollback"
  BY <1>1, RestingTyped
<1> QED BY <1>1, <1>2, <1>3, TickMoves

LEMMA IndexKeeps == IndexInv /\ OperationsTyped /\ [Next]_vars => IndexInv'
<1> SUFFICES ASSUME IndexInv, OperationsTyped, [Next]_vars PROVE IndexInv'
  OBVIOUS
<1>1. CASE UNCHANGED vars
  BY <1>1, IndexLeft DEF vars, storeVars
<1>2. CASE TickStep
  BY <1>2, BeginTickKeeps, CheckCursorKeeps, SearchKeeps, TickEnds, RollbackKeeps, ScanKeeps, CommitKeeps, PublishKeeps DEF TickStep
<1>3. CASE Crash
  BY <1>3, TickEnds
<1>4. ASSUME NEW a \in Accounts, ServiceStep(a) PROVE IndexInv'
  <2>1. index' = index /\ snapshots' = snapshots /\ observed' = observed /\ tick' = tick /\ health' = health
    BY <1>4 DEF ServiceStep, QuoteClaim, ReserveClaim, SimulateClaim, EndQuote, Submit, PollRemoved, PollReceipt, PollCanonical, PollFinish,
         PollFail, ExpireVoucher, storeVars
  <2> QED BY <2>1, IndexLeft
<1>5. CASE Settle \/ \E b \in Blocks : MoveTip(b)
  <2>1. index' = index /\ snapshots' = snapshots /\ observed' = observed /\ tick' = tick /\ health' = health
    BY <1>5 DEF Settle, MoveTip, storeVars
  <2> QED BY <2>1, IndexLeft
<1> QED BY <1>1, <1>2, <1>3, <1>4, <1>5 DEF Next

----------------------------------------------------------------------------
(* The market's types *)

LEMMA AncestryFinite == \A b \in Blocks : IsFiniteSet(Ancestry[b])
<1> DEFINE Fine == {b \in Blocks : IsFiniteSet(Ancestry[b])}
<1>1. ASSUME NEW b \in Blocks, Parent[b] # NoBlock => Parent[b] \in Fine PROVE b \in Fine
  <2>1. IsFiniteSet({b})
    BY FS_Singleton
  <2>2. CASE Parent[b] = NoBlock
    BY <2>1, <2>2, AncestryEquation
  <2>3. CASE Parent[b] # NoBlock
    <3>1. Ancestry[b] = {b} \cup Ancestry[Parent[b]] /\ IsFiniteSet(Ancestry[Parent[b]])
      BY <1>1, <2>3, AncestryEquation
    <3> QED BY <2>1, <3>1, FS_Union
  <2> QED BY <2>2, <2>3
<1>2. Fine \in SUBSET Blocks
  OBVIOUS
<1>3. Fine = Blocks
  <2> HIDE DEF Fine
  <2> QED BY <1>1, <1>2, FromTheFirst
<1> QED BY <1>3

LEMMA ClaimsCounted == ASSUME NEW b \in Blocks PROVE Cardinality(ClaimsIn(Ancestry[b])) \in Nat
<1>1. IsFiniteSet(Accounts) /\ IsFiniteSet(Ancestry[b])
  BY AncestryFinite, IndexerAssumption
<1>2. IsFiniteSet(Accounts \X Ancestry[b])
  BY <1>1, FS_Product
<1>3. ClaimsIn(Ancestry[b]) \in SUBSET (Accounts \X Ancestry[b])
  BY DEF ClaimsIn
<1>4. IsFiniteSet(ClaimsIn(Ancestry[b]))
  BY <1>2, <1>3, FS_Subset
<1> QED BY <1>4, FS_CardinalityType

\* A set of blocks that is not too high has a highest one.
LEMMA HighestBlock ==
    ASSUME NEW S \in SUBSET Blocks, S # {}, NEW m \in Nat, \A b \in S : Number[b] <= m
    PROVE  \E b \in S : \A c \in S : Number[c] <= Number[b]
<1>1. \A b \in S : Number[b] \in Nat
  BY IndexerAssumption
<1> DEFINE Gaps == {m - Number[b] : b \in S}
<1>2. Gaps \in SUBSET Nat /\ Gaps # {}
  BY <1>1
<1>3. PICK g \in Gaps : \A h \in Gaps : g <= h
  <2> HIDE DEF Gaps
  <2> QED BY <1>2, LeastNumber
<1>4. PICK b \in S : g = m - Number[b]
  BY <1>3
<1>5. ASSUME NEW c \in S PROVE Number[c] <= Number[b]
  <2>1. g <= m - Number[c]
    BY <1>3
  <2> QED BY <1>1, <1>4, <2>1
<1> QED BY <1>5

SideTyped ==
    /\ tip \in mined /\ mined \subseteq Blocks /\ settled \in BOOLEAN
    /\ health \in {"SYNCING", "HEALTHY", "DEGRADED", "TOO_DEEP"}
    /\ quote \in [Accounts -> Nat \cup {Null, Signed}]
    /\ saved \subseteq Accounts
    /\ snapshots \subseteq Blocks /\ \E m \in Nat : \A b \in snapshots : Number[b] <= m

LEMMA SnapshotTyped == ASSUME SideTyped PROVE SnapshotBlock \in Blocks
<1>1. CASE snapshots = {}
  BY <1>1 DEF SideTyped, SnapshotBlock
<1>2. CASE snapshots # {}
  <2>1. \E b \in snapshots : \A c \in snapshots : Number[c] <= Number[b]
    BY <1>2, HighestBlock DEF SideTyped
  <2>2. Latest \in snapshots
    BY <1>2, <2>1 DEF Latest
  <2> QED BY <1>2, <2>2 DEF SideTyped, SnapshotBlock
<1> QED BY <1>1, <1>2

LEMMA SideMoves ==
    ASSUME SideTyped, tip' = tip, mined' = mined, settled' \in BOOLEAN,
           health' = health \/ health' \in {"SYNCING", "HEALTHY", "DEGRADED", "TOO_DEEP"},
           quote' = quote \/ quote' \in [Accounts -> Nat \cup {Null, Signed}],
           saved' \subseteq Accounts,
           \/ snapshots' \subseteq snapshots
           \/ \E b \in Blocks : snapshots' = snapshots \cup {b}
    PROVE  SideTyped'
<1>1. snapshots' \subseteq Blocks /\ \E m \in Nat : \A b \in snapshots' : Number[b] <= m
  <2>1. PICK m \in Nat : \A b \in snapshots : Number[b] <= m
    BY DEF SideTyped
  <2>2. CASE snapshots' \subseteq snapshots
    BY <2>1, <2>2 DEF SideTyped
  <2>3. CASE \E b \in Blocks : snapshots' = snapshots \cup {b}
    <3>1. PICK b \in Blocks : snapshots' = snapshots \cup {b}
      BY <2>3
    <3>2. PICK p \in Nat : p = Number[b]
      BY IndexerAssumption
    <3>3. PICK q \in Nat : q >= m /\ q >= p
      OBVIOUS
    <3>4. \A c \in snapshots' : Number[c] \in Nat
      BY <3>1, IndexerAssumption DEF SideTyped
    <3>5. \A c \in snapshots' : Number[c] <= q
      BY <2>1, <3>1, <3>2, <3>3, <3>4
    <3> QED BY <3>1, <3>3, <3>5 DEF SideTyped
  <2> QED BY <2>2, <2>3
<1> QED BY <1>1 DEF SideTyped

LEMMA SideStarts == Init => SideTyped
<1> SUFFICES ASSUME Init PROVE SideTyped
  OBVIOUS
<1>1. tip \in mined /\ mined \subseteq Blocks /\ settled \in BOOLEAN /\ health = "SYNCING"
  BY DEF Init
<1>2. quote \in [Accounts -> Nat \cup {Null, Signed}] /\ snapshots = {} /\ saved = {}
  BY DEF Init
<1> QED BY <1>1, <1>2 DEF SideTyped

LEMMA SideKeeps == SideTyped /\ IndexInv /\ [Next]_vars => SideTyped'
<1> SUFFICES ASSUME SideTyped, IndexInv, [Next]_vars PROVE SideTyped'
  OBVIOUS
<1>1. CASE UNCHANGED vars
  BY <1>1, SideMoves DEF vars, chainVars, storeVars, apiVars, SideTyped
<1>2. CASE TickStep
  <2>1. tip' = tip /\ mined' = mined /\ settled' = settled /\ quote' = quote
    BY <1>2 DEF TickStep, BeginTick, CheckCursor, SearchHit, SearchEnd, RewindTo, SearchMiss, SearchExhausted, RollbackProjection,
         NothingToScan, FetchHeaders, FetchLogs, CommitScan, ReadSnapshot, Publish, ThrowTick, chainVars, apiVars
  <2>2. health' = health \/ health' \in {"SYNCING", "HEALTHY", "DEGRADED", "TOO_DEEP"}
    BY <1>2 DEF TickStep, BeginTick, CheckCursor, SearchHit, SearchEnd, RewindTo, SearchMiss, SearchExhausted, RollbackProjection,
         NothingToScan, FetchHeaders, FetchLogs, CommitScan, ReadSnapshot, Publish, ThrowTick
  <2>3. snapshots' \subseteq snapshots \/ \E b \in Blocks : snapshots' = snapshots \cup {b}
    <3>1. CASE RollbackProjection
      BY <3>1 DEF RollbackProjection, RollbackFrom
    <3>2. CASE Publish
      <4>1. index.cursor \in Blocks
        BY <3>2, CursorTyped DEF Publish, IndexInv, TickSound, OrNone
      <4> QED BY <3>2, <4>1 DEF Publish
    <3>3. CASE ~RollbackProjection /\ ~Publish
      <4>1. snapshots' = snapshots
        BY <1>2, <3>3 DEF TickStep, BeginTick, CheckCursor, SearchHit, SearchEnd, RewindTo, SearchMiss, SearchExhausted,
             NothingToScan, FetchHeaders, FetchLogs, CommitScan, ReadSnapshot, ThrowTick, storeVars
      <4> QED BY <4>1
    <3> QED BY <3>1, <3>2, <3>3
  <2>4. settled' \in BOOLEAN
    BY <2>1 DEF SideTyped
  <2>5. saved' \subseteq Accounts
    BY <1>2 DEF TickStep, BeginTick, CheckCursor, SearchHit, SearchEnd, RewindTo, SearchMiss, SearchExhausted, RollbackProjection,
         NothingToScan, FetchHeaders, FetchLogs, CommitScan, ReadSnapshot, Publish, ThrowTick, storeVars, SideTyped
  <2> QED BY <2>1, <2>2, <2>3, <2>4, <2>5, SideMoves
<1>3. CASE Crash
  <2>1. tip' = tip /\ mined' = mined /\ settled' = settled /\ health' = "SYNCING" /\ snapshots' = snapshots
    BY <1>3 DEF Crash, chainVars, storeVars
  <2>2. quote' \in [Accounts -> Nat \cup {Null, Signed}]
    BY <1>3 DEF Crash
  <2>3. settled' \in BOOLEAN /\ saved' \subseteq Accounts
    BY <1>3, <2>1 DEF SideTyped, Crash, storeVars
  <2> QED BY <2>1, <2>2, <2>3, SideMoves
<1>4. ASSUME NEW a \in Accounts, ServiceStep(a) PROVE SideTyped'
  <2>1. tip' = tip /\ mined' = mined /\ settled' = settled /\ health' = health /\ snapshots' = snapshots
    BY <1>4 DEF ServiceStep, QuoteClaim, ReserveClaim, SimulateClaim, EndQuote, Submit, PollRemoved, PollReceipt, PollCanonical, PollFinish,
         PollFail, ExpireVoucher, chainVars, storeVars
  <2>2. quote' = quote \/ quote' \in [Accounts -> Nat \cup {Null, Signed}]
    <3>1. CASE QuoteClaim(a)
      <4>1. PICK n \in Nat : n = Cardinality(ClaimsIn(Ancestry[SnapshotBlock]))
        BY SnapshotTyped, ClaimsCounted
      <4>2. quote' = [quote EXCEPT ![a] = n]
        BY <3>1, <4>1 DEF QuoteClaim
      <4> QED BY <4>2 DEF SideTyped
    <3>2. CASE ReserveClaim(a) \/ SimulateClaim(a) \/ EndQuote(a)
      BY <3>2 DEF ReserveClaim, SimulateClaim, EndQuote, SideTyped
    <3>3. CASE ~QuoteClaim(a) /\ ~ReserveClaim(a) /\ ~SimulateClaim(a) /\ ~EndQuote(a)
      BY <1>4, <3>3 DEF ServiceStep, Submit, PollRemoved, PollReceipt, PollCanonical, PollFinish, PollFail, ExpireVoucher, apiVars
    <3> QED BY <3>1, <3>2, <3>3
  <2>3. settled' \in BOOLEAN
    BY <2>1 DEF SideTyped
  <2>4. saved' = saved \/ saved' = saved \cup {a}
    BY <1>4 DEF ServiceStep, QuoteClaim, ReserveClaim, SimulateClaim, EndQuote, Submit, PollRemoved, PollReceipt, PollCanonical, PollFinish,
         PollFail, ExpireVoucher, storeVars
  <2>5. saved' \subseteq Accounts
    BY <2>4 DEF SideTyped
  <2> QED BY <2>1, <2>2, <2>3, <2>5, SideMoves
<1>5. CASE Settle
  <2>1. tip' = tip /\ mined' = mined /\ settled' \in BOOLEAN /\ health' = health /\ snapshots' = snapshots /\ quote' = quote /\ saved' \subseteq Accounts
    BY <1>5 DEF Settle, storeVars, apiVars, SideTyped
  <2> QED BY <2>1, SideMoves
<1>6. ASSUME NEW b \in Blocks, MoveTip(b) PROVE SideTyped'
  <2>1. tip' = b /\ mined' = mined \cup Ancestry[b] /\ settled' = settled /\ health' = health /\ snapshots' = snapshots /\ quote' = quote /\ saved' = saved
    BY <1>6 DEF MoveTip, storeVars, apiVars
  <2>2. b \in Ancestry[b] /\ Ancestry[b] \subseteq Blocks
    BY AncestryHolds DEF AncestryFacts
  <2> QED BY <2>1, <2>2 DEF SideTyped
<1> QED BY <1>1, <1>2, <1>3, <1>4, <1>5, <1>6 DEF Next

LEMMA MarketTypes == SideTyped /\ IndexInv /\ OperationsTyped /\ VouchersUsed => TypeOK
<1> SUFFICES ASSUME SideTyped, IndexInv, OperationsTyped, VouchersUsed PROVE TypeOK
  OBVIOUS
<1>1. index \in [blocks : SUBSET Blocks, claims : SUBSET (Accounts \X index.blocks), cursor : OrNone(index.blocks)]
  <2>1. PICK i \in MarketIndexes : i = index /\ i.claims \subseteq Accounts \X i.blocks
    BY DEF IndexInv, IndexTyped
  <2>2. i.cursor \in OrNone(i.blocks)
    <3>1. i.cursor # NoBlock => i.blocks = Ancestry[i.cursor] /\ i.cursor \in Blocks
      BY <2>1 DEF IndexInv, IndexIsOneChain, MarketIndexes, OrNone
    <3> QED BY <3>1, AncestryHolds DEF OrNone
  <2> QED BY <2>1, <2>2 DEF MarketIndexes
<1>2. tick \in [pc : TickPcs, head : OrNone(Blocks), n : Int, to : OrNone(Blocks), got : SUBSET (Accounts \X Blocks)]
  BY DEF IndexInv, IndexTyped, Ticks
<1>3. observed \subseteq Accounts \X Blocks
  BY DEF IndexInv, IndexTyped
<1>4. voucher \in [Accounts -> [status : VoucherStatus, live : BOOLEAN, tx : BOOLEAN]]
  BY DEF VouchersUsed, Vouchers
<1>5. /\ operation \in [Accounts -> Operations]
      /\ poll \in [Accounts -> [pc : {"idle", "canonical", "finish"}, old : Operations,
                                receipt : OrNone(Blocks), canonical : BOOLEAN]]
  BY DEF OperationsTyped, OperationPolls
<1> QED BY <1>1, <1>2, <1>3, <1>4, <1>5 DEF SideTyped, TypeOK

\* The market's index is one chain whatever was replaced under its separate calls, what the store holds
\* as canonical is on it, and HEALTHY means that the store has all of it (tick, rewind, scan, rollbackFrom,
\* publish), for every chain, every page of blocks and depth of the search; for the store, as long as
\* both commits of a rewind happen.
THEOREM IndexStaysCoherent == Spec => []IndexCoherent
<1> DEFINE Inv == IndexInv /\ OperationsTyped /\ VouchersUsed /\ SideTyped
<1>1. Init => Inv
  BY IndexStarts, OperationsStart, VouchersStart, SideStarts
<1>2. Inv /\ [Next]_vars => Inv'
  BY IndexKeeps, OperationsKeep, VouchersKeep, SideKeeps
<1>3. Inv => IndexCoherent
  BY MarketTypes DEF IndexInv, ProjectionHeld, IndexCoherent
<1> QED BY <1>1, <1>2, <1>3, PTL DEF Spec

\* Both: what the market keeps of the chain stays coherent, and what it knows to be spent stays spent.
THEOREM MarketStaysCoherent == Spec => MarketCoherent
<1> QED BY IndexStaysCoherent, SpentVouchersStay, PTL DEF MarketCoherent
=============================================================================
