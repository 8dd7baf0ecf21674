---------------------------- MODULE OfflineCopies ----------------------------
(***************************************************************************)
(* The offline copies of the stores: storage-snapshot.ts, which backs up   *)
(* and restores a folder of the launch market (two databases and an        *)
(* identity, under the lock that its server takes), and chain-recovery.ts, *)
(* which copies one chain database while its server may be writing.        *)
(*                                                                         *)
(* The content of a database is a number that no other content has; a      *)
(* manifest is the content it names, Nothing for a file that was missing.  *)
(* A file that a copy was cut off in holds Partial, which no inspection    *)
(* accepts.                                                                *)
(***************************************************************************)
EXTENDS Integers, Sequences, FiniteSets

CONSTANTS
    Folders,        \* folders of the launch market; Home is the one it started in
    Home,
    ChainFiles,     \* chain databases; the server writes ChainHome
    ChainHome,
    Databases,      \* "market", "events": the files of a folder
    Required,       \* the ones that a copy cannot do without: "market"
    Nothing, Partial,
    CopyBudgets     \* the bounds: writes and copies of each side, faults

VARIABLES
    folders,    \* folder -> its databases, its manifest and its lock
    running,    \* the folder the market's server runs in, or Nothing
    copier,     \* the process of storage-snapshot.ts
    moments,    \* history: what a served folder has held at one moment
    chainFiles, \* chain file -> content, Nothing, or Partial
    chainCopy,  \* the process of chain-recovery.ts
    fresh,      \* the next content
    slack       \* what is left of the bounds

copyVars == <<folders, running, copier, moments, chainFiles, chainCopy, fresh, slack>>
marketSide == <<folders, running, copier, moments>>
chainSide == <<chainFiles, chainCopy>>

NoFolder == [data |-> [d \in Databases |-> Nothing], manifest |-> Nothing, locked |-> FALSE, made |-> FALSE]
NoCopier == [step |-> "off", action |-> "backup", from |-> Nothing, to |-> Nothing, evidence |-> [d \in {} |-> Nothing], copied |-> {}]
NoCopy == [step |-> "off", from |-> Nothing, to |-> Nothing, content |-> Nothing]
Use(what) == slack[what] > 0 /\ slack' = [slack EXCEPT ![what] = @ - 1]

----------------------------------------------------------------------------
(* The server of the launch market, as far as its folder goes *)

\* It makes the databases that the folder does not have.
ServerStarts(f) ==
    /\ running = Nothing /\ folders[f].made /\ ~folders[f].locked
    /\ LET opened == [d \in Databases |-> IF folders[f].data[d] \in {Nothing, Partial} THEN fresh ELSE folders[f].data[d]]
       IN /\ folders' = [folders EXCEPT ![f].locked = TRUE, ![f].data = opened]
          /\ moments' = moments \cup {opened}
          /\ fresh' = IF opened = folders[f].data THEN fresh ELSE fresh + 1
    /\ running' = f
    /\ UNCHANGED <<copier, chainSide, slack>>

\* One of its databases changes; the manifest of the folder, if it has one, stays as it is.
ServerWrites(d) ==
    /\ running # Nothing /\ Use("writes")
    /\ folders' = [folders EXCEPT ![running].data[d] = fresh] /\ fresh' = fresh + 1
    /\ moments' = moments \cup {folders'[running].data}
    /\ UNCHANGED <<running, copier, chainSide>>

\* The lock stays when the server is killed, and goes when it stops.
ServerKilled ==
    /\ running # Nothing /\ Use("faults") /\ running' = Nothing
    /\ UNCHANGED <<folders, copier, moments, chainSide, fresh>>

ServerStops ==
    /\ running # Nothing /\ folders' = [folders EXCEPT ![running].locked = FALSE] /\ running' = Nothing
    /\ UNCHANGED <<copier, moments, chainSide, fresh, slack>>

----------------------------------------------------------------------------
(* snapshotLaunchStorage *)

\* Mutant: the lock of the source is not taken.
LocksSourceMutant(f) == UNCHANGED folders

\* privateServerStorage(source): refused while a server or another copy holds the folder.
LocksSource(f) == ~folders[f].locked /\ folders' = [folders EXCEPT ![f].locked = TRUE]

\* The source is a folder in order; a restore needs one with a manifest.
CopyBegins(action, f, t) ==
    /\ copier.step = "off" /\ Use("copies")
    /\ f # t /\ folders[f].made /\ ~folders[t].made
    /\ LocksSource(f)
    /\ action = "restore" => folders[f].manifest # Nothing
    /\ copier' = [NoCopier EXCEPT !.step = "inspect", !.action = action, !.from = f, !.to = t]
    /\ UNCHANGED <<running, moments, chainSide, fresh>>

\* A database is opened in a read transaction and inspected, so its content is fixed; one that is
\* missing and not required is passed over.
Inspect(d) ==
    /\ copier.step = "inspect" /\ d \notin DOMAIN copier.evidence
    /\ folders[copier.from].data[d] # Partial
    /\ folders[copier.from].data[d] = Nothing => d \notin Required
    /\ copier' = [copier EXCEPT !.evidence =
          [x \in DOMAIN @ \cup {d} |-> IF x = d THEN folders[copier.from].data[d] ELSE @[x]]]
    /\ UNCHANGED <<folders, running, moments, chainSide, fresh, slack>>

\* Mutant: what is restored need not be what the manifest names.
ContentAgreesMutant == TRUE

\* A restore copies what the manifest of its source names, or nothing (SNAPSHOT_CONTENT_CHANGED).
ContentAgrees == copier.action = "restore" => folders[copier.from].manifest = copier.evidence

\* The destination is made, with the identity of the source, locked and without a manifest.
MakeDestination ==
    /\ copier.step = "inspect" /\ DOMAIN copier.evidence = Databases /\ ContentAgrees
    /\ ~folders[copier.to].made
    /\ folders' = [folders EXCEPT ![copier.to] = [NoFolder EXCEPT !.made = TRUE, !.locked = TRUE]]
    /\ copier' = [copier EXCEPT !.step = "copy"]
    /\ UNCHANGED <<running, moments, chainSide, fresh, slack>>

\* A database is created empty, then filled and compared with the evidence.
CopyDatabase(d) ==
    /\ copier.step = "copy" /\ d \notin copier.copied /\ copier.evidence[d] # Nothing
    /\ \/ /\ folders[copier.to].data[d] = Nothing
          /\ folders' = [folders EXCEPT ![copier.to].data[d] = Partial]
          /\ UNCHANGED copier
       \/ /\ folders[copier.to].data[d] = Partial
          /\ folders' = [folders EXCEPT ![copier.to].data[d] = copier.evidence[d]]
          /\ copier' = [copier EXCEPT !.copied = @ \cup {d}]
    /\ UNCHANGED <<running, moments, chainSide, fresh, slack>>

Unlocked(fs) == [f \in Folders |-> IF f \in {copier.from, copier.to} THEN [fs[f] EXCEPT !.locked = FALSE] ELSE fs[f]]

\* The manifest comes last; then both locks are released.
CopyEnds ==
    /\ copier.step = "copy" /\ copier.copied = {d \in Databases : copier.evidence[d] # Nothing}
    /\ folders' = Unlocked([folders EXCEPT ![copier.to].manifest = copier.evidence])
    /\ copier' = NoCopier
    /\ UNCHANGED <<running, moments, chainSide, fresh, slack>>

\* Any check or write fails: the locks go, and what there is of the destination stays.
CopyFails ==
    /\ copier.step # "off"
    /\ folders' = Unlocked(folders) /\ copier' = NoCopier
    /\ UNCHANGED <<running, moments, chainSide, fresh, slack>>

\* The process is killed: the locks stay too, until the operator has removed them.
CopyKilled ==
    /\ copier.step # "off" /\ Use("faults") /\ copier' = NoCopier
    /\ UNCHANGED <<folders, running, moments, chainSide, fresh>>

OperatorUnlocks(f) ==
    /\ folders[f].locked /\ running # f /\ copier.step = "off"
    /\ folders' = [folders EXCEPT ![f].locked = FALSE]
    /\ UNCHANGED <<running, copier, moments, chainSide, fresh, slack>>

----------------------------------------------------------------------------
(* chain-recovery.ts, beside a server that writes the chain database *)

ChainWrites ==
    /\ chainFiles[ChainHome] \notin {Nothing, Partial} /\ Use("chainWrites")
    /\ chainFiles' = [chainFiles EXCEPT ![ChainHome] = fresh] /\ fresh' = fresh + 1
    /\ UNCHANGED <<marketSide, chainCopy>>

\* BEGIN and the validation of the source: the transaction fixes its content.
ChainCopyBegins(f, t) ==
    /\ chainCopy.step = "off" /\ f # t /\ chainFiles[f] \notin {Nothing, Partial} /\ Use("chainCopies")
    /\ chainCopy' = [step |-> "begun", from |-> f, to |-> t, content |-> chainFiles[f]]
    /\ UNCHANGED <<marketSide, chainFiles, fresh>>

\* The target is created exclusively (CHAIN_RECOVERY_TARGET_EXISTS).
ChainTarget ==
    /\ chainCopy.step = "begun" /\ chainFiles[chainCopy.to] = Nothing
    /\ chainFiles' = [chainFiles EXCEPT ![chainCopy.to] = Partial]
    /\ chainCopy' = [chainCopy EXCEPT !.step = "created"]
    /\ UNCHANGED <<marketSide, fresh, slack>>

\* The backup, and the validation of the copy against the source's transaction: HEALTHY.
ChainCopied ==
    /\ chainCopy.step = "created"
    /\ chainFiles' = [chainFiles EXCEPT ![chainCopy.to] = chainCopy.content]
    /\ chainCopy' = NoCopy
    /\ UNCHANGED <<marketSide, fresh, slack>>

\* targetCreated: only the file that this run created is removed.
Removed(s) == s = "created"

ChainCopyFails ==
    /\ chainCopy.step # "off"
    /\ chainFiles' = IF Removed(chainCopy.step) THEN [chainFiles EXCEPT ![chainCopy.to] = Nothing] ELSE chainFiles
    /\ chainCopy' = NoCopy
    /\ UNCHANGED <<marketSide, fresh, slack>>

ChainCopyKilled ==
    /\ chainCopy.step # "off" /\ Use("faults") /\ chainCopy' = NoCopy
    /\ UNCHANGED <<marketSide, chainFiles, fresh>>

----------------------------------------------------------------------------
(* Properties *)

\* Whatever has a manifest, through any chain of backups, failures and restores, names databases that
\* the market's server once held together: they are never of different moments, and no file that a copy
\* was cut off in passes for one of them (snapshotLaunchStorage).
ManifestsAreMoments ==
    \A f \in Folders : folders[f].manifest # Nothing =>
        \E m \in moments : \A d \in Databases : folders[f].manifest[d] \in {m[d], Nothing}

\* The folder of a finished restore holds what its source's manifest named, and not what became of the
\* source since (SNAPSHOT_CONTENT_CHANGED).
RestoresAreVerified ==
    [][\A f \in Folders :
          copier.action = "restore" /\ folders[f].manifest = Nothing /\ folders'[f].manifest # Nothing =>
              folders'[f].manifest = folders[copier.from].manifest]_copyVars

\* A copy never replaces or removes a file that was there before it: the only content that goes away is
\* what the server itself overwrites (CHAIN_RECOVERY_TARGET_EXISTS, targetCreated).
CopiesKeepFiles ==
    [][\A f \in ChainFiles \ {ChainHome} :
          chainFiles[f] \notin {Nothing, Partial} => chainFiles'[f] = chainFiles[f]]_copyVars

\* A copy passes on what a manifest named, and removes nothing that was there.
CopiesHonest == RestoresAreVerified /\ CopiesKeepFiles

----------------------------------------------------------------------------
CopyInit ==
    /\ folders = [f \in Folders |-> IF f = Home THEN [NoFolder EXCEPT !.made = TRUE, !.data = [d \in Databases |-> 0]] ELSE NoFolder]
    /\ moments = {folders[Home].data}
    /\ running = Nothing /\ copier = NoCopier
    /\ chainFiles = [f \in ChainFiles |-> IF f = ChainHome THEN 0 ELSE Nothing] /\ chainCopy = NoCopy
    /\ fresh = 1 /\ slack \in CopyBudgets

CopyNext ==
    \/ \E f \in Folders : ServerStarts(f) \/ OperatorUnlocks(f)
    \/ \E d \in Databases : ServerWrites(d) \/ Inspect(d) \/ CopyDatabase(d)
    \/ \E action \in {"backup", "restore"}, f, t \in Folders : CopyBegins(action, f, t)
    \/ ServerStops \/ ServerKilled \/ MakeDestination \/ CopyEnds \/ CopyFails \/ CopyKilled
    \/ ChainWrites \/ ChainTarget \/ ChainCopied \/ ChainCopyFails \/ ChainCopyKilled
    \/ \E f, t \in ChainFiles : ChainCopyBegins(f, t)

CopySpec == CopyInit /\ [][CopyNext]_copyVars
=============================================================================
