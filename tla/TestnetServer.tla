--------------------------- MODULE TestnetServer ---------------------------
(***************************************************************************)
(* The public testnet server (apps/server/src/testnet-startup.ts): its     *)
(* private folder with one lock, the trading runtime that indexes a Vault  *)
(* and records what its owner says was submitted, and the verified backups *)
(* of the runtime's two databases.  Synchronisation and backups run one    *)
(* after the other on the server's tail; requests run between their        *)
(* awaits.  ChainSync models the indexing itself.                          *)
(***************************************************************************)
EXTENDS Naturals, Sequences, FiniteSets

CONSTANTS
    Hashes, NoHash,   \* transaction hashes an owner reports
    MaxHeight,        \* blocks of the chain
    ServerBudgets     \* [backups, calls, faults]: backups started, submissions reported, failing calls, crashes and stops

ASSUME ServerAssumption ==
    NoHash \notin Hashes /\ MaxHeight \in Nat /\ ServerBudgets \subseteq [backups : Nat, calls : Nat, faults : Nat]

VARIABLES
    lock,      \* .server.lock
    folders,   \* backups/<id>: [vault, evidence, manifest]
    server,    \* the process: down, starting, up or closing
    disk,      \* the databases: [height, op] of the Vault's store, evidence records
    health,    \* TradingChainRuntime.#state
    pause,     \* [on, epoch]: #writesPaused with maintenance, #writeEpoch
    tail,      \* jobs of the server's tail
    job,       \* where the first of them is: [step, seen]
    calls,     \* reports whose rpc.transaction is awaited: [hash, epoch, op]
    report,    \* ServerBackups: [last, verified, failed]
    spare      \* what is left of the budget

serverVars == <<lock, folders, server, disk, health, pause, tail, job, calls, report, spare>>

NoOperation == [state |-> "NONE", hash |-> NoHash]
Idle == [step |-> "idle", seen |-> NoOperation]
Memory(last) ==
    /\ health' = "NOT_RUN" /\ pause' = [on |-> FALSE, epoch |-> 0] /\ tail' = <<>> /\ job' = Idle /\ calls' = <<>>
    /\ report' = [last |-> last, verified |-> FALSE, failed |-> FALSE]

Included == {"MINED", "CONFIRMING", "CONFIRMED", "RECONCILIATION_FAILED", "REVERTED"}
Fault == spare.faults > 0 /\ spare' = [spare EXCEPT !.faults = @ - 1]
Awake == server \in {"up", "closing"}
Running(kind) == Awake /\ tail # <<>> /\ Head(tail) = kind

----------------------------------------------------------------------------
(* Process and folder *)

\* The constructor of ServerBackups takes the manifest with the latest createdAt; a folder without one
\* is passed over.  folders is in the order of creation, so a clock that is not set back is assumed.
Newest == IF \E i \in DOMAIN folders : folders[i].manifest
          THEN CHOOSE i \in DOMAIN folders : folders[i].manifest /\ \A j \in DOMAIN folders : folders[j].manifest => j <= i
          ELSE 0

\* privateServerStorage: the lock file is created or the start ends there.
TakeLock == ~lock /\ lock' = TRUE
FreeLock == lock' = FALSE

Start ==
    /\ server = "down" /\ TakeLock
    /\ server' = "starting"
    /\ Memory(Newest)
    /\ UNCHANGED <<folders, disk, spare>>

\* The newest backup's report and files are read again.
VerifyLatest == report' = [report EXCEPT !.verified = report.last # 0]

\* Then the app and the listener.
Listen ==
    /\ server = "starting" /\ server' = "up"
    /\ VerifyLatest
    /\ UNCHANGED <<lock, folders, disk, health, pause, tail, job, calls, spare>>

\* close() of a start that failed.
StartFails ==
    /\ server = "starting" /\ Fault
    /\ server' = "down" /\ FreeLock
    /\ UNCHANGED <<folders, disk, health, pause, tail, job, calls, report>>

Close ==
    /\ server = "up" /\ Fault
    /\ server' = "closing"
    /\ UNCHANGED <<lock, folders, disk, health, pause, tail, job, calls, report>>

\* After the tail: the app, the runtimes, the folder.
Closed ==
    /\ server = "closing" /\ tail = <<>>
    /\ server' = "down" /\ FreeLock
    /\ Memory(0)
    /\ UNCHANGED <<folders, disk, spare>>

Crash ==
    /\ server # "down" /\ Fault
    /\ server' = "down"
    /\ Memory(0)
    /\ UNCHANGED <<lock, folders, disk>>

\* The operator's; the server never removes a lock it finds.
Unlock ==
    /\ server = "down" /\ lock
    /\ lock' = FALSE
    /\ UNCHANGED <<folders, server, disk, health, pause, tail, job, calls, report, spare>>

----------------------------------------------------------------------------
(* Synchronisation *)

SyncNow ==
    /\ server = "up" /\ ~pause.on /\ \A i \in DOMAIN tail : tail[i] # "sync"
    /\ tail' = Append(tail, "sync")
    /\ UNCHANGED <<lock, folders, server, disk, health, pause, job, calls, report, spare>>

SyncBegin ==
    /\ Running("sync") /\ job.step = "idle"
    /\ health' = "SYNCING" /\ job' = [job EXCEPT !.step = "indexing"]
    /\ UNCHANGED <<lock, folders, server, disk, pause, tail, calls, report, spare>>

\* syncTo: blocks are recorded; a rollback takes the operation's receipt with it.
SyncIndex ==
    /\ Running("sync") /\ job.step = "indexing"
    /\ \/ /\ disk.height < MaxHeight /\ disk' = [disk EXCEPT !.height = @ + 1]
       \/ disk' = disk
       \/ /\ disk.op.state \in Included /\ disk.height < MaxHeight
          /\ disk' = [disk EXCEPT !.op.state = "REORGED", !.height = @ + 1]
    /\ job' = [job EXCEPT !.step = "tracking"]
    /\ UNCHANGED <<lock, folders, server, health, pause, tail, calls, report, spare>>

\* trackOperation: the receipt is saved, then the events are compared.
SyncReceipt ==
    /\ Running("sync") /\ job.step = "tracking" /\ disk.op.state \in {"SUBMITTED", "REORGED"}
    /\ \E to \in {"MINED", "REVERTED"} :
          /\ disk' = [disk EXCEPT !.op.state = to]
          /\ job' = [step |-> IF to = "MINED" THEN "reconciling" ELSE "tracked", seen |-> disk'.op]
    /\ UNCHANGED <<lock, folders, server, health, pause, tail, calls, report, spare>>

SyncResume ==
    /\ Running("sync") /\ job.step = "tracking" /\ disk.op.state \in Included \ {"CONFIRMED", "REVERTED"}
    /\ job' = [step |-> "reconciling", seen |-> disk.op]
    /\ UNCHANGED <<lock, folders, server, disk, health, pause, tail, calls, report, spare>>

\* reconcileOperation, and how deep the block is.
Verdicts == {"RECONCILIATION_FAILED", "CONFIRMING", "CONFIRMED"}

\* saveOperationAtCheckpoint: not over an operation that changed since it was read.
SyncReconcile ==
    /\ Running("sync") /\ job.step = "reconciling"
    /\ \E verdict \in Verdicts :
          /\ disk.op = job.seen \/ (verdict = job.seen.state /\ verdict = "RECONCILIATION_FAILED")
          /\ disk' = IF disk.op = job.seen THEN [disk EXCEPT !.op.state = verdict] ELSE disk
    /\ job' = [job EXCEPT !.step = "tracked"]
    /\ UNCHANGED <<lock, folders, server, health, pause, tail, calls, report, spare>>

\* EvidenceJournal.append: a snapshot's record is appended once.
Recorded(d) == [d EXCEPT !.evidence = @ \cup {d.height}]

\* Without a receipt there is nothing to track.  One call indexes up to 2000 blocks and returns at
\* SYNCING when more are left; the model's chain is shorter, so a call ends at its head.
SyncEnd ==
    /\ Running("sync") /\ job.step \in {"tracking", "tracked"}
    /\ health' = "HEALTHY" /\ tail' = Tail(tail) /\ job' = Idle
    /\ disk' = Recorded(disk)
    /\ UNCHANGED <<lock, folders, server, pause, calls, report, spare>>

SyncFails ==
    /\ Running("sync") /\ job.step # "idle"
    /\ IF job.step = "reconciling" /\ disk.op # job.seen THEN UNCHANGED spare ELSE Fault
    /\ health' = "DEGRADED" /\ tail' = Tail(tail) /\ job' = Idle
    /\ UNCHANGED <<lock, folders, server, disk, pause, calls, report>>

----------------------------------------------------------------------------
(* The owner's requests *)

\* ownedView gives a snapshot.
Ready == health = "HEALTHY"

PrepareOwnerAction ==
    /\ Awake /\ ~pause.on /\ Ready /\ disk.op = NoOperation
    /\ disk' = [disk EXCEPT !.op.state = "AWAITING_SIGNATURE"]
    /\ UNCHANGED <<lock, folders, server, health, pause, tail, job, calls, report, spare>>

ObserveOwnerSubmission ==
    /\ Awake /\ ~pause.on /\ disk.op.state = "AWAITING_SIGNATURE" /\ spare.calls > 0
    /\ \E h \in Hashes : calls' = Append(calls, [hash |-> h, epoch |-> pause.epoch, op |-> disk.op])
    /\ spare' = [spare EXCEPT !.calls = @ - 1]
    /\ UNCHANGED <<lock, folders, server, disk, health, pause, tail, job, report>>

\* After the await: not while writes are paused, nor when they were in between.
Writable(c) == ~pause.on /\ c.epoch = pause.epoch

\* Mutant: the hash of an earlier report is replaced.
SavedMutant(op) == op

\* saveOperation: an operation keeps the hash it has.
Saved(op) == IF disk.op.hash \in {NoHash, op.hash} THEN op ELSE disk.op

Observed ==
    /\ Awake
    /\ \E i \in DOMAIN calls :
          /\ calls' = SubSeq(calls, 1, i - 1) \o SubSeq(calls, i + 1, Len(calls))
          /\ disk' = IF Writable(calls[i]) THEN [disk EXCEPT !.op = Saved([calls[i].op EXCEPT !.state = "SUBMITTED", !.hash = calls[i].hash])]
                     ELSE disk
    /\ UNCHANGED <<lock, folders, server, health, pause, tail, job, report, spare>>

----------------------------------------------------------------------------
(* Backups *)

PauseWrites == pause' = [on |-> TRUE, epoch |-> pause.epoch + 1]

\* Writes stop when the backup is asked for; it starts when the tail is done.
BackupNow ==
    /\ server = "up" /\ ~pause.on /\ spare.backups > 0
    /\ spare' = [spare EXCEPT !.backups = @ - 1]
    /\ PauseWrites
    /\ tail' = Append(tail, "backup")
    /\ UNCHANGED <<lock, folders, server, disk, health, job, calls, report>>

Nothing == [height |-> 0, op |-> NoOperation]
Vault(d) == [height |-> d.height, op |-> d.op]

BackupBegin ==
    /\ Running("backup") /\ job.step = "idle"
    /\ folders' = Append(folders, [vault |-> Nothing, marked |-> Nothing, evidence |-> {}, manifest |-> FALSE])
    /\ report' = [report EXCEPT !.failed = FALSE]
    /\ job' = [job EXCEPT !.step = "marking"]
    /\ UNCHANGED <<lock, server, disk, health, pause, tail, calls, spare>>

\* fingerprints and backup of one database after the other.
BackupMark ==
    /\ Running("backup") /\ job.step = "marking"
    /\ folders' = [folders EXCEPT ![Len(folders)].marked = Vault(disk)]
    /\ job' = [job EXCEPT !.step = "copying"]
    /\ UNCHANGED <<lock, server, disk, health, pause, tail, calls, report, spare>>

BackupCopy ==
    /\ Running("backup") /\ job.step = "copying"
    /\ folders' = [folders EXCEPT ![Len(folders)].vault = Vault(disk)]
    /\ job' = [job EXCEPT !.step = "evidence"]
    /\ UNCHANGED <<lock, server, disk, health, pause, tail, calls, report, spare>>

BackupEvidence ==
    /\ Running("backup") /\ job.step = "evidence"
    /\ folders' = [folders EXCEPT ![Len(folders)].evidence = disk.evidence]
    /\ job' = [job EXCEPT !.step = "verifying"]
    /\ UNCHANGED <<lock, server, disk, health, pause, tail, calls, report, spare>>

\* Mutant: a backup that failed leaves the writes paused.
ReleaseMutant(done) == /\ pause' = IF done THEN [on |-> FALSE, epoch |-> pause.epoch + 1] ELSE pause
                       /\ tail' = Tail(tail) /\ job' = Idle

\* The end of the job, whether it was done or not.
Release(done) == pause' = [on |-> FALSE, epoch |-> pause.epoch + 1] /\ tail' = Tail(tail) /\ job' = Idle

\* verifyFiles: the copy has the fingerprints taken before it.
Faithful(folder) == folder.vault = folder.marked

\* Then the manifest.
BackupVerify ==
    /\ Running("backup") /\ job.step = "verifying"
    /\ LET same == Faithful(folders[Len(folders)]) IN
       /\ folders' = [folders EXCEPT ![Len(folders)].manifest = same]
       /\ report' = IF same THEN [last |-> Len(folders), verified |-> TRUE, failed |-> FALSE] ELSE [report EXCEPT !.failed = TRUE]
       /\ Release(same)
    /\ UNCHANGED <<lock, server, disk, health, calls, spare>>

BackupFails ==
    /\ Running("backup") /\ Fault
    /\ report' = [report EXCEPT !.failed = TRUE]
    /\ Release(FALSE)
    /\ UNCHANGED <<lock, folders, server, disk, health, calls>>

----------------------------------------------------------------------------
(* Properties *)

\* A backup that gets its manifest holds both databases as they are at that moment: no report,
\* preparation or synchronisation wrote between its copies (pauseWrites, the tail, #writeEpoch).
BackupOneMoment ==
    [][\A i \in DOMAIN folders :
          folders'[i].manifest /\ ~folders[i].manifest => folders'[i].vault = Vault(disk) /\ folders'[i].evidence = disk.evidence]_serverVars

\* The hash under which an operation is followed never changes, whichever of several reports is
\* answered first, and survives pauses and restarts (observeOwnerSubmission, saveOperation).
SubmissionKept == [][disk.op.hash # NoHash => disk'.op.hash = disk.op.hash]_serverVars

\* What the status calls verified is the newest backup with a manifest, after crashes in the middle
\* of a backup too, as long as the clock is not set back between two backups (ServerBackups).
ReportedIsNewest == server = "up" /\ report.verified => report.last = Newest /\ report.last # 0

\* Whatever a backup meets, the owner's writes are open again afterwards, and a stop ends with the
\* folder free for the next start (backupNow, close).
WritesResume == (pause.on ~> ~pause.on) /\ (server = "closing" ~> server = "down")

----------------------------------------------------------------------------
ServerInit ==
    /\ lock = FALSE /\ folders = <<>> /\ server = "down"
    /\ disk = [height |-> 0, op |-> NoOperation, evidence |-> {}]
    /\ health = "NOT_RUN" /\ pause = [on |-> FALSE, epoch |-> 0] /\ tail = <<>> /\ job = Idle /\ calls = <<>>
    /\ report = [last |-> 0, verified |-> FALSE, failed |-> FALSE]
    /\ spare \in ServerBudgets

JobStep ==
    \/ SyncBegin \/ SyncIndex \/ SyncReceipt \/ SyncResume \/ SyncReconcile \/ SyncEnd \/ SyncFails
    \/ BackupBegin \/ BackupMark \/ BackupCopy \/ BackupEvidence \/ BackupVerify \/ BackupFails

ServerNext ==
    \/ Start \/ Listen \/ StartFails \/ Close \/ Closed \/ Crash \/ Unlock
    \/ SyncNow \/ PrepareOwnerAction \/ ObserveOwnerSubmission \/ Observed \/ BackupNow
    \/ JobStep

\* Every call the tail awaits answers or times out, so the tail moves on and close gets its turn.
ServerFairness == WF_serverVars(JobStep) /\ WF_serverVars(Closed)
ServerSpec == ServerInit /\ [][ServerNext]_serverVars /\ ServerFairness

\* What the server answered stands: a submission is never lost, and a backup
\* holds one moment of all the stores.
ReportsStand == SubmissionKept /\ BackupOneMoment
=============================================================================
