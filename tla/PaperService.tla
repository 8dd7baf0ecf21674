---------------------------- MODULE PaperService ----------------------------
(***************************************************************************)
(* The reference-paper service (reference-paper-service.ts) around the     *)
(* account: one process that captures batches into a source journal,       *)
(* applies them and the user's controls to a paper journal, and copies     *)
(* both into backups.  Work is serialized in a queue; a stop goes past a   *)
(* running backup and cuts a running capture short.  The account's own     *)
(* state is a function of the paper journal and is left to ReferencePaper. *)
(***************************************************************************)
EXTENDS Integers, Sequences, FiniteSets

CONSTANTS
    Controls,        \* control ids of the user's requests
    Stops,           \* those that stop the account; the others move cash
    BackupIds,
    MaxBatches,      \* bound on the source journal
    ServiceBudgets   \* submissions, storage failures, crashes, closes, backups

ServiceBudget == [sends : Nat, fails : Nat, crashes : Nat, closes : Nat, backups : Nat]

ASSUME ServiceAssumption == Stops \subseteq Controls /\ MaxBatches \in Nat /\ ServiceBudgets \subseteq ServiceBudget

VARIABLES
    source,     \* source.sqlite: how many batches it holds
    steps,      \* paper.sqlite: the steps, [kind, id]
    backups,    \* published: [id, revision, cursor, source, steps]
    process,    \* "up", "closing", "down"
    queue,      \* the serialized work, the first of which runs
    running,    \* where the first is: "ready", "capture", "source", "paper"
    bypass,     \* stops that do not wait in the queue
    round,      \* the capture's signal: "none", "open", "aborted"
    pendingStops,
    fatal,
    backupJob,        \* the backup in progress, or <<>>
    requests,   \* per control: how many are unanswered, and the revision it was made for
    quota

serviceVars == <<source, steps, backups, process, queue, running, bypass, round, pendingStops, fatal, backupJob, requests, quota>>

Take(what) == quota[what] > 0 /\ quota' = [quota EXCEPT ![what] = @ - 1]

Revision == Len(steps)
BatchSteps(journal) == {i \in DOMAIN journal : journal[i].kind = "batch"}
Cursor(journal) == Cardinality(BatchSteps(journal))
OnRecord(c) == \E i \in DOMAIN steps : steps[i].kind = "control" /\ steps[i].id = c
BackingUp == running \in {"source", "paper"}
Working(kind, at) == process # "down" /\ queue # <<>> /\ queue[1].kind = kind /\ running = at

\* The first work is over.
Pop == queue' = Tail(queue) /\ running' = "ready"

\* catchUp: every entry of the source that the paper journal has not consumed, in order.
CaughtUp(journal, available) ==
    journal \o [i \in 1..(available - Cursor(journal)) |-> [kind |-> "batch", id |-> Cursor(journal) + i]]

----------------------------------------------------------------------------
(* cycle *)

\* The loop puts the next cycle in line once the last one is over.
NextCycle ==
    /\ process = "up" /\ ~fatal /\ source < MaxBatches
    /\ \A i \in DOMAIN queue : queue[i].kind # "cycle"
    /\ queue' = Append(queue, [kind |-> "cycle", id |-> 0])
    /\ UNCHANGED <<source, steps, backups, process, running, bypass, round, pendingStops, fatal, backupJob, requests, quota>>

\* A stop that is already waiting aborts the capture from the start.
RoundFor(stops) == IF stops > 0 THEN "aborted" ELSE "open"

BeginCycle ==
    /\ Working("cycle", "ready")
    /\ IF fatal \/ process = "closing"
       THEN Pop /\ UNCHANGED <<steps, round, fatal, quota>>
       ELSE \/ /\ steps' = CaughtUp(steps, source)
               /\ running' = "capture" /\ round' = RoundFor(pendingStops)
               /\ UNCHANGED <<queue, fatal, quota>>
            \/ /\ Take("fails") /\ fatal' = TRUE /\ Pop
               /\ UNCHANGED <<steps, round>>
    /\ UNCHANGED <<source, backups, process, bypass, pendingStops, backupJob, requests>>

\* The batch, accepted, rejected or aborted, is appended to the source and consumed at once; what
\* fails on the way, or a feed that denies access, blocks the service.
FinishCapture ==
    /\ Working("cycle", "capture")
    /\ Pop /\ round' = "none"
    /\ \/ /\ source' = source + 1 /\ steps' = CaughtUp(steps, source + 1)
          /\ UNCHANGED <<fatal, quota>>
       \/ /\ Take("fails") /\ fatal' = TRUE
          /\ source' \in source..(source + 1) /\ steps' \in {steps, CaughtUp(steps, source')}
    /\ UNCHANGED <<backups, process, bypass, pendingStops, backupJob, requests>>

----------------------------------------------------------------------------
(* control *)

CutRound(c) == IF c \in Stops /\ round = "open" THEN "aborted" ELSE round

\* A control is made for the revision the user sees, and is sent again as it was.
Submit(c) ==
    /\ process # "down" /\ Take("sends")
    /\ requests' = [requests EXCEPT ![c] = [open |-> @.open + 1, expected |-> IF @.expected < 0 THEN Revision ELSE @.expected]]
    /\ pendingStops' = IF c \in Stops THEN pendingStops + 1 ELSE pendingStops
    /\ round' = CutRound(c)
    /\ IF c \in Stops /\ BackingUp
       THEN bypass' = Append(bypass, c) /\ UNCHANGED queue
       ELSE queue' = Append(queue, [kind |-> "control", id |-> c]) /\ UNCHANGED bypass
    /\ UNCHANGED <<source, steps, backups, process, running, fatal, backupJob>>

\* Mutant: a request that was recorded is not recognised.
AnsweredBeforeMutant(c) == FALSE

AnsweredBefore(c) == OnRecord(c)

Accepts(c) == IF c \in Stops THEN requests[c].expected <= Revision ELSE requests[c].expected = Revision

\* No account yet, a repetition, another revision, or cash the account does not take.
Refusable(c) == steps # <<>> /\ c \in Stops => AnsweredBefore(c) \/ ~Accepts(c)

\* receipt, reserve, append: one stretch; the answer goes back whatever the outcome.
Apply(c) ==
    /\ \/ /\ source > 0 /\ ~AnsweredBefore(c) /\ Accepts(c)
          /\ steps' = Append(steps, [kind |-> "control", id |-> c]) /\ UNCHANGED quota
       \/ /\ Refusable(c) /\ UNCHANGED <<steps, quota>>
       \/ Take("fails") /\ UNCHANGED steps
    /\ requests' = [requests EXCEPT ![c].open = @ - 1]
    /\ pendingStops' = IF c \in Stops THEN pendingStops - 1 ELSE pendingStops

RunControl ==
    /\ Working("control", "ready")
    /\ Apply(queue[1].id) /\ Pop
    /\ UNCHANGED <<source, backups, process, bypass, round, fatal, backupJob>>

RunBypass ==
    /\ process # "down" /\ bypass # <<>>
    /\ Apply(bypass[1]) /\ bypass' = Tail(bypass)
    /\ UNCHANGED <<source, backups, process, queue, running, round, fatal, backupJob>>

----------------------------------------------------------------------------
(* backup *)

\* One backupJob at a time; an id that is published is only verified again.
RequestBackup(b) ==
    /\ process = "up" /\ backupJob = <<>> /\ Take("backups")
    /\ \A k \in backups : k.id # b
    /\ backupJob' = <<[id |-> b, at |-> "queued", revision |-> 0, cursor |-> 0, source |-> 0, steps |-> <<>>]>>
    /\ queue' = Append(queue, [kind |-> "backup", id |-> 0])
    /\ UNCHANGED <<source, steps, backups, process, running, bypass, round, pendingStops, fatal, requests>>

\* What the backup is to hold is noted; then the copies are made.
BeginBackup ==
    /\ Working("backup", "ready")
    /\ IF source = 0 \/ process = "closing"
       THEN backupJob' = <<>> /\ Pop
       ELSE /\ backupJob' = <<[backupJob[1] EXCEPT !.revision = Revision, !.cursor = Cursor(steps)]>>
            /\ running' = "source" /\ UNCHANGED queue
    /\ UNCHANGED <<source, steps, backups, process, bypass, round, pendingStops, fatal, requests, quota>>

\* The journals do not open, there is no room, a copy fails: an automatic backup then blocks the service.
CopyFails ==
    /\ process # "down" /\ queue # <<>> /\ queue[1].kind = "backup"
    /\ Take("fails") /\ backupJob' = <<>> /\ Pop /\ fatal' \in {fatal, TRUE}
    /\ UNCHANGED <<source, steps, backups, process, bypass, round, pendingStops, requests>>

Unchanged == backupJob[1].revision = Revision

\* A stop that was applied meanwhile cancels the copy.
CopySource ==
    /\ Working("backup", "source")
    /\ IF Unchanged THEN backupJob' = <<[backupJob[1] EXCEPT !.source = source]>> /\ running' = "paper" /\ UNCHANGED queue
       ELSE backupJob' = <<>> /\ Pop
    /\ UNCHANGED <<source, steps, backups, process, bypass, round, pendingStops, fatal, requests, quota>>

CopyPaper ==
    /\ Working("backup", "paper")
    /\ Pop
    /\ backupJob' = IF Unchanged THEN <<[backupJob[1] EXCEPT !.steps = steps, !.at = "verify"]>> ELSE <<>>
    /\ UNCHANGED <<source, steps, backups, process, bypass, round, pendingStops, fatal, requests, quota>>

Manifest(j) == [id |-> j.id, revision |-> j.revision, cursor |-> j.cursor, source |-> j.source, steps |-> j.steps]

\* Outside the queue: the copy is replayed and compared, then published; or given up.
PublishBackup ==
    /\ process # "down" /\ backupJob # <<>> /\ backupJob[1].at = "verify"
    /\ backupJob' = <<>>
    /\ \/ /\ process = "up" /\ Len(backupJob[1].steps) = backupJob[1].revision /\ Cursor(backupJob[1].steps) = backupJob[1].cursor
          /\ backups' = backups \cup {Manifest(backupJob[1])} /\ UNCHANGED <<fatal, quota>>
       \/ process = "closing" /\ UNCHANGED <<backups, fatal, quota>>
       \/ Take("fails") /\ fatal' \in {fatal, TRUE} /\ UNCHANGED backups
    /\ UNCHANGED <<source, steps, process, queue, running, bypass, round, pendingStops, requests>>

----------------------------------------------------------------------------
(* close, crash, restart *)

CloseService ==
    /\ process = "up" /\ Take("closes")
    /\ process' = "closing" /\ round' = IF round = "open" THEN "aborted" ELSE round
    /\ UNCHANGED <<source, steps, backups, queue, running, bypass, pendingStops, fatal, backupJob, requests>>

Stopped ==
    /\ process' = "down" /\ queue' = <<>> /\ running' = "ready" /\ bypass' = <<>> /\ round' = "none"
    /\ pendingStops' = 0 /\ fatal' = FALSE /\ backupJob' = <<>>
    /\ requests' = [c \in Controls |-> [requests[c] EXCEPT !.open = 0]]

ServiceClosed ==
    /\ process = "closing" /\ queue = <<>> /\ bypass = <<>> /\ backupJob = <<>>
    /\ Stopped
    /\ UNCHANGED <<source, steps, backups, quota>>

\* The process dies; between the two journals at the worst.
ServiceCrash ==
    /\ process # "down" /\ Take("crashes")
    /\ source' \in {source} \cup (IF Working("cycle", "capture") THEN {source + 1} ELSE {})
    /\ Stopped
    /\ UNCHANGED <<steps, backups>>

\* The constructor replays the paper journal and catches up with the source; a last batch that was
\* denied access blocks the service again.
Restart ==
    /\ process = "down"
    /\ process' = "up" /\ steps' = CaughtUp(steps, source)
    /\ fatal' \in {FALSE, source > 0}
    /\ UNCHANGED <<source, backups, queue, running, bypass, round, pendingStops, backupJob, requests, quota>>

----------------------------------------------------------------------------
(* Properties *)

\* The paper journal consumes the source's batches one by one and in order, and applies no
\* control twice, however often it is sent and wherever the process dies (consume, receipt, catchUp).
JournalFaithful ==
    /\ \A i \in BatchSteps(steps) : steps[i].id = Cursor(SubSeq(steps, 1, i))
    /\ Cursor(steps) <= source
    /\ \A i, j \in DOMAIN steps : steps[i].kind = "control" /\ steps[i] = steps[j] => i = j

\* A published backup is what its manifest says: the journal as it was at that revision, and
\* every batch it had consumed (requestBackup; stops are applied while the copies are made).
BackupsReplay ==
    \A b \in backups :
        /\ b.steps = SubSeq(steps, 1, b.revision) /\ b.revision = Len(b.steps)
        /\ b.cursor = Cursor(b.steps) /\ b.cursor <= b.source

\* A stop is answered although the capture it meets may never end by itself (pendingStops,
\* the round's signal, the way past a backup).
StopGetsThrough == \A c \in Stops : requests[c].open > 0 ~> requests[c].open = 0

----------------------------------------------------------------------------
ServiceInit ==
    /\ source = 0 /\ steps = <<>> /\ backups = {}
    /\ process = "up" /\ queue = <<>> /\ running = "ready" /\ bypass = <<>> /\ round = "none"
    /\ pendingStops = 0 /\ fatal = FALSE /\ backupJob = <<>>
    /\ requests = [c \in Controls |-> [open |-> 0, expected |-> -1]]
    /\ quota \in ServiceBudgets

\* What the event loop does by itself; a capture ends by itself only when it is aborted.
ServiceSteps ==
    \/ BeginCycle \/ RunControl \/ RunBypass \/ BeginBackup \/ CopySource \/ CopyPaper \/ PublishBackup \/ ServiceClosed
    \/ round = "aborted" /\ FinishCapture

ServiceNext ==
    \/ NextCycle \/ BeginCycle \/ FinishCapture \/ RunControl \/ RunBypass
    \/ \E c \in Controls : Submit(c)
    \/ \E b \in BackupIds : RequestBackup(b)
    \/ BeginBackup \/ CopySource \/ CopyPaper \/ CopyFails \/ PublishBackup
    \/ CloseService \/ ServiceClosed \/ ServiceCrash \/ Restart

ServiceSpec == ServiceInit /\ [][ServiceNext]_serviceVars /\ WF_serviceVars(ServiceSteps)

\* The journals on disk and every published backup replay to what was answered.
JournalsReplay == JournalFaithful /\ BackupsReplay
=============================================================================
