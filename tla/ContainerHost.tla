---------------------------- MODULE ContainerHost ----------------------------
(***************************************************************************)
(* The container that runs the testnet services, and the offline recovery  *)
(* of its volume: the supervisor (PID 1), one launcher for each service,   *)
(* the service itself, and the recovery command, all of which share one    *)
(* volume under the exclusive file .container-lease.                       *)
(*                                                                         *)
(* A launcher tells the supervisor what happens over a channel that keeps  *)
(* order; the close of a launcher comes after all it said.  A service is   *)
(* alive until its own process ends, with or without its launcher; the     *)
(* kernel ends whatever is left when PID 1 does (external).                *)
(***************************************************************************)
EXTENDS Integers, Sequences, FiniteSets

CONSTANTS
    Services,           \* the services of the plan: public, executor and proxy in the code
    ContainerBudgets    \* the bounds: starts, writes, mishaps, recoveries

VARIABLES
    volLease,   \* .container-lease: free, held by the service or the recovery command, or left behind
    volume,     \* service -> version of its folder
    sup,        \* the supervisor
    launcher,   \* service -> state of its launcher
    service,    \* service -> none, alive, or how it ended
    channel,    \* service -> messages on the way to the supervisor
    recovery,   \* the recovery command
    snapshots,  \* folders under recovery/ that hold a manifest
    ration      \* what is left of the bounds

hostVars == <<volLease, volume, sup, launcher, service, channel, recovery, snapshots, ration>>
hostRest == <<volLease, volume, recovery, snapshots>>

NotRunning == [up |-> FALSE, stopping |-> FALSE, failed |-> FALSE, ready |-> {}, closed |-> {}]
NotCopying == [step |-> "off", files |-> <<>>, payload |-> <<>>]
Spend(what) == ration[what] > 0 /\ ration' = [ration EXCEPT ![what] = @ - 1]

----------------------------------------------------------------------------
(* The launcher of a service (worker.mjs) *)

\* The message 'start': the service is spawned.
Launch(s) ==
    /\ launcher[s] = "fresh" /\ sup.up
    /\ launcher' = [launcher EXCEPT ![s] = "up"] /\ service' = [service EXCEPT ![s] = "alive"]
    /\ UNCHANGED <<hostRest, sup, channel, ration>>

\* Its RPC file or its command is refused.
LaunchFails(s) ==
    /\ launcher[s] = "fresh" /\ sup.up /\ Spend("mishaps")
    /\ channel' = [channel EXCEPT ![s] = Append(@, "failed")]
    /\ launcher' = [launcher EXCEPT ![s] = "exit1"]
    /\ UNCHANGED <<hostRest, sup, service>>

\* relay: the line with the ready token.
Announce(s) ==
    /\ launcher[s] = "up" /\ service[s] = "alive" /\ s \notin sup.ready /\ channel[s] = <<>>
    /\ channel' = [channel EXCEPT ![s] = Append(@, "ready")]
    /\ UNCHANGED <<hostRest, sup, launcher, service, ration>>

\* stop: on 'shutdown', SIGTERM or a lost channel; the service gets SIGTERM and, after 20 s, SIGKILL.
StopLaunched(s) ==
    /\ launcher[s] = "up" /\ sup.stopping
    /\ launcher' = [launcher EXCEPT ![s] = "stopping"]
    /\ UNCHANGED <<hostRest, sup, service, channel, ration>>

\* A report of the storage fails, or a line never ends: the launcher stops by itself.
StopsItself(s, says) ==
    /\ launcher[s] = "up" /\ Spend("mishaps")
    /\ launcher' = [launcher EXCEPT ![s] = "stopping"]
    /\ channel' = [channel EXCEPT ![s] = @ \o says]
    /\ UNCHANGED <<hostRest, sup, service>>

\* The service ends: on SIGTERM with 0 or, killed, with 1; it may also die by itself.
Ends(s, code) ==
    /\ service[s] = "alive" /\ launcher[s] = "stopping"
    /\ service' = [service EXCEPT ![s] = code]
    /\ UNCHANGED <<hostRest, sup, launcher, channel, ration>>

Dies(s) ==
    /\ service[s] = "alive" /\ launcher[s] = "up" /\ Spend("mishaps")
    /\ service' = [service EXCEPT ![s] = "exit1"]
    /\ UNCHANGED <<hostRest, sup, launcher, channel>>

\* The close of the service ends its launcher, with 0 only after an asked stop that went well.
Closes(s) ==
    /\ launcher[s] \in {"up", "stopping"} /\ service[s] \in {"exit0", "exit1"}
    /\ channel' = [channel EXCEPT ![s] = Append(@, "closed")]
    /\ launcher' = [launcher EXCEPT ![s] = IF @ = "stopping" /\ service[s] = "exit0" THEN "exit0" ELSE "exit1"]
    /\ UNCHANGED <<hostRest, sup, service, ration>>

\* The launcher is killed; its service, if any, goes on without it.
LauncherKilled(s) ==
    /\ launcher[s] \in {"fresh", "up", "stopping"} /\ Spend("mishaps")
    /\ launcher' = [launcher EXCEPT ![s] = "exit1"]
    /\ UNCHANGED <<hostRest, sup, service, channel>>

\* A service writes to its folder of the volume.
Writes(s) ==
    /\ service[s] = "alive" /\ Spend("writes")
    /\ volume' = [volume EXCEPT ![s] = @ + 1]
    /\ UNCHANGED <<volLease, sup, launcher, service, channel, recovery, snapshots>>

----------------------------------------------------------------------------
(* The supervisor (supervisor.mjs, supervise) *)

\* shutdown: asked once, it tells every launcher; an error is remembered whenever it comes.
shutdown(p, error) == [p EXCEPT !.failed = @ \/ error, !.stopping = TRUE]

\* The volume is in order and below its limit, the lease is new, and the launchers are spawned.
Start ==
    /\ ~sup.up /\ volLease = "free" /\ Spend("starts")
    /\ volLease' = "service"
    /\ sup' = [NotRunning EXCEPT !.up = TRUE]
    /\ launcher' = [s \in Services |-> "fresh"] /\ service' = [s \in Services |-> "none"]
    /\ channel' = [s \in Services |-> <<>>]
    /\ UNCHANGED <<volume, recovery, snapshots>>

\* What follows the lease fails before any launcher is spawned: the lease stays.
StartFails ==
    /\ ~sup.up /\ volLease = "free" /\ Spend("starts")
    /\ volLease' = "left"
    /\ UNCHANGED <<volume, sup, launcher, service, channel, recovery, snapshots>>

\* onReady may throw, which shuts the host down at once; TimersFire has the same effect.
OnReady(s) ==
    /\ sup.up /\ channel[s] # <<>> /\ Head(channel[s]) = "ready"
    /\ channel' = [channel EXCEPT ![s] = Tail(@)]
    /\ sup' = [sup EXCEPT !.ready = @ \cup {s}]
    /\ UNCHANGED <<hostRest, launcher, service, ration>>

OnMessage(s) ==
    /\ sup.up /\ channel[s] # <<>> /\ Head(channel[s]) \in {"failed", "closed"}
    /\ channel' = [channel EXCEPT ![s] = Tail(@)]
    /\ sup' = IF Head(channel[s]) = "failed" THEN shutdown(sup, TRUE) ELSE sup
    /\ UNCHANGED <<hostRest, launcher, service, ration>>

\* Mutant: a launcher that ended with 0 stops nobody.
AfterCloseMutant(s) ==
    LET bad == launcher[s] = "exit1"
    IN [(IF bad THEN shutdown(sup, TRUE) ELSE sup) EXCEPT !.closed = @ \cup {s}]

\* The close of a launcher: any close that was not asked for stops all the others.
AfterClose(s) ==
    LET bad == launcher[s] = "exit1"
    IN [(IF bad \/ ~sup.stopping THEN shutdown(sup, TRUE) ELSE sup) EXCEPT !.closed = @ \cup {s}]

\* Mutant: the lease goes whenever the launchers are gone.
LeaseAfterMutant(p) == "free"

\* onStopped: only a clean stop releases the lease.
LeaseAfter(p) == IF p.failed THEN "left" ELSE "free"

OnClose(s) ==
    /\ sup.up /\ s \notin sup.closed /\ launcher[s] \in {"exit0", "exit1"} /\ channel[s] = <<>>
    /\ sup' = AfterClose(s)
    /\ volLease' = IF sup'.closed = Services THEN LeaseAfter(sup') ELSE volLease
    /\ UNCHANGED <<volume, launcher, service, channel, recovery, snapshots, ration>>

\* SIGTERM or SIGINT.
Signal ==
    /\ sup.up /\ ~sup.stopping
    /\ sup' = shutdown(sup, FALSE)
    /\ UNCHANGED <<hostRest, launcher, service, channel, ration>>

\* 90 s without every service ready; a stale or too large storage report.
TimersFire ==
    /\ sup.up /\ ~sup.stopping /\ Spend("mishaps")
    /\ sup' = shutdown(sup, TRUE)
    /\ UNCHANGED <<hostRest, launcher, service, channel>>

\* PID 1 ends, and all processes with it.
ContainerEnds(lease) ==
    /\ volLease' = lease
    /\ sup' = NotRunning
    /\ launcher' = [s \in Services |-> "none"]
    /\ service' = [s \in Services |-> "none"]
    /\ channel' = [s \in Services |-> <<>>]
    /\ UNCHANGED <<volume, recovery, snapshots>>

Exit == sup.up /\ sup.closed = Services /\ ContainerEnds(volLease) /\ UNCHANGED ration

\* The deadline of the shutdown, 25 s: the supervisor exits and leaves the lease.
ForceExit == sup.up /\ sup.stopping /\ sup.closed # Services /\ ContainerEnds("left") /\ UNCHANGED ration

\* The container is killed, or its host goes down.
ContainerKilled ==
    /\ sup.up /\ Spend("mishaps")
    /\ ContainerEnds(IF volLease = "service" THEN "left" ELSE volLease)

----------------------------------------------------------------------------
(* The recovery command (recovery.mjs) *)

\* snapshot: lease, inventory and hashes of all folders, room for a copy.
SnapshotBegins ==
    /\ recovery.step = "off" /\ volLease = "free" /\ Spend("recoveries")
    /\ volLease' = "recovery"
    /\ recovery' = [step |-> "listing", files |-> <<>>, payload |-> <<>>]
    /\ UNCHANGED <<volume, sup, launcher, service, channel, snapshots>>

ListFolder(s) ==
    /\ recovery.step = "listing" /\ s \notin DOMAIN recovery.files
    /\ recovery' = [recovery EXCEPT !.files = [x \in DOMAIN @ \cup {s} |-> IF x = s THEN volume[s] ELSE @[x]]]
    /\ UNCHANGED <<volLease, volume, sup, launcher, service, channel, snapshots, ration>>

\* copyEntries, the folders of the payload one after the other.
CopyFolder(s) ==
    /\ recovery.step = "listing" /\ DOMAIN recovery.files = Services /\ s \notin DOMAIN recovery.payload
    /\ recovery' = [recovery EXCEPT !.payload = [x \in DOMAIN @ \cup {s} |-> IF x = s THEN volume[s] ELSE @[x]]]
    /\ UNCHANGED <<volLease, volume, sup, launcher, service, channel, snapshots, ration>>

\* The manifest is written, the copy is verified against it, the lease is released.
SnapshotEnds ==
    /\ recovery.step = "listing" /\ DOMAIN recovery.payload = Services
    /\ recovery.payload = recovery.files
    /\ snapshots' = snapshots \cup {recovery.payload}
    /\ volLease' = "free" /\ recovery' = NotCopying
    /\ UNCHANGED <<volume, sup, launcher, service, channel, ration>>

\* restoreCopy: a verified snapshot is copied to a folder of its own, under the lease.
RestoreBegins ==
    /\ recovery.step = "off" /\ volLease = "free" /\ snapshots # {} /\ Spend("recoveries")
    /\ volLease' = "recovery"
    /\ recovery' = [NotCopying EXCEPT !.step = "restoring"]
    /\ UNCHANGED <<volume, sup, launcher, service, channel, snapshots>>

\* The copy is made, or the command refuses: for want of room, a changed file, a full disk.
RecoveryReturns ==
    /\ recovery.step # "off"
    /\ recovery' = NotCopying /\ volLease' = "free"
    /\ UNCHANGED <<volume, sup, launcher, service, channel, snapshots, ration>>

\* The command is killed: its partial folder and its lease stay.
RecoveryKilled ==
    /\ recovery.step # "off" /\ Spend("mishaps")
    /\ recovery' = NotCopying /\ volLease' = "left"
    /\ UNCHANGED <<volume, sup, launcher, service, channel, snapshots>>

\* quarantine-stopped-lease: the operator has made sure that the holder has ended (external).
Quarantine ==
    /\ volLease = "left" /\ ~sup.up /\ recovery.step = "off"
    /\ volLease' = "free"
    /\ UNCHANGED <<volume, sup, launcher, service, channel, recovery, snapshots, ration>>

----------------------------------------------------------------------------
(* Properties *)

\* Whoever can take the volume finds it quiet: while a service is alive, with or without its
\* launcher, the lease is neither free nor with the recovery command (acquireLease, onStopped).
ServicesLeased == (\E s \in Services : service[s] = "alive") => volLease \in {"service", "left"}

\* Nothing moves under a snapshot: what it has listed and copied, folder after folder, is what the
\* volume holds, so a snapshot that verifies is the volume at one moment (snapshot, verifySnapshot).
SnapshotOneMoment ==
    /\ \A s \in DOMAIN recovery.files : recovery.files[s] = volume[s]
    /\ \A s \in DOMAIN recovery.payload : recovery.payload[s] = volume[s]

\* Whoever takes the volume finds it quiet, and what it copies is of one moment.
VolumeSafe == ServicesLeased /\ SnapshotOneMoment

\* One launcher that ends, or a service that dies, brings the whole container down (supervise).
StopsTogether ==
    (sup.up /\ \E s \in Services : launcher[s] \in {"exit0", "exit1"} \/ service[s] \in {"exit0", "exit1"}) ~> ~sup.up

----------------------------------------------------------------------------
HostInit ==
    /\ volLease = "free" /\ volume = [s \in Services |-> 0] /\ sup = NotRunning
    /\ launcher = [s \in Services |-> "none"] /\ service = [s \in Services |-> "none"]
    /\ channel = [s \in Services |-> <<>>]
    /\ recovery = NotCopying /\ snapshots = {} /\ ration \in ContainerBudgets

\* What launchers and the supervisor do by themselves.
Reacts ==
    \/ \E s \in Services :
          Launch(s) \/ StopLaunched(s) \/ Ends(s, "exit0") \/ Ends(s, "exit1") \/ Closes(s) \/ OnReady(s) \/ OnMessage(s) \/ OnClose(s)
    \/ Exit \/ ForceExit

HostNext ==
    \/ Reacts
    \/ Start \/ StartFails \/ Signal \/ TimersFire \/ ContainerKilled
    \/ \E s \in Services :
          \/ LaunchFails(s) \/ Announce(s) \/ StopsItself(s, <<>>) \/ StopsItself(s, <<"failed">>)
          \/ Dies(s) \/ LauncherKilled(s) \/ Writes(s) \/ ListFolder(s) \/ CopyFolder(s)
    \/ SnapshotBegins \/ SnapshotEnds \/ RestoreBegins \/ RecoveryReturns \/ RecoveryKilled \/ Quarantine

HostSpec == HostInit /\ [][HostNext]_hostVars /\ WF_hostVars(Reacts)
=============================================================================
