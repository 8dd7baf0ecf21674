------------------------ MODULE PermitAndHostProofs ------------------------
(***************************************************************************)
(* Two components around the executor.                                     *)
(*                                                                         *)
(* PermitsSound holds for every clock, set of inputs and number of         *)
(* permits.  The replay store forgets nonces, so NonceNotReplayed is not   *)
(* inductive: PermitInv adds that whatever was permitted is either still   *)
(* in the store, with its decision's expiry, or over.                      *)
(*                                                                         *)
(* VolumeSafe holds for every set of services and every number of starts,  *)
(* writes, mishaps and recoveries.  A service outlives its launcher, so    *)
(* that the lease is free says nothing by itself: HostInv adds that a      *)
(* clean stop has seen every service end, and that a recovery at work      *)
(* holds the lease.                                                        *)
(***************************************************************************)
EXTENDS PermitIssuer, ContainerHost, TLAPS

----------------------------------------------------------------------------
(* Permits: the inductive invariant *)

Permits ==
    [key : {Key(d, g, r) : d \in Decisions, g \in Grants, r \in Releases},
     policy : {g.policy : g \in Grants}, account : Accounts, decision : Decisions,
     orders : {Orders(d, a) : d \in Decisions, a \in Accounts}, issued : Int, expires : Int]

PermitTypeOK ==
    /\ now \in Int
    /\ permits \in Seq(Permits)
    /\ \A k \in DOMAIN seen : seen[k] \in Int
    /\ \A n \in DOMAIN permits : permits[n].decision.expires \in Int /\ permits[n].expires \in Int

\* What a permit allows ends with its decision.
EndsInTime == \A n \in DOMAIN permits : permits[n].expires <= permits[n].decision.expires

\* The store remembers the nonce of every permit whose decision has not expired.
Remembered(p) == p.key \in DOMAIN seen /\ seen[p.key] >= p.decision.expires
StoreRemembers == \A n \in DOMAIN permits : Remembered(permits[n]) \/ permits[n].decision.expires < now

PermitInv == PermitTypeOK /\ EndsInTime /\ StoreRemembers /\ NonceNotReplayed /\ PermitWithinPolicy

----------------------------------------------------------------------------
(* One permit *)

\* The last permit of a longer list is the new one, and the others stay (issueExecutionPermit).
LEMMA AppendFacts ==
    ASSUME NEW S, NEW s \in Seq(S), NEW e \in S
    PROVE  /\ Append(s, e) \in Seq(S)
           /\ DOMAIN Append(s, e) = DOMAIN s \cup {Len(s) + 1}
           /\ \A n \in DOMAIN s : Append(s, e)[n] = s[n] /\ n \in 1..Len(s)
           /\ Append(s, e)[Len(s) + 1] = e /\ Len(s) \in Nat
OBVIOUS

\* A permit of an accepted decision is well typed and ends with its decision (issueExecutionPermit).
LEMMA PermitType ==
    ASSUME PermitTypeOK, NEW g \in Grants, NEW d \in Decisions, NEW r \in Releases, NEW a \in Accounts,
           Accepted(g, d, r, a)
    PROVE  /\ Permit(g, d, r, a) \in Permits
           /\ Permit(g, d, r, a).expires <= d.expires /\ d.expires \in Int
           /\ Permit(g, d, r, a).expires \in Int
<1>1. d.expires \in Int /\ g.until \in Int /\ g.policy.ttl \in Int
  BY PermitAssumption DEF Accepted, validateDecisionBinding, validateGrant, parsed, Amount
<1>2. now + g.policy.ttl \in Int
  BY <1>1 DEF PermitTypeOK
<1> DEFINE S == {d.expires, g.until, now + g.policy.ttl}
<1>3. \E n \in S : \A m \in S : n <= m
  BY <1>1, <1>2
<1>4. MinOf(S) \in S /\ \A m \in S : MinOf(S) <= m
  BY <1>3 DEF MinOf
<1>5. MinOf(S) \in Int /\ MinOf(S) <= d.expires
  BY <1>1, <1>2, <1>4
<1> QED
  BY <1>1, <1>5 DEF Permit, Permits, PermitTypeOK

\* A target of an accepted decision is a number (parseAmount).
LEMMA TargetType ==
    ASSUME NEW d \in Decisions, NEW a, NEW p, WithinRisk(d, a, p), NEW i \in Targets(d)
    PROVE  Target(d, i) \in Int
<1>1. \E n \in DOMAIN d.targets : d.targets[n].instrument = i
  BY DEF Targets
<1>2. \A n \in DOMAIN d.targets : d.targets[n].amount \in Int
  BY PermitAssumption DEF WithinRisk, parsed, Amount
<1> QED
  BY <1>1, <1>2 DEF Target

\* The orders of an accepted decision lead to the positions that were checked (evaluateRisk).
LEMMA OrdersLeadToTargets ==
    ASSUME NEW d \in Decisions, NEW a \in Accounts, NEW p, WithinRisk(d, a, p)
    PROVE  /\ \A i \in Instruments : a.positions[i] \in Int
           /\ Resulting(d, a) = After(Orders(d, a), a)
           /\ \A i \in DOMAIN Orders(d, a) :
                 i \in Targets(d) /\ Orders(d, a)[i] = Target(d, i) - a.positions[i]
<1>1. \A i \in Instruments : a.positions[i] \in Int
  BY PermitAssumption DEF WithinRisk, parsed, Amount
<1>2. \A i \in Targets(d) : Target(d, i) \in Int
  BY TargetType
<1>3. /\ DOMAIN Orders(d, a) = {i \in Targets(d) : Target(d, i) # a.positions[i]}
      /\ \A i \in DOMAIN Orders(d, a) : Orders(d, a)[i] = Target(d, i) - a.positions[i]
  BY DEF Orders
<1>4. ASSUME NEW i \in Instruments
      PROVE  Resulting(d, a)[i] = a.positions[i] + (IF i \in DOMAIN Orders(d, a) THEN Orders(d, a)[i] ELSE 0)
  BY <1>1, <1>2, <1>3 DEF Resulting
<1> QED
  BY <1>1, <1>3, <1>4 DEF Resulting, After

----------------------------------------------------------------------------
(* The policy *)

\* A position that may only be reduced stays between its value and nothing (isReductionOnly).
LEMMA ReductionBounds ==
    ASSUME NEW b \in Int, NEW t \in Int, Abs(t) <= Abs(b), t # 0 => b # 0 /\ (t > 0) = (b > 0)
    PROVE  t \in IF b < 0 THEN b..0 ELSE 0..b
BY DEF Abs

\* A permit of an accepted decision is inside the policy of its grant (evaluateRisk).
LEMMA AcceptedWithin ==
    ASSUME NEW g \in Grants, NEW d \in Decisions, NEW r \in Releases, NEW a \in Accounts, Accepted(g, d, r, a)
    PROVE  InsidePolicy(g.policy, a, Orders(d, a))
<1> DEFINE after == After(Orders(d, a), a)
<1>2. WithinRisk(d, a, g.policy)
  BY DEF Accepted
<1>3. after = Resulting(d, a) /\ \A i \in Instruments : a.positions[i] \in Int
  BY <1>2, OrdersLeadToTargets
<1>4. grossNotional(after) <= g.policy.maxGross /\ grossNotional(after) * BPS <= a.equity * g.policy.leverage
  BY <1>2, <1>3 DEF WithinRisk
<1>5. ASSUME NEW i \in DOMAIN Orders(d, a)
      PROVE  Abs(after[i]) <= g.policy.maxPosition /\ Abs(Orders(d, a)[i]) <= g.policy.maxOrder
  <2>1. i \in Targets(d) /\ Orders(d, a)[i] = Target(d, i) - a.positions[i]
    BY <1>2, <1>5, OrdersLeadToTargets
  <2>2. i \in Instruments
    BY <2>1, <1>2, PermitAssumption DEF WithinRisk
  <2>3. after[i] = Target(d, i)
    BY <2>1, <2>2, <1>3 DEF Resulting
  <2> QED
    BY <2>1, <2>3, <1>2 DEF WithinRisk
<1>6. ASSUME a.pnl <= -g.policy.maxLoss, NEW i \in Instruments
      PROVE  after[i] \in IF a.positions[i] < 0 THEN a.positions[i]..0 ELSE 0..a.positions[i]
  <2>1. isReductionOnly(d, a)
    BY <1>2, <1>6 DEF WithinRisk
  <2>2. a.positions[i] \in Int
    BY <1>3
  <2>3. CASE i \in Targets(d)
    <3>1. after[i] = Target(d, i) /\ Target(d, i) \in Int
      BY <2>3, <1>2, <1>3, TargetType DEF Resulting
    <3>2. /\ Abs(Target(d, i)) <= Abs(a.positions[i])
          /\ Target(d, i) # 0 => a.positions[i] # 0 /\ (Target(d, i) > 0) = (a.positions[i] > 0)
      BY <2>1, <2>3 DEF isReductionOnly
    <3> QED
      BY <3>1, <3>2, <2>2, ReductionBounds
  <2>4. CASE i \notin Targets(d)
    <3>1. after[i] = a.positions[i]
      BY <2>4, <1>3 DEF Resulting
    <3> QED
      BY <3>1, <2>2
  <2> QED
    BY <2>3, <2>4
<1> QED
  BY <1>4, <1>5, <1>6 DEF InsidePolicy

----------------------------------------------------------------------------
(* The steps *)

\* Purging and consuming keep what StoreRemembers says of the permits issued so far (consume).
LEMMA PurgeRemembers ==
    ASSUME PermitTypeOK, StoreRemembers, NEW n \in DOMAIN permits
    PROVE  \/ permits[n].key \in Kept /\ seen[permits[n].key] >= permits[n].decision.expires
           \/ permits[n].decision.expires < now
BY DEF PermitTypeOK, StoreRemembers, Remembered, Kept

\* Issuing a permit keeps the invariant: a nonce that is new to the store belongs to nothing still
\* permitted (consume, issueExecutionPermit).
LEMMA IssueStep ==
    ASSUME PermitInv, NEW g \in Grants, NEW d \in Decisions, NEW r \in Releases, NEW a \in Accounts,
           Issue(g, d, r, a)
    PROVE  PermitInv'
<1> DEFINE p == Permit(g, d, r, a)
           k == Key(d, g, r)
           last == Len(permits) + 1
<1>1. /\ Accepted(g, d, r, a) /\ Consumed(k, d.expires) /\ permits' = Append(permits, p) /\ now' = now
  BY DEF Issue
<1>2. p \in Permits /\ p.expires <= d.expires /\ {d.expires, p.expires} \subseteq Int
  BY <1>1, PermitType DEF PermitInv
<1>3. /\ p.key = k /\ p.decision = d /\ p.issued = now
      /\ p.policy = g.policy /\ p.account = a /\ p.orders = Orders(d, a)
  BY DEF Permit
<1> HIDE DEF p, k
<1>4. /\ permits' \in Seq(Permits) /\ DOMAIN permits' = DOMAIN permits \cup {last}
      /\ \A n \in DOMAIN permits : permits'[n] = permits[n] /\ n < last /\ n \in Int
      /\ permits'[last] = p /\ last \in Int /\ last \notin DOMAIN permits
  <2>1. permits \in Seq(Permits)
    BY DEF PermitInv, PermitTypeOK
  <2> QED
    BY <1>1, <1>2, <2>1, AppendFacts
<1> HIDE DEF last
<1>5. /\ k \notin Kept /\ k \in DOMAIN seen' /\ seen'[k] = d.expires /\ Kept \subseteq DOMAIN seen
      /\ \A x \in Kept : x \in DOMAIN seen' /\ seen'[x] = seen[x]
      /\ \A x \in DOMAIN seen' : x = k \/ x \in Kept
  BY <1>1 DEF Consumed, Kept
<1>6. PermitTypeOK'
  <2>1. \A x \in DOMAIN seen' : seen'[x] \in Int
    BY <1>2, <1>5 DEF PermitInv, PermitTypeOK
  <2> QED
    BY <1>1, <1>2, <1>3, <1>4, <2>1 DEF PermitInv, PermitTypeOK
<1>7. EndsInTime'
  BY <1>2, <1>3, <1>4 DEF PermitInv, EndsInTime
<1>8. StoreRemembers'
  <2>1. ASSUME NEW n \in DOMAIN permits
        PROVE  \/ permits[n].key \in DOMAIN seen' /\ seen'[permits[n].key] >= permits[n].decision.expires
               \/ permits[n].decision.expires < now
    BY <1>5, PurgeRemembers DEF PermitInv
  <2>2. p.key \in DOMAIN seen' /\ seen'[p.key] >= p.decision.expires
    BY <1>2, <1>3, <1>5
  <2> QED
    BY <1>1, <1>4, <2>1, <2>2 DEF StoreRemembers, Remembered
<1>9. NonceNotReplayed'
  <2>1. ASSUME NEW n \in DOMAIN permits, permits[n].key = k
        PROVE  permits[n].decision.expires < now /\ permits[n].expires < now
    <3>1. permits[n].decision.expires < now
      BY <1>5, <2>1, PurgeRemembers DEF PermitInv
    <3>2. permits[n].expires <= permits[n].decision.expires /\ permits[n].expires \in Int
          /\ permits[n].decision.expires \in Int /\ now \in Int
      BY DEF PermitInv, EndsInTime, PermitTypeOK
    <3> QED
      BY <3>1, <3>2
  <2>2. SUFFICES ASSUME NEW i \in DOMAIN permits', NEW j \in DOMAIN permits', i < j, permits'[i].key = permits'[j].key
                 PROVE  permits'[i].decision.expires < permits'[j].issued /\ permits'[i].expires < permits'[j].issued
    BY DEF NonceNotReplayed
  <2>3. i \in DOMAIN permits
    BY <1>4, <2>2
  <2>4. CASE j \in DOMAIN permits
    BY <1>4, <2>2, <2>3, <2>4 DEF PermitInv, NonceNotReplayed
  <2>5. CASE j = last
    BY <1>3, <1>4, <2>1, <2>2, <2>3, <2>5
  <2> QED
    BY <1>4, <2>4, <2>5
<1>10. PermitWithinPolicy'
  <2>1. InsidePolicy(p.policy, p.account, p.orders)
    BY <1>1, <1>3, AcceptedWithin
  <2> QED
    BY <1>4, <2>1 DEF PermitInv, PermitWithinPolicy
<1> QED
  BY <1>6, <1>7, <1>8, <1>9, <1>10 DEF PermitInv

\* A step that only purges, consumes or waits keeps the invariant (consume).
LEMMA QuietStep ==
    ASSUME PermitInv, permits' = permits, now' \in Int, now <= now',
           \A x \in DOMAIN seen' : seen'[x] \in Int,
           \A x \in Kept : x \in DOMAIN seen' /\ (x \in DOMAIN seen => seen'[x] = seen[x])
    PROVE  PermitInv'
<1>1. StoreRemembers'
  <2>1. ASSUME NEW n \in DOMAIN permits
        PROVE  Remembered(permits[n])' \/ permits[n].decision.expires < now'
    <3>1. Kept \subseteq DOMAIN seen
      BY DEF Kept
    <3>2. CASE permits[n].key \in Kept /\ seen[permits[n].key] >= permits[n].decision.expires
      BY <3>1, <3>2 DEF Remembered
    <3>3. CASE permits[n].decision.expires < now
      BY <3>3 DEF PermitInv, PermitTypeOK
    <3> QED
      BY <3>2, <3>3, PurgeRemembers DEF PermitInv
  <2> QED
    BY <2>1 DEF StoreRemembers, Remembered
<1>2. PermitTypeOK' /\ EndsInTime' /\ NonceNotReplayed' /\ PermitWithinPolicy'
  BY DEF PermitInv, PermitTypeOK, EndsInTime, NonceNotReplayed, PermitWithinPolicy
<1> QED
  BY <1>1, <1>2 DEF PermitInv

LEMMA PermitInductive == PermitInv /\ [PermitNext]_permitVars => PermitInv'
<1> SUFFICES ASSUME PermitInv, [PermitNext]_permitVars
             PROVE  PermitInv'
  OBVIOUS
<1>0. now \in Int /\ \A x \in DOMAIN seen : seen[x] \in Int
  BY DEF PermitInv, PermitTypeOK
<1>1. CASE ClockTick
  BY <1>0, <1>1, QuietStep DEF ClockTick, Kept
<1>2. ASSUME NEW g \in Grants, NEW d \in Decisions, NEW r \in Releases, NEW a \in Accounts, Issue(g, d, r, a)
      PROVE  PermitInv'
  BY <1>2, IssueStep
<1>3. ASSUME NEW g \in Grants, NEW d \in Decisions, NEW r \in Releases, NEW a \in Accounts, SigningFails(g, d, r, a)
      PROVE  PermitInv'
  <2>1. d.expires \in Int
    BY <1>3, PermitType DEF SigningFails, PermitInv
  <2>2. /\ \A x \in DOMAIN seen' : seen'[x] \in Int
        /\ \A x \in Kept : x \in DOMAIN seen' /\ (x \in DOMAIN seen => seen'[x] = seen[x])
    BY <1>0, <1>3, <2>1 DEF SigningFails, Consumed, Kept
  <2> QED
    BY <1>0, <1>3, <2>2, QuietStep DEF SigningFails
<1>4. ASSUME NEW g \in Grants, NEW d \in Decisions, NEW r \in Releases, NEW a \in Accounts, Replay(g, d, r, a)
      PROVE  PermitInv'
  <2>1. /\ \A x \in DOMAIN seen' : seen'[x] \in Int
        /\ \A x \in Kept : x \in DOMAIN seen' /\ (x \in DOMAIN seen => seen'[x] = seen[x])
    BY <1>0, <1>4 DEF Replay, Refused, Restrict, Kept
  <2> QED
    BY <1>0, <1>4, <2>1, QuietStep DEF Replay
<1>5. CASE UNCHANGED permitVars
  BY <1>0, <1>5, QuietStep DEF permitVars, Kept
<1> QED
  BY <1>1, <1>2, <1>3, <1>4, <1>5 DEF PermitNext

\* For every clock, policy, account and sequence of calls, no decision is permitted twice and every
\* permit stays inside the policy it was issued under (issueExecutionPermit, MemoryReplayStore).
THEOREM PermitsCorrect == PermitSpec => []PermitsSound
<1>1. PermitInit => PermitInv
  BY DEF PermitInit, PermitInv, PermitTypeOK, EndsInTime, StoreRemembers, NonceNotReplayed, PermitWithinPolicy
<1>2. PermitInv => PermitsSound
  BY DEF PermitInv, PermitsSound
<1> QED
  BY <1>1, <1>2, PermitInductive, PTL DEF PermitSpec

----------------------------------------------------------------------------
(* The host: the inductive invariant *)

Supervisors == [up : BOOLEAN, stopping : BOOLEAN, failed : BOOLEAN, ready : SUBSET Services, closed : SUBSET Services]

HostTypeOK ==
    /\ sup \in Supervisors
    /\ launcher \in [Services -> {"none", "fresh", "up", "stopping", "exit0", "exit1"}]
    /\ service \in [Services -> {"none", "alive", "exit0", "exit1"}]
    /\ recovery = [step |-> recovery.step, files |-> recovery.files, payload |-> recovery.payload]

\* The supervisor has the lease until the last launcher is gone, and nothing runs without it.
SupervisorHolds ==
    /\ sup.up /\ sup.closed # Services => volLease = "service"
    /\ ~sup.up => \A s \in Services : service[s] # "alive"

\* A launcher that closed has ended; it ended well only after its service, and otherwise the stop failed.
ClosedEnded ==
    /\ \A s \in Services : launcher[s] = "exit0" => service[s] = "exit0"
    /\ \A s \in sup.closed : launcher[s] = "exit0" \/ (launcher[s] = "exit1" /\ sup.failed)

\* A recovery at work holds the lease, and keeps nothing when it is over.
RecoveryHolds ==
    /\ recovery.step # "off" => volLease = "recovery"
    /\ recovery.step = "off" => recovery = NotCopying

HostInv == HostTypeOK /\ SupervisorHolds /\ ClosedEnded /\ RecoveryHolds /\ VolumeSafe

----------------------------------------------------------------------------
(* Launchers and services *)

\* What a launcher or a service does while the supervisor and the volume stay as they are (worker.mjs).
LEMMA LauncherStep ==
    ASSUME HostInv, UNCHANGED <<hostRest, sup>>, NEW s \in Services,
           launcher' \in [Services -> {"none", "fresh", "up", "stopping", "exit0", "exit1"}],
           service' \in [Services -> {"none", "alive", "exit0", "exit1"}],
           \A x \in Services \ {s} : launcher'[x] = launcher[x] /\ service'[x] = service[x],
           launcher'[s] = launcher[s] \/ launcher[s] \notin {"exit0", "exit1"},
           launcher'[s] = "exit0" => service'[s] = "exit0",
           service'[s] = "alive" => service[s] = "alive" \/ (sup.up /\ launcher[s] = "fresh")
    PROVE  HostInv'
<1>1. UNCHANGED <<volLease, volume, recovery, snapshots, sup>>
  BY DEF hostRest
<1>2. HostTypeOK' /\ RecoveryHolds'
  BY <1>1 DEF HostInv, HostTypeOK, RecoveryHolds
<1>3. ClosedEnded'
  BY <1>1 DEF HostInv, HostTypeOK, ClosedEnded, Supervisors
<1>4. service'[s] = "alive" /\ service[s] # "alive" => sup.up /\ volLease = "service"
  <2>1. launcher[s] = "fresh" => s \notin sup.closed
    BY DEF HostInv, ClosedEnded
  <2> QED
    BY <2>1 DEF HostInv, SupervisorHolds
<1>5. SupervisorHolds' /\ ServicesLeased'
  BY <1>1, <1>4 DEF HostInv, SupervisorHolds, VolumeSafe, ServicesLeased
<1>6. SnapshotOneMoment'
  BY <1>1 DEF HostInv, VolumeSafe, SnapshotOneMoment
<1> QED
  BY <1>2, <1>3, <1>5, <1>6 DEF HostInv, VolumeSafe

LEMMA LauncherKeeps ==
    ASSUME HostInv, NEW s \in Services,
           \/ Launch(s) \/ LaunchFails(s) \/ Announce(s) \/ StopLaunched(s)
           \/ \E says \in {<<>>, <<"failed">>} : StopsItself(s, says)
           \/ Ends(s, "exit0") \/ Ends(s, "exit1") \/ Dies(s) \/ Closes(s) \/ LauncherKilled(s)
    PROVE  HostInv'
<1>0. /\ launcher \in [Services -> {"none", "fresh", "up", "stopping", "exit0", "exit1"}]
      /\ service \in [Services -> {"none", "alive", "exit0", "exit1"}]
      /\ launcher[s] = "exit0" => service[s] = "exit0"
  BY DEF HostInv, HostTypeOK, ClosedEnded
<1>1. CASE Launch(s)
  BY <1>0, <1>1, LauncherStep DEF Launch
<1>2. CASE LaunchFails(s) \/ LauncherKilled(s)
  BY <1>0, <1>2, LauncherStep DEF LaunchFails, LauncherKilled
<1>3. CASE Announce(s)
  BY <1>0, <1>3, LauncherStep DEF Announce
<1>4. CASE StopLaunched(s) \/ \E says \in {<<>>, <<"failed">>} : StopsItself(s, says)
  BY <1>0, <1>4, LauncherStep DEF StopLaunched, StopsItself
<1>5. CASE Ends(s, "exit0") \/ Ends(s, "exit1") \/ Dies(s)
  BY <1>0, <1>5, LauncherStep DEF Ends, Dies
<1>6. CASE Closes(s)
  BY <1>0, <1>6, LauncherStep DEF Closes
<1> QED
  BY <1>1, <1>2, <1>3, <1>4, <1>5, <1>6

\* A service writes: it is alive, so no recovery is at work.
LEMMA WritesKeeps ==
    ASSUME HostInv, NEW s \in Services, Writes(s)
    PROVE  HostInv'
<1>1. UNCHANGED <<volLease, sup, launcher, service, recovery>> /\ service[s] = "alive"
  BY DEF Writes
<1>2. recovery = NotCopying
  BY <1>1 DEF HostInv, VolumeSafe, ServicesLeased, RecoveryHolds
<1>3. SnapshotOneMoment'
  BY <1>1, <1>2 DEF SnapshotOneMoment, NotCopying
<1> QED
  BY <1>1, <1>3 DEF HostInv, HostTypeOK, SupervisorHolds, ClosedEnded, RecoveryHolds, VolumeSafe, ServicesLeased

----------------------------------------------------------------------------
(* The supervisor *)

\* The supervisor notes something while the lease stays (supervise).
LEMMA SupervisorNotes ==
    ASSUME HostInv, UNCHANGED <<hostRest, launcher, service>>, sup' \in Supervisors,
           sup'.up = sup.up, sup'.closed = sup.closed, sup.failed => sup'.failed
    PROVE  HostInv'
<1>1. UNCHANGED <<volLease, volume, recovery, snapshots>>
  BY DEF hostRest
<1> QED
  BY <1>1 DEF HostInv, HostTypeOK, SupervisorHolds, ClosedEnded, RecoveryHolds, VolumeSafe, ServicesLeased, SnapshotOneMoment

LEMMA SupervisorKeeps ==
    ASSUME HostInv,
           \/ \E s \in Services : OnReady(s) \/ OnMessage(s)
           \/ Signal \/ TimersFire
    PROVE  HostInv'
<1>0. sup \in Supervisors
  BY DEF HostInv, HostTypeOK
<1>1. ASSUME NEW error \in BOOLEAN
      PROVE  /\ shutdown(sup, error) \in Supervisors /\ shutdown(sup, error).up = sup.up
             /\ shutdown(sup, error).closed = sup.closed /\ (sup.failed => shutdown(sup, error).failed)
  BY <1>0 DEF shutdown, Supervisors
<1>2. ASSUME NEW s \in Services, OnReady(s)
      PROVE  HostInv'
  <2>1. UNCHANGED <<hostRest, launcher, service>> /\ sup' = [sup EXCEPT !.ready = @ \cup {s}]
    BY <1>2 DEF OnReady
  <2>2. sup' \in Supervisors /\ sup'.up = sup.up /\ sup'.closed = sup.closed /\ sup'.failed = sup.failed
    BY <1>0, <2>1 DEF Supervisors
  <2> QED
    BY <2>1, <2>2, SupervisorNotes
<1>3. ASSUME NEW s \in Services, OnMessage(s)
      PROVE  HostInv'
  <2>1. UNCHANGED <<hostRest, launcher, service>> /\ sup' \in {sup, shutdown(sup, TRUE)}
    BY <1>3 DEF OnMessage
  <2> QED
    BY <1>0, <1>1, <2>1, SupervisorNotes
<1>4. CASE Signal
  BY <1>1, <1>4, SupervisorNotes DEF Signal
<1>5. CASE TimersFire
  BY <1>1, <1>5, SupervisorNotes DEF TimersFire
<1> QED
  BY <1>2, <1>3, <1>4, <1>5

\* The close of a launcher: the last one frees the lease only when every service has ended.
LEMMA OnCloseKeeps ==
    ASSUME HostInv, NEW s \in Services, OnClose(s)
    PROVE  HostInv'
<1>0. /\ sup \in Supervisors /\ sup.up /\ s \notin sup.closed /\ launcher[s] \in {"exit0", "exit1"}
      /\ UNCHANGED <<volume, launcher, service, recovery>>
  BY DEF HostInv, HostTypeOK, OnClose
<1>1. sup' = [(IF launcher[s] = "exit1" \/ ~sup.stopping THEN [sup EXCEPT !.failed = @ \/ TRUE, !.stopping = TRUE] ELSE sup)
                 EXCEPT !.closed = @ \cup {s}]
  BY DEF OnClose, AfterClose, shutdown
<1>2. /\ sup' \in Supervisors /\ sup'.up = sup.up /\ sup'.closed = sup.closed \cup {s}
      /\ (sup.failed => sup'.failed) /\ (launcher[s] = "exit1" => sup'.failed)
  BY <1>0, <1>1 DEF Supervisors
<1>3. volLease = "service" /\ recovery.step = "off"
  BY <1>0 DEF HostInv, SupervisorHolds, RecoveryHolds, Supervisors
<1>4. ClosedEnded'
  BY <1>0, <1>2 DEF HostInv, ClosedEnded
<1>5. CASE sup'.closed = Services
  <2>1. volLease' = IF sup'.failed THEN "left" ELSE "free"
    BY <1>5 DEF OnClose, LeaseAfter
  <2>2. ~sup'.failed => \A x \in Services : service'[x] = "exit0"
    BY <1>4, <1>5 DEF ClosedEnded
  <2>3. ServicesLeased'
    BY <2>1, <2>2 DEF ServicesLeased
  <2> QED
    BY <1>0, <1>2, <1>3, <1>4, <1>5, <2>3
    DEF HostInv, HostTypeOK, SupervisorHolds, RecoveryHolds, VolumeSafe, SnapshotOneMoment
<1>6. CASE sup'.closed # Services
  <2>1. volLease' = volLease
    BY <1>6 DEF OnClose
  <2> QED
    BY <1>0, <1>2, <1>3, <1>4, <2>1
    DEF HostInv, HostTypeOK, SupervisorHolds, RecoveryHolds, VolumeSafe, ServicesLeased, SnapshotOneMoment
<1> QED
  BY <1>5, <1>6

\* The container comes and goes: nothing of it is alive at either moment.
LEMMA ContainerStep ==
    ASSUME HostInv, UNCHANGED <<volume, recovery>>, sup' \in Supervisors, sup'.closed = {},
           launcher' \in [Services -> {"none", "fresh"}], service' = [x \in Services |-> "none"],
           sup'.up => volLease' = "service", recovery.step # "off" => volLease' = "recovery"
    PROVE  HostInv'
<1>1. HostTypeOK' /\ ClosedEnded'
  BY DEF HostInv, HostTypeOK, ClosedEnded
<1>2. SupervisorHolds' /\ ServicesLeased'
  BY DEF SupervisorHolds, ServicesLeased
<1>3. RecoveryHolds' /\ SnapshotOneMoment'
  BY DEF HostInv, RecoveryHolds, VolumeSafe, SnapshotOneMoment
<1> QED
  BY <1>1, <1>2, <1>3 DEF HostInv, VolumeSafe

LEMMA ContainerKeeps ==
    ASSUME HostInv, Start \/ StartFails \/ Exit \/ ForceExit \/ ContainerKilled
    PROVE  HostInv'
<1>0. /\ NotRunning \in Supervisors /\ NotRunning.closed = {} /\ ~NotRunning.up
      /\ [NotRunning EXCEPT !.up = TRUE] \in Supervisors /\ [NotRunning EXCEPT !.up = TRUE].closed = {}
  BY DEF NotRunning, Supervisors
<1>1. CASE Start
  <2>1. recovery.step = "off"
    BY <1>1 DEF Start, HostInv, RecoveryHolds
  <2> QED
    BY <1>0, <1>1, <2>1, ContainerStep DEF Start
<1>2. CASE StartFails
  <2>1. UNCHANGED <<volume, sup, launcher, service, recovery>> /\ ~sup.up /\ volLease = "free" /\ volLease' = "left"
    BY <1>2 DEF StartFails
  <2> QED
    BY <2>1 DEF HostInv, HostTypeOK, SupervisorHolds, ClosedEnded, RecoveryHolds, VolumeSafe, ServicesLeased, SnapshotOneMoment
<1>3. ASSUME NEW lease, ContainerEnds(lease), recovery.step # "off" => lease = "recovery"
      PROVE  HostInv'
  BY <1>0, <1>3, ContainerStep DEF ContainerEnds
<1>4. CASE Exit
  BY <1>3, <1>4 DEF Exit, HostInv, RecoveryHolds
<1>5. CASE ForceExit
  BY <1>3, <1>5 DEF ForceExit, HostInv, RecoveryHolds, SupervisorHolds
<1>6. CASE ContainerKilled
  BY <1>3, <1>6 DEF ContainerKilled, HostInv, RecoveryHolds
<1> QED
  BY <1>1, <1>2, <1>4, <1>5, <1>6

----------------------------------------------------------------------------
(* The recovery command *)

LEMMA RecoveryStep ==
    ASSUME HostInv, UNCHANGED <<volume, sup, launcher, service>>,
           recovery' = [step |-> recovery'.step, files |-> recovery'.files, payload |-> recovery'.payload],
           RecoveryHolds', SnapshotOneMoment',
           volLease' = volLease \/ volLease \in {"free", "recovery"} \/ (volLease = "left" /\ ~sup.up)
    PROVE  HostInv'
<1>1. HostTypeOK' /\ ClosedEnded'
  BY DEF HostInv, HostTypeOK, ClosedEnded
<1>2. SupervisorHolds'
  BY DEF HostInv, SupervisorHolds
<1>3. ServicesLeased'
  BY DEF HostInv, SupervisorHolds, VolumeSafe, ServicesLeased
<1> QED
  BY <1>1, <1>2, <1>3 DEF HostInv, VolumeSafe

LEMMA RecoveryKeeps ==
    ASSUME HostInv,
           \/ SnapshotBegins \/ SnapshotEnds \/ RestoreBegins \/ RecoveryReturns \/ RecoveryKilled \/ Quarantine
           \/ \E s \in Services : ListFolder(s) \/ CopyFolder(s)
    PROVE  HostInv'
<1>0. /\ RecoveryHolds /\ SnapshotOneMoment
      /\ recovery = [step |-> recovery.step, files |-> recovery.files, payload |-> recovery.payload]
  BY DEF HostInv, HostTypeOK, VolumeSafe
<1>1. CASE SnapshotBegins \/ RestoreBegins
  <2>1. /\ recovery' \in {[step |-> t, files |-> <<>>, payload |-> <<>>] : t \in {"listing", "restoring"}}
        /\ volLease' = "recovery" /\ volLease = "free" /\ UNCHANGED <<volume, sup, launcher, service>>
    BY <1>1 DEF SnapshotBegins, RestoreBegins, NotCopying
  <2>2. RecoveryHolds' /\ SnapshotOneMoment'
    BY <2>1 DEF RecoveryHolds, SnapshotOneMoment
  <2> QED
    BY <2>1, <2>2, RecoveryStep
<1>2. CASE SnapshotEnds \/ RecoveryReturns \/ RecoveryKilled
  <2>1. recovery.step # "off" /\ recovery' = NotCopying /\ UNCHANGED <<volume, sup, launcher, service>>
    BY <1>2 DEF SnapshotEnds, RecoveryReturns, RecoveryKilled
  <2>2. RecoveryHolds' /\ SnapshotOneMoment' /\ volLease = "recovery"
    BY <1>0, <2>1 DEF RecoveryHolds, SnapshotOneMoment, NotCopying
  <2> QED
    BY <2>1, <2>2, RecoveryStep DEF NotCopying
<1>3. CASE Quarantine
  <2>1. /\ recovery.step = "off" /\ UNCHANGED <<recovery, volume, sup, launcher, service>> /\ volLease = "left" /\ ~sup.up
    BY <1>3 DEF Quarantine
  <2>2. RecoveryHolds' /\ SnapshotOneMoment'
    BY <1>0, <2>1 DEF RecoveryHolds, SnapshotOneMoment
  <2> QED
    BY <1>0, <2>1, <2>2, RecoveryStep
<1>4. ASSUME NEW s \in Services, ListFolder(s) \/ CopyFolder(s)
      PROVE  HostInv'
  <2>1. /\ recovery.step = "listing" /\ UNCHANGED <<volLease, volume, sup, launcher, service>>
    BY <1>4 DEF ListFolder, CopyFolder
  <2>2. /\ recovery' = [step |-> recovery'.step, files |-> recovery'.files, payload |-> recovery'.payload]
        /\ recovery'.step = recovery.step
        /\ \A x \in DOMAIN recovery'.files : recovery'.files[x] = volume[x]
        /\ \A x \in DOMAIN recovery'.payload : recovery'.payload[x] = volume[x]
    <3>1. CASE ListFolder(s)
      <4>1. PICK files : files = [x \in DOMAIN recovery.files \cup {s} |-> IF x = s THEN volume[s] ELSE recovery.files[x]]
        OBVIOUS
      <4>2. recovery' = [step |-> recovery.step, files |-> files, payload |-> recovery.payload]
        BY <1>0, <3>1, <4>1 DEF ListFolder
      <4> QED
        BY <1>0, <4>1, <4>2 DEF SnapshotOneMoment
    <3>2. CASE CopyFolder(s)
      <4>1. PICK files : files = [x \in DOMAIN recovery.payload \cup {s} |-> IF x = s THEN volume[s] ELSE recovery.payload[x]]
        OBVIOUS
      <4>2. recovery' = [step |-> recovery.step, files |-> recovery.files, payload |-> files]
        BY <1>0, <3>2, <4>1 DEF CopyFolder
      <4> QED
        BY <1>0, <4>1, <4>2 DEF SnapshotOneMoment
    <3> QED
      BY <1>4, <3>1, <3>2
  <2>3. RecoveryHolds' /\ SnapshotOneMoment'
    BY <1>0, <2>1, <2>2 DEF RecoveryHolds, SnapshotOneMoment
  <2> QED
    BY <2>1, <2>2, <2>3, RecoveryStep
<1> QED
  BY <1>1, <1>2, <1>3, <1>4

----------------------------------------------------------------------------

\* For every set of services, however launchers, services, the supervisor and the recovery command
\* end, whoever takes the volume finds it quiet and copies one moment of it (supervise, recover).
THEOREM VolumeIsSafe == HostSpec => []VolumeSafe
<1>1. HostInit => HostInv
  BY DEF HostInit, HostInv, HostTypeOK, SupervisorHolds, ClosedEnded, RecoveryHolds, VolumeSafe, ServicesLeased,
         SnapshotOneMoment, NotRunning, NotCopying, Supervisors
<1>2. HostInv /\ [HostNext]_hostVars => HostInv'
  <2> SUFFICES ASSUME HostInv, [HostNext]_hostVars
               PROVE  HostInv'
    OBVIOUS
  <2>1. CASE HostNext
    BY <2>1, LauncherKeeps, WritesKeeps, SupervisorKeeps, OnCloseKeeps, ContainerKeeps, RecoveryKeeps DEF HostNext, Reacts
  <2>2. CASE UNCHANGED hostVars
    BY <2>2 DEF hostVars, HostInv, HostTypeOK, SupervisorHolds, ClosedEnded, RecoveryHolds, VolumeSafe, ServicesLeased,
                SnapshotOneMoment
  <2> QED
    BY <2>1, <2>2
<1> QED
  BY <1>1, <1>2, PTL DEF HostSpec, HostInv
============================================================================
