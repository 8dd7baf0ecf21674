---------------------------- MODULE PermitIssuer ----------------------------
(***************************************************************************)
(* The risk engine of the security model: a strategy runtime signs a       *)
(* decision, the user has signed a grant with a risk policy, and the       *)
(* engine turns both and a snapshot of the account into a permit with the  *)
(* orders a venue may execute.                                             *)
(*                                                                         *)
(* All the checks and the replay store's consume run in one turn of the    *)
(* event loop (MemoryReplayStore awaits nothing), so issuing is one step.  *)
(* A signature is the key that made it; a hash is the value itself (both   *)
(* order the keys of objects, as records have none); text that does not    *)
(* parse is Malformed.                                                     *)
(***************************************************************************)
EXTENDS Integers, Sequences, FiniteSets, Functions

CONSTANTS
    Instruments,
    Grants, Decisions, Releases, Accounts,  \* the inputs that callers offer
    Malformed,      \* an amount or a time that does not parse
    BPS,            \* 10_000
    MaxTime, MaxPermits

\* The shape of what callers offer.
Amount == Int \cup {Malformed}

ASSUME PermitAssumption ==
    /\ Malformed \notin Int
    /\ \A g \in Grants :
          /\ {g.from, g.until} \subseteq Amount /\ g.policy.instruments \subseteq Instruments
          /\ {g.policy.maxPosition, g.policy.maxOrder, g.policy.maxGross, g.policy.maxLoss} \subseteq Amount
          /\ {g.policy.leverage, g.policy.maxAge, g.policy.maxAccountAge, g.policy.skew, g.policy.ttl} \subseteq Nat
    /\ \A d \in Decisions :
          /\ {d.issued, d.expires} \subseteq Amount
          /\ \A n \in DOMAIN d.targets : d.targets[n].amount \in Amount
    /\ \A a \in Accounts : {a.captured, a.equity, a.pnl} \subseteq Amount /\ a.positions \in [Instruments -> Amount]

VARIABLES
    now,        \* the clock of the engine
    seen,       \* #seen of the replay store: the expiry of each consumed key
    permits     \* the permits issued, oldest first

permitVars == <<now, seen, permits>>

----------------------------------------------------------------------------
(* Amounts, times and signatures *)

Abs(n) == IF n < 0 THEN -n ELSE n
parsed(v) == v # Malformed
positive(v) == parsed(v) /\ v > 0
verifySignedPayload(signed, key) == signed.by = key

grossNotional(positions) == FoldFunction(LAMBDA p, sum : Abs(p) + sum, 0, positions)

----------------------------------------------------------------------------
(* What is checked of each input *)

validatePolicy(p) ==
    /\ p.venues # {} /\ p.instruments # {}
    /\ \A limit \in {p.maxPosition, p.maxOrder, p.maxGross, p.maxLoss} : positive(limit)
    /\ p.leverage >= 1 /\ p.ttl <= p.maxAge

validateGrant(g) ==
    /\ parsed(g.from) /\ parsed(g.until) /\ g.from < g.until
    /\ g.from <= now /\ now < g.until
    /\ g.permissions = {"readAccount", "readMarketData", "placeOrders"}
    /\ validatePolicy(g.policy)

validateReleaseBinding(d, r) == <<d.family, d.version, d.measurement>> = <<r.family, r.version, r.measurement>>

validateDecisionBinding(d, g) ==
    /\ d.grant = g.id /\ d.family = g.family
    /\ d.venue \in g.policy.venues
    /\ parsed(d.issued) /\ parsed(d.expires)
    /\ d.issued <= now + g.policy.skew
    /\ now - d.issued <= g.policy.maxAge /\ now < d.expires
    /\ d.issued < d.expires /\ d.expires - d.issued <= g.policy.maxAge

validateAccount(a, g) ==
    /\ a.user = g.user /\ a.venue \in g.policy.venues
    /\ parsed(a.captured) /\ a.captured <= now + g.policy.skew
    /\ now - a.captured <= g.policy.maxAccountAge
    /\ positive(a.equity) /\ parsed(a.pnl)

----------------------------------------------------------------------------
(* The risk of a decision *)

Targets(d) == {d.targets[n].instrument : n \in DOMAIN d.targets}
Target(d, i) == d.targets[CHOOSE n \in DOMAIN d.targets : d.targets[n].instrument = i].amount

\* The positions once every target is reached; the ones the decision does not name stay.
Resulting(d, a) == [i \in Instruments |-> IF i \in Targets(d) THEN Target(d, i) ELSE a.positions[i]]

isReductionOnly(d, a) ==
    \A i \in Targets(d) :
        LET before == a.positions[i]
            after == Target(d, i)
        IN /\ Abs(after) <= Abs(before)
           /\ after # 0 => before # 0 /\ (after > 0) = (before > 0)

\* The checks of evaluateRisk, in which any one refuses the whole decision.
WithinRisk(d, a, p) ==
    LET gross == grossNotional(Resulting(d, a))
    IN /\ d.venue = a.venue /\ \A i \in Instruments : parsed(a.positions[i])
       /\ Cardinality(Targets(d)) = Len(d.targets) /\ Targets(d) \subseteq p.instruments
       /\ \A n \in DOMAIN d.targets : parsed(d.targets[n].amount)
       /\ \A i \in Targets(d) :
              Abs(Target(d, i)) <= p.maxPosition /\ Abs(Target(d, i) - a.positions[i]) <= p.maxOrder
       /\ gross <= p.maxGross
       /\ gross * BPS <= a.equity * p.leverage
       /\ a.pnl <= -p.maxLoss => gross < grossNotional(a.positions) /\ isReductionOnly(d, a)

\* The orders: a target that is reached already needs none.
Orders(d, a) == LET moved == {i \in Targets(d) : Target(d, i) # a.positions[i]}
                IN [i \in moved |-> Target(d, i) - a.positions[i]]

----------------------------------------------------------------------------
(* The replay store *)

Key(d, g, r) == <<g.id, r.version, d.nonce>>

\* Mutant: what a call purges is what may have been issued before this moment.
KeptMutant == {k \in DOMAIN seen : seen[k] > now + 1}

\* What is left of the store when a call at this time has purged it.
Kept == {k \in DOMAIN seen : seen[k] >= now}

\* consume succeeds: the nonce is new.
Consumed(k, expiry) ==
    /\ k \notin Kept
    /\ seen' = [x \in Kept \cup {k} |-> IF x = k THEN expiry ELSE seen[x]]

\* consume refuses, and has purged the store all the same.
Refused(k) == k \in Kept /\ seen' = Restrict(seen, Kept)

----------------------------------------------------------------------------
(* issueExecutionPermit *)

Accepted(g, d, r, a) ==
    /\ verifySignedPayload(g, g.user) /\ validateGrant(g)
    /\ verifySignedPayload(d, r.key) /\ validateReleaseBinding(d, r)
    /\ validateDecisionBinding(d, g) /\ validateAccount(a, g)
    /\ d.policyHash = g.policy
    /\ WithinRisk(d, a, g.policy)

MinOf(S) == CHOOSE n \in S : \A m \in S : n <= m

\* The permit for an accepted decision whose nonce is new.
Permit(g, d, r, a) ==
    [key |-> Key(d, g, r), policy |-> g.policy, account |-> a, decision |-> d, orders |-> Orders(d, a),
     issued |-> now, expires |-> MinOf({d.expires, g.until, now + g.policy.ttl})]

Issue(g, d, r, a) ==
    /\ Accepted(g, d, r, a) /\ Len(permits) < MaxPermits
    /\ Consumed(Key(d, g, r), d.expires)
    /\ permits' = Append(permits, Permit(g, d, r, a))
    /\ UNCHANGED now

\* The engine's own key does not sign: the nonce is used up, and there is no permit.
SigningFails(g, d, r, a) ==
    /\ Accepted(g, d, r, a) /\ Consumed(Key(d, g, r), d.expires)
    /\ UNCHANGED <<now, permits>>

Replay(g, d, r, a) ==
    /\ Accepted(g, d, r, a) /\ Refused(Key(d, g, r))
    /\ UNCHANGED <<now, permits>>

ClockTick ==
    /\ now < MaxTime /\ now' = now + 1
    /\ UNCHANGED <<seen, permits>>

----------------------------------------------------------------------------
(* Properties *)

\* A nonce that the store forgot is used again only when whatever it allowed is over: of two permits
\* with one nonce the first one's decision has expired before the second is issued, so no decision
\* is ever executed twice (consume, validateDecisionBinding).
NonceNotReplayed ==
    \A m, n \in DOMAIN permits :
        m < n /\ permits[m].key = permits[n].key =>
            permits[m].decision.expires < permits[n].issued /\ permits[m].expires < permits[n].issued

\* The positions an account has once the orders are executed.
After(orders, account) ==
    [i \in Instruments |-> account.positions[i] + (IF i \in DOMAIN orders THEN orders[i] ELSE 0)]

InsidePolicy(policy, account, orders) ==
    LET before == account.positions
        after == After(orders, account)
    IN /\ grossNotional(after) <= policy.maxGross
       /\ grossNotional(after) * BPS <= account.equity * policy.leverage
       /\ \A i \in DOMAIN orders : Abs(after[i]) <= policy.maxPosition /\ Abs(orders[i]) <= policy.maxOrder
       /\ account.pnl <= -policy.maxLoss =>
             \A i \in Instruments : after[i] \in IF before[i] < 0 THEN before[i]..0 ELSE 0..before[i]

\* Executing a permit on the account it was made for leaves the portfolio inside the user's policy,
\* with the positions the decision never mentioned; past the daily loss no position grows or turns
\* (evaluateRisk, isReductionOnly).
PermitWithinPolicy ==
    \A n \in DOMAIN permits : InsidePolicy(permits[n].policy, permits[n].account, permits[n].orders)

\* Whatever the callers offer and whenever, a permit stays inside the policy it was issued under and
\* no decision is permitted twice.
PermitsSound == NonceNotReplayed /\ PermitWithinPolicy

----------------------------------------------------------------------------
PermitInit == now = 0 /\ seen = <<>> /\ permits = <<>>

PermitNext ==
    \/ ClockTick
    \/ \E g \in Grants, d \in Decisions, r \in Releases, a \in Accounts :
          Issue(g, d, r, a) \/ SigningFails(g, d, r, a) \/ Replay(g, d, r, a)

PermitSpec == PermitInit /\ [][PermitNext]_permitVars
=============================================================================
