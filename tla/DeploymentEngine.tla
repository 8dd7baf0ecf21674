-------------------------- MODULE DeploymentEngine --------------------------
(***************************************************************************)
(* The deployment engine of tools/launch-market/deployment-execution.mjs:  *)
(* it signs the plan's transactions itself, one at a time, and keeps a row *)
(* per transaction in a database that is synchronised before each step     *)
(* that cannot be taken back.  The process may stop between any two of     *)
(* them.  Deployer and administrator are one account here.                 *)
(***************************************************************************)
EXTENDS DeployChain

CONSTANT EngineBudgets    \* what may happen in a behaviour: see EngineBudget

\* Calls, and how often the process stops, a request fails, the approval expires, the tip is
\* dropped; depth is how many blocks may be taken back at all.
EngineBudget == [calls : Nat, crashes : Nat, fails : Nat, expiries : Nat, drops : Nat, depth : Nat]

ASSUME EngineAssumption == EngineBudgets \subseteq EngineBudget /\ \A b \in EngineBudgets : b.drops <= b.depth

VARIABLES
    rows,        \* deployment_actions: [state, nonce, sig, receipt] per action
    engine,      \* the call in progress: [at, i, nonce, head, receipt, sig]
    signatures,  \* what the signer ever signed: [step, nonce]
    lapsed,      \* the approval or the review has expired
    left

engineVars == <<rows, engine, signatures, lapsed, left>>
executionVars == <<networkVars, engineVars>>

Idle == [at |-> "idle", call |-> "none", i |-> 0, nonce |-> 0, head |-> 0, receipt |-> Nil, sig |-> 0]

Spend(what) == left[what] > 0 /\ left' = [left EXCEPT ![what] = @ - 1]
At(at) == engine.at = at
Goto(at) == engine' = [engine EXCEPT !.at = at]
Return == engine' = Idle

Unconfirmed == {i \in DOMAIN rows : rows[i].state # "CONFIRMED"}
SetState(i, state, receipt) == rows' = [rows EXCEPT ![i].state = state, ![i].receipt = receipt]

\* nonce: the latest and the pending count agree.
NonceCertain == LatestNonce = PendingNonce

----------------------------------------------------------------------------
(* next *)

RecoveryRequired == Unconfirmed # {}

Next_ ==
    /\ At("idle") /\ Spend("calls")
    /\ engine' = IF RecoveryRequired \/ lapsed THEN Idle ELSE [Idle EXCEPT !.at = "canonical", !.call = "next", !.i = 1]
    /\ UNCHANGED <<networkVars, rows, signatures, lapsed>>

\* canonical: the block of every confirmed row, then its receipt.
CheckRow ==
    /\ At("canonical") /\ engine.i <= Len(rows)
    /\ LET row == rows[engine.i]
           known == row.receipt.block <= Height
       IN IF row.state # "CONFIRMED" \/ (known /\ Canonical(row.receipt))
          THEN engine' = [engine EXCEPT !.i = @ + 1] /\ UNCHANGED rows
          ELSE Return /\ IF known THEN SetState(engine.i, "REORGED", row.receipt) ELSE UNCHANGED rows
    /\ UNCHANGED <<networkVars, signatures, lapsed, left>>

\* The next action's nonce follows the previous one's; then admission, nonce and funds again.
Prepare ==
    /\ At("canonical") /\ engine.call = "next" /\ engine.i > Len(rows)
    /\ engine' = IF Len(rows) < PlanLength /\ NonceCertain /\ LatestNonce = Len(rows)
                 THEN [engine EXCEPT !.at = "reserve", !.nonce = LatestNonce] ELSE Idle
    /\ UNCHANGED <<networkVars, rows, signatures, lapsed, left>>

Reserved(nonce) == [state |-> "RESERVED", nonce |-> nonce, sig |-> 0, receipt |-> Nil]

\* The row is committed; the deadline is looked at again before the signer is called.
Reserve ==
    /\ At("reserve")
    /\ IF ~lapsed /\ NonceCertain /\ LatestNonce = engine.nonce
       THEN rows' = Append(rows, Reserved(engine.nonce)) /\ engine' = [engine EXCEPT !.at = "deadline", !.i = Len(rows) + 1]
       ELSE Return /\ UNCHANGED rows
    /\ UNCHANGED <<networkVars, signatures, lapsed, left>>

SigningDeadline ==
    /\ At("deadline")
    /\ IF lapsed THEN Return ELSE Goto("signing")
    /\ UNCHANGED <<networkVars, rows, signatures, lapsed, left>>

Sign ==
    /\ At("signing")
    /\ signatures' = Append(signatures, [step |-> engine.i, nonce |-> engine.nonce])
    /\ engine' = [engine EXCEPT !.at = "signed", !.sig = Len(signatures) + 1]
    /\ UNCHANGED <<networkVars, rows, lapsed, left>>

RecordSignature ==
    /\ At("signed")
    /\ rows' = [rows EXCEPT ![engine.i].state = "SIGNED", ![engine.i].sig = engine.sig]
    /\ Goto("recheck")
    /\ UNCHANGED <<networkVars, signatures, lapsed, left>>

\* Admission, nonce, funds and estimate again; then the deadline and the claim of the send, one stretch.
Claim ==
    /\ At("recheck")
    /\ IF ~lapsed /\ NonceCertain /\ LatestNonce = engine.nonce
       THEN rows' = [rows EXCEPT ![engine.i].state = "BROADCAST_UNCERTAIN"] /\ Goto("send")
       ELSE Return /\ UNCHANGED rows
    /\ UNCHANGED <<networkVars, signatures, lapsed, left>>

\* The claim may have taken long.  Whatever the endpoint answers, the call ends and the row stays.
Send ==
    /\ At("send")
    /\ Return
    /\ IF lapsed THEN UNCHANGED <<txs, pool>>
       ELSE Broadcast([step |-> engine.i, nonce |-> engine.nonce, planned |-> TRUE, sig |-> engine.sig])
    /\ UNCHANGED <<chain, blocks, rows, signatures, lapsed, left>>

----------------------------------------------------------------------------
(* reconcile *)

\* admission without the signing part: the head is read now.
Reconcile ==
    /\ At("idle") /\ Spend("calls")
    /\ engine' = IF \E i \in DOMAIN rows : rows[i].state = "REORGED" THEN Idle
                 ELSE [Idle EXCEPT !.at = "canonical", !.call = "reconcile", !.i = 1, !.head = Height]
    /\ UNCHANGED <<networkVars, rows, signatures, lapsed>>

TransactionOf(row) == {h \in DOMAIN txs : txs[h].sig = row.sig /\ Mined(h)}

\* The receipt of the row that is not confirmed.
ReadReceipt ==
    /\ At("canonical") /\ engine.call = "reconcile" /\ engine.i > Len(rows)
    /\ LET open == Unconfirmed
           i == CHOOSE j \in open : TRUE
       IN IF open = {} \/ rows[i].state \notin {"SIGNED", "BROADCAST_UNCERTAIN"} \/ TransactionOf(rows[i]) = {}
          THEN Return
          ELSE engine' = [engine EXCEPT !.at = "receipt", !.i = i, !.receipt = Receipt(CHOOSE h \in TransactionOf(rows[i]) : TRUE)]
    /\ UNCHANGED <<networkVars, rows, signatures, lapsed, left>>

OnChain(receipt) == receipt.block <= Height /\ Canonical(receipt)

\* Canonical, successful, deep enough: then the contract's state is verified.
Assess ==
    /\ At("receipt")
    /\ LET r == engine.receipt IN
       \/ r.block > Height /\ Return /\ UNCHANGED rows
       \/ r.block <= Height /\ ~Canonical(r) /\ SetState(engine.i, "REORGED", r) /\ Return
       \/ OnChain(r) /\ ~r.ok /\ SetState(engine.i, "REVERTED", r) /\ Return
       \/ OnChain(r) /\ r.ok /\ UNCHANGED rows /\ IF engine.head < r.block + Confirmations THEN Return ELSE Goto("verify")
    /\ UNCHANGED <<networkVars, signatures, lapsed, left>>

\* verifyAction answers, and the head is read once more; or it does not vouch for the row.
Verify ==
    /\ At("verify")
    /\ \/ engine' = [engine EXCEPT !.at = "confirm", !.head = Height] /\ UNCHANGED <<rows, left>>
       \/ Spend("fails") /\ SetState(engine.i, "VERIFICATION_FAILED", engine.receipt) /\ Return
    /\ UNCHANGED <<networkVars, signatures, lapsed>>

\* The block is looked at again after the verification.
Confirm ==
    /\ At("confirm")
    /\ LET r == engine.receipt IN
       \/ r.block > Height /\ UNCHANGED rows
       \/ r.block <= Height /\ ~Canonical(r) /\ SetState(engine.i, "REORGED", r)
       \/ OnChain(r) /\ engine.head < r.block + Confirmations /\ UNCHANGED rows
       \/ OnChain(r) /\ engine.head >= r.block + Confirmations /\ SetState(engine.i, "CONFIRMED", r)
    /\ Return
    /\ UNCHANGED <<networkVars, signatures, lapsed, left>>

----------------------------------------------------------------------------
(* Faults and the network *)

\* A request or the signer fails: the call ends where it stands.
RequestError ==
    /\ engine.at \notin {"idle", "deadline"} /\ Spend("fails")
    /\ Return
    /\ UNCHANGED <<networkVars, rows, signatures, lapsed>>

\* The process stops; the signer or the endpoint may still finish what it was asked.
Crash ==
    /\ ~At("idle") /\ Spend("crashes")
    /\ Return
    /\ \/ UNCHANGED <<txs, pool, signatures>>
       \/ At("signing") /\ signatures' = Append(signatures, [step |-> engine.i, nonce |-> engine.nonce]) /\ UNCHANGED <<txs, pool>>
       \/ At("send") /\ ~lapsed /\ Broadcast([step |-> engine.i, nonce |-> engine.nonce, planned |-> TRUE, sig |-> engine.sig])
          /\ UNCHANGED signatures
    /\ UNCHANGED <<chain, blocks, rows, lapsed>>

Lapse ==
    /\ ~lapsed /\ Spend("expiries")
    /\ lapsed' = TRUE
    /\ UNCHANGED <<networkVars, rows, engine, signatures>>

EngineNetwork ==
    /\ \/ Mine /\ UNCHANGED left
       \/ DropTip /\ Spend("drops")
    /\ UNCHANGED <<rows, engine, signatures, lapsed>>

----------------------------------------------------------------------------
(* What the engine promises *)

\* No step and no nonce is ever signed twice, across failures, crashes and expiries: the
\* reservation is durable before the signer is called and nothing releases it.
SignedOnce ==
    \A p, q \in DOMAIN signatures :
        signatures[p].step = signatures[q].step \/ signatures[p].nonce = signatures[q].nonce => p = q

\* Whatever reached the network is in the journal with its signature, so that reconcile can
\* find it after any crash.
SentIsRecorded == \A h \in DOMAIN txs : \E i \in DOMAIN rows : rows[i].sig = txs[h].sig /\ rows[i].state # "RESERVED"

\* A step is signed only while every earlier one succeeded on the canonical chain, as long as
\* no more than Confirmations blocks are taken back (canonical, reconcile).
SignedOnConfirmedOnly ==
    [][left.depth <= Confirmations /\ Len(signatures') > Len(signatures) => DependenciesMined(signatures'[Len(signatures')].step)]_executionVars

EngineInit ==
    /\ NetworkInit
    /\ rows = <<>> /\ engine = Idle /\ signatures = <<>> /\ lapsed = FALSE
    /\ left \in EngineBudgets

EngineNext ==
    \/ Next_ \/ CheckRow \/ Prepare \/ Reserve \/ SigningDeadline \/ Sign \/ RecordSignature \/ Claim \/ Send
    \/ Reconcile \/ ReadReceipt \/ Assess \/ Verify \/ Confirm
    \/ RequestError \/ Crash \/ Lapse \/ EngineNetwork

EngineSpec == EngineInit /\ [][EngineNext]_executionVars
=============================================================================
