-------------------------- MODULE ReferenceCaptures --------------------------
(***************************************************************************)
(* The collectors of reference prices (packages/market-data/src): captures *)
(* of one asset or batches of several, each from three documents that the  *)
(* provider serves without any snapshot between them, appended to a        *)
(* journal of immutable rows until a stop, a refusal or too many failures. *)
(*                                                                         *)
(* The captures of a batch run side by side; a step is one document with   *)
(* what the code does before it asks for the next one.  The clock is the   *)
(* machine's and may be set back.                                          *)
(***************************************************************************)
EXTENDS Integers, Sequences

CONSTANTS
    Selections,      \* the assets of the policy
    Multipliers,     \* token units per share, from the registry
    Unresolved,      \* an asset that is inactive, missing or between two multipliers
    MaxQuoteAge, MaxQuoteSkew, MaxCaptureSpan,   \* the policy
    RejectionLimit,  \* maxConsecutiveRejections
    CollectBudgets   \* batch or single asset, and bounds: rounds, runs, ticks, changes, faults, clock set back

VARIABLES
    wall,        \* now()
    assets,      \* what the registry says of each asset
    round,       \* captureReferenceBatch or captureReference in progress
    collector,   \* [status, consecutive, run, stop]: collectReferenceBatches, collectReferences
    captured,    \* the journal's rows
    means        \* what may still happen

ASSUME CaptureAssumption ==
    /\ {MaxQuoteAge, MaxQuoteSkew, MaxCaptureSpan} \subseteq Nat /\ RejectionLimit \in Nat \ {0}
    /\ CollectBudgets \subseteq [batch : BOOLEAN, of : SUBSET Selections, rounds : Nat, runs : Nat, ticks : Nat,
                                 changes : Nat, faults : Nat, back : Nat]

captureVars == <<wall, assets, round, collector, captured, means>>

Unread == [pc |-> "first", before |-> Unresolved, after |-> Unresolved, at |-> 0, since |-> 0, received |-> 0,
           held |-> "same", quoted |-> Unresolved]
Rejected == [Unread EXCEPT !.pc = "rejected"]
NoRound == [started |-> 0, gone |-> {}, of |-> [s \in Selections |-> Unread]]

\* collectReferenceBatches has the policy's assets, collectReferences has one.
Members == means.of
Running == collector.status = "capturing"
UseMeans(what) == means[what] > 0 /\ means' = [means EXCEPT ![what] = @ - 1]
Member(s, c) == round' = [round EXCEPT !.of[s] = c]

----------------------------------------------------------------------------
(* One capture *)

\* captureReference reads the registry, the quote and the registry again; abortable ends it as soon
\* as a signal is given.
ReadRegistry(s) ==
    LET c == round.of[s] IN
    /\ Running /\ round.gone = {} /\ c.pc = "first"
    /\ Member(s, [c EXCEPT !.pc = "quote", !.before = assets[s], !.since = wall, !.received = wall])
    /\ UNCHANGED <<wall, assets, collector, captured, means>>

\* CLOCK_REGRESSION; the quote has its own time, which may be any.
ReadQuote(s, at) ==
    LET c == round.of[s] IN
    /\ Running /\ round.gone = {} /\ c.pc = "quote" /\ wall >= c.received
    /\ Member(s, [c EXCEPT !.pc = "last", !.at = at, !.received = wall, !.quoted = assets[s]])
    /\ UNCHANGED <<wall, assets, collector, captured, means>>

\* The registry is not compared.
SameObservationMutant(c) == c.before \in Multipliers

\* REGISTRY_CHANGED_DURING_CAPTURE, MULTIPLIER_TRANSITION_UNRESOLVED, ASSET_INACTIVE
SameObservation(c) == c.before \in Multipliers /\ c.before = c.after

\* normalizeReference: neither old nor of the future when the last document arrived.
QuoteFresh(c) == c.at <= c.received /\ c.received - c.at <= MaxQuoteAge

ReadAgain(s) ==
    LET c == [round.of[s] EXCEPT !.after = assets[s], !.received = wall] IN
    /\ Running /\ round.gone = {} /\ c.pc = "last"
    /\ Member(s, IF wall >= round.of[s].received /\ SameObservation(c) /\ QuoteFresh(c)
                 THEN [c EXCEPT !.pc = "accepted"] ELSE Rejected)
    /\ UNCHANGED <<wall, assets, collector, captured, means>>

\* A document cannot be had or is refused; an access that is denied ends the other captures too.
CaptureFails(s, why) ==
    /\ Running /\ round.gone = {} /\ round.of[s].pc \in {"first", "quote", "last"}
    /\ UseMeans("faults")
    /\ round' = [round EXCEPT !.of[s] = Rejected, !.gone = IF why = "denied" THEN {"denied"} ELSE {}]
    /\ UNCHANGED <<wall, assets, collector, captured>>

\* The operator, or the timer of maxCaptureSpanMs.
Abort(why) ==
    /\ Running /\ why \notin round.gone /\ UseMeans("faults")
    /\ round' = [round EXCEPT !.gone = @ \cup {why},
                              !.of = [s \in Selections |-> IF @[s].pc = "accepted" THEN @[s] ELSE Rejected]]
    /\ UNCHANGED <<wall, assets, collector, captured>>

----------------------------------------------------------------------------
(* A round, its row and the loop *)

CaptureDone(s) == round.of[s].pc \in {"accepted", "rejected"} \/ round.gone # {}

\* The ages are not looked at again.
DerivesMutant(r, completed) ==
    /\ completed >= r.started /\ completed - r.started <= MaxCaptureSpan
    /\ \A s \in Members : r.of[s].pc = "accepted"
    /\ \A s, t \in Members : r.of[s].at - r.of[t].at <= MaxQuoteSkew

\* derive: one clock, one span, all members accepted, and quotes that are fresh and close together
\* when the last of them is in.
Derives(r, completed) ==
    /\ completed >= r.started
    /\ \A s \in Members : r.of[s].since >= r.started /\ r.of[s].received <= completed
    /\ completed - r.started <= MaxCaptureSpan
    /\ \A s \in Members : r.of[s].pc = "accepted"
    /\ \A s \in Members : r.of[s].at <= completed /\ completed - r.of[s].at <= MaxQuoteAge
    /\ \A s, t \in Members : r.of[s].at - r.of[t].at <= MaxQuoteSkew

\* captureReferenceBatch; a single capture is accepted as it is.
RoundAccepted ==
    /\ round.gone = {}
    /\ IF means.batch THEN Derives(round, wall) ELSE \A s \in Members : round.of[s].pc = "accepted"

\* Refused access is tried again like any other failure.
EndsMutant(consecutive) ==
    CASE "operator" \in round.gone -> "STOPPED"
      [] consecutive >= RejectionLimit -> "REJECTED"
      [] means.rounds = 0 -> "COMPLETED"
      [] OTHER -> "waiting"

\* What follows a row: the loop goes on after its interval only if nothing ends it.
Ends(consecutive) ==
    CASE "operator" \in round.gone -> "STOPPED"
      [] "denied" \in round.gone -> "REJECTED"
      [] consecutive >= RejectionLimit -> "REJECTED"
      [] means.rounds = 0 -> "COMPLETED"
      [] OTHER -> "waiting"

Consecutive(accepted) == IF accepted THEN 0 ELSE collector.consecutive + 1

\* append: one row per round, whatever its result; a row is validated by the function that made it.
AppendRow ==
    /\ Running /\ \A s \in Members : CaptureDone(s)
    /\ captured' = Append(captured, [accepted |-> RoundAccepted, batch |-> means.batch, members |-> Members,
                                     of |-> IF RoundAccepted THEN round.of ELSE NoRound.of,
                                     gone |-> round.gone, completed |-> wall, run |-> collector.run])
    /\ collector' = [collector EXCEPT !.consecutive = Consecutive(RoundAccepted),
                                      !.status = Ends(Consecutive(RoundAccepted))]
    /\ round' = NoRound
    /\ UNCHANGED <<wall, assets, means>>

\* JOURNAL_APPEND_FAILED
AppendFails ==
    /\ Running /\ (\A s \in Members : CaptureDone(s)) /\ UseMeans("faults")
    /\ collector' = [collector EXCEPT !.status = "FAILED"] /\ round' = NoRound
    /\ UNCHANGED <<wall, assets, captured>>

\* The interval is over.
NextRound ==
    /\ collector.status = "waiting" /\ UseMeans("rounds")
    /\ collector' = [collector EXCEPT !.status = "capturing"]
    /\ round' = [NoRound EXCEPT !.started = wall]
    /\ UNCHANGED <<wall, assets, captured>>

\* The operator stops a collector that waits.
StopWaiting ==
    /\ collector.status = "waiting" /\ UseMeans("faults")
    /\ collector' = [collector EXCEPT !.status = "STOPPED"]
    /\ UNCHANGED <<wall, assets, round, captured>>

\* The process starts again, after its end or after it was killed: the journal is what remains.
StartCollector ==
    /\ UseMeans("runs")
    /\ collector' = [status |-> "waiting", consecutive |-> 0, run |-> collector.run + 1]
    /\ round' = NoRound
    /\ UNCHANGED <<wall, assets, captured>>

----------------------------------------------------------------------------
(* The world *)

SetClock ==
    /\ \/ UseMeans("ticks") /\ wall' = wall + 1
       \/ wall > 0 /\ UseMeans("back") /\ wall' = wall - 1
    /\ UNCHANGED <<assets, round, collector, captured>>

\* History: whether the registry left the multiplier a capture began with, and came back.
StillHeld(c, m) == IF m # c.before THEN "away" ELSE IF c.held = "away" THEN "back" ELSE c.held

\* A corporate action.
ChangeRegistry(s, m) ==
    /\ m # assets[s] /\ UseMeans("changes")
    /\ assets' = [assets EXCEPT ![s] = m]
    /\ Member(s, [round.of[s] EXCEPT !.held = IF round.of[s].pc \in {"quote", "last"} THEN StillHeld(round.of[s], m) ELSE @])
    /\ UNCHANGED <<wall, collector, captured>>

CaptureInit ==
    /\ wall = 1 /\ assets \in [Selections -> Multipliers]
    /\ round = NoRound /\ collector = [status |-> "waiting", consecutive |-> 0, run |-> 1]
    /\ captured = <<>> /\ means \in CollectBudgets

CaptureNext ==
    \/ \E s \in Members : \/ ReadRegistry(s) \/ ReadAgain(s)
                          \/ \E at \in 0 .. wall + 1 : ReadQuote(s, at)
                          \/ \E why \in {"denied", "failed"} : CaptureFails(s, why)
                          \/ \E m \in Multipliers \cup {Unresolved} : ChangeRegistry(s, m)
    \/ \E why \in {"operator", "timeout"} : Abort(why)
    \/ AppendRow \/ AppendFails \/ NextRound \/ StopWaiting \/ StartCollector \/ SetClock

CaptureSpec == CaptureInit /\ [][CaptureNext]_captureVars

----------------------------------------------------------------------------
(* Properties *)

\* An accepted row can be traded on as a paper reference: every price of it was read under the
\* multiplier it is converted with, unless the registry left that multiplier and came back in
\* between; and the prices of a batch are of one time, none older than the policy allows when the
\* batch was complete, although they were read one by one (captureReference, derive).
RowsHold ==
    \A i \in 1 .. Len(captured) : captured[i].accepted =>
        LET row == captured[i] IN
        /\ \A s \in row.members : row.of[s].quoted = row.of[s].after \/ row.of[s].held = "back"
        /\ row.batch => /\ \A s \in row.members : row.completed - row.of[s].at \in 0 .. MaxQuoteAge
                        /\ \A s, t \in row.members : row.of[s].at - row.of[t].at <= MaxQuoteSkew

\* A collector that is told to go away goes: after a refused access or a stop no row of its run
\* follows, and its failures in a row never exceed the limit (collectReferenceBatches,
\* collectReferences).
CollectorYields ==
    \A i, j \in 1 .. Len(captured) : i < j /\ captured[i].run = captured[j].run =>
        /\ captured[i].gone \cap {"operator", "denied"} = {}
        /\ j - i >= RejectionLimit => \E k \in i .. j - 1 : captured[k].accepted
=============================================================================
