-------------------------- MODULE DeploymentWallet --------------------------
(***************************************************************************)
(* The administrator's deployment page: tabs that share one journal in the *)
(* browser's storage and the wallet lock (deployment-main.ts), the session *)
(* that sends the plan step by step (deployment-wallet.ts) and the runner  *)
(* that goes on by itself (deployment-runner.ts).                          *)
(*                                                                         *)
(* The reads of one observation agree on one moment: the block is compared *)
(* before and after the head is read.  An observation is therefore a step, *)
(* and so is every stretch of code without an await.                       *)
(***************************************************************************)
EXTENDS DeployChain

CONSTANTS
    Tabs,
    PageBudgets    \* what may happen in a behaviour: see PageBudget

\* clicks on the buttons, and how often a request fails, a tab is closed, the user stops, the
\* wallet changes, the approval expires, the tip is dropped, a foreign transaction is sent,
\* the user edits what is signed.
PageBudget == [clicks : Nat, fails : Nat, closes : Nat, stops : Nat, expiries : Nat, drops : Nat,
               foreign : Nat, edits : Nat]

ASSUME PageAssumption == PageBudgets \subseteq PageBudget /\ Nil \notin Tabs

VARIABLES
    tabs,      \* per tab: the action in progress and what the page believes
    journal,   \* localStorage: [state, hash, receipt] per step
    lock,      \* the tab that holds the wallet lock, or Nil
    prompts,   \* wallet prompts ever opened: [step, open]
    expired,   \* the approval's deadline has passed
    identity,  \* the wallet shows the administrator on the right chain
    exported,  \* receipts that were handed out, or Nil
    allowance

pageVars == <<tabs, journal, lock, prompts, expired, identity, exported, allowance>>
deployVars == <<networkVars, pageVars>>

IdleTab == [job |-> "none", at |-> "idle", then |-> "end", i |-> 0, copy |-> <<>>, prompt |-> 0, hash |-> 0]
\* A page that was just loaded has read the journal.
FreshTab(entries) == [connected |-> FALSE, verified |-> FALSE, aborted |-> FALSE, call |-> [IdleTab EXCEPT !.copy = entries]]

Afford(what) == allowance[what] > 0 /\ allowance' = [allowance EXCEPT ![what] = @ - 1]
In(t, at) == tabs[t].call.at = at
Job(t) == tabs[t].call.job
Move(t, at) == tabs' = [tabs EXCEPT ![t].call.at = at]

\* An action ends: the lock is released, and only a success leaves the page verified.
Leave(t, good) ==
    /\ tabs' = [tabs EXCEPT ![t].call = [IdleTab EXCEPT !.copy = journal'], ![t].verified = good, ![t].aborted = FALSE]
    /\ lock' = Nil

Failed(t) == UNCHANGED <<networkVars, journal, prompts, expired, identity, exported>> /\ Leave(t, FALSE)

NextIndex(entries) ==
    IF \E i \in DOMAIN entries : entries[i].state # "CONFIRMED"
    THEN CHOOSE i \in DOMAIN entries : entries[i].state # "CONFIRMED" /\ \A j \in 1..(i - 1) : entries[j].state = "CONFIRMED"
    ELSE Len(entries) + 1

Complete(entries) == Len(entries) = PlanLength /\ NextIndex(entries) > PlanLength
Blocked(entries) == \E i \in DOMAIN entries :
    entries[i].state # "CONFIRMED" /\ (entries[i].hash = 0 \/ entries[i].state \notin {"SUBMITTED", "INCLUDED"})

----------------------------------------------------------------------------
(* Buttons *)

\* Which buttons render enables, from the journal the page's session last held.
Offered(t, job) ==
    LET shown == tabs[t].call.copy IN
    CASE job = "connect" -> TRUE
      [] job = "check" -> tabs[t].connected
      [] job = "recover" -> tabs[t].connected /\ NextIndex(shown) <= Len(shown)
      [] job = "send" -> tabs[t].connected /\ tabs[t].verified /\ NextIndex(shown) > Len(shown) /\ ~Complete(shown)
      [] job = "continue" -> tabs[t].connected /\ tabs[t].verified /\ ~Blocked(shown) /\ ~Complete(shown)
      [] OTHER -> tabs[t].verified /\ Complete(shown)

\* action: take the lock if it is free, load the journal, start the work.
Click(t, job) ==
    /\ In(t, "idle") /\ Afford("clicks")
    /\ Offered(t, job)
    /\ IF lock = Nil /\ ~(job = "continue" /\ expired)
       THEN /\ lock' = t
            /\ tabs' = [tabs EXCEPT ![t].verified = FALSE, ![t].aborted = FALSE,
                 ![t].call = [IdleTab EXCEPT !.job = job, !.copy = journal,
                              !.at = IF job = "connect" THEN "connect" ELSE IF job = "recover" THEN "lookup" ELSE "observe",
                              !.i = 1, !.then = IF job \in {"send", "continue"} THEN job ELSE "end"]]
       ELSE tabs' = [tabs EXCEPT ![t].verified = FALSE] /\ UNCHANGED lock
    /\ UNCHANGED <<networkVars, journal, prompts, expired, identity, exported>>

Connect(t) ==
    /\ In(t, "connect") /\ identity
    /\ tabs' = [tabs EXCEPT ![t].connected = TRUE, ![t].call.at = "observe"]
    /\ UNCHANGED <<networkVars, journal, lock, prompts, expired, identity, exported, allowance>>

----------------------------------------------------------------------------
(* reconcile *)

\* Mutant: a receipt is enough, whatever its depth.
ObservedMutant(entry, step) ==
    LET r == Receipt(entry.hash) IN
    IF entry.hash = 0 \/ entry.hash \notin (pool \cup {h \in DOMAIN txs : Mined(h)}) THEN [entry EXCEPT !.state = "UNKNOWN"]
    ELSE IF entry.hash \in pool THEN [entry EXCEPT !.state = "SUBMITTED"]
    ELSE IF ~r.ok THEN [entry EXCEPT !.state = "REVERTED"]
    ELSE [state |-> "CONFIRMED", hash |-> entry.hash, receipt |-> r]

\* observe: what the chain says of an entry.  A receipt whose block was replaced between two reads
\* makes it REORGED.
Observed(entry, step) ==
    LET r == Receipt(entry.hash) IN
    IF entry.hash = 0 \/ entry.hash \notin (pool \cup {h \in DOMAIN txs : Mined(h)}) THEN [entry EXCEPT !.state = "UNKNOWN"]
    ELSE IF entry.hash \in pool THEN [entry EXCEPT !.state = "SUBMITTED"]
    ELSE IF ~r.ok THEN [entry EXCEPT !.state = "REVERTED"]
    ELSE [state |-> IF Confirmed(r) THEN "CONFIRMED" ELSE "INCLUDED", hash |-> entry.hash, receipt |-> r]

\* matchesTransaction
Matches(hash, step) == hash # 0 => txs[hash].step = step /\ txs[hash].planned

\* One entry after the other; behind one that is not confirmed nothing is believed.
Observe(t) ==
    /\ In(t, "observe") /\ tabs[t].call.i <= Len(tabs[t].call.copy)
    /\ LET i == tabs[t].call.i
           entry == tabs[t].call.copy[i]
       IN /\ Matches(entry.hash, i)
          /\ \E new \in {Observed(entry, i)} \cup
                        (IF entry.hash # 0 /\ entry.hash \in pool /\ blocks > Height THEN {[entry EXCEPT !.state = "REORGED"]} ELSE {}) :
                tabs' = [tabs EXCEPT ![t].call.copy =
                            [j \in DOMAIN @ |-> IF j = i THEN new
                                                ELSE IF j > i /\ new.state # "CONFIRMED" THEN [@[j] EXCEPT !.state = "UNKNOWN"]
                                                ELSE @[j]],
                         ![t].call.i = IF new.state = "CONFIRMED" THEN i + 1 ELSE Len(tabs[t].call.copy) + 1]
    /\ UNCHANGED <<networkVars, journal, lock, prompts, expired, identity, exported, allowance>>

\* The copy is saved; then what the action wanted it for.
Reconciled(t) ==
    /\ In(t, "observe") /\ tabs[t].call.i > Len(tabs[t].call.copy)
    /\ identity
    /\ journal' = tabs[t].call.copy
    /\ Move(t, CASE tabs[t].call.then = "end" -> "done"
                 [] tabs[t].call.then = "continue" -> "loop"
                 [] tabs[t].call.then = "send" -> "preflight"
                 [] OTHER -> "guard")
    /\ UNCHANGED <<networkVars, lock, prompts, expired, identity, exported, allowance>>

StartReconcile(t, then) ==
    tabs' = [tabs EXCEPT ![t].call.at = "observe", ![t].call.i = 1, ![t].call.then = then]

----------------------------------------------------------------------------
(* sendNext *)

NonceFree(step) == LatestNonce = step - 1 /\ PendingNonce = LatestNonce

\* Deadline, nonce, funds and estimate; then everything is read again.
Preflight(t) ==
    /\ In(t, "preflight")
    /\ LET step == NextIndex(journal)
       IN step = Len(journal) + 1 /\ step <= PlanLength /\ ~expired /\ NonceFree(step)
    /\ StartReconcile(t, "guard")
    /\ UNCHANGED <<networkVars, journal, lock, prompts, expired, identity, exported, allowance>>

\* finalPreflight: the nonce on both transports, the anchor of the last confirmation.
Guard(t) ==
    /\ In(t, "guard")
    /\ LET step == NextIndex(journal)
       IN /\ step = Len(journal) + 1 /\ step <= PlanLength
          /\ NonceFree(step) /\ identity
          /\ step > 1 => Canonical(journal[step - 1].receipt) /\ Confirmed(journal[step - 1].receipt)
    /\ Move(t, "intent")
    /\ UNCHANGED <<networkVars, journal, lock, prompts, expired, identity, exported, allowance>>

Intent == [state |-> "INTENT", hash |-> 0, receipt |-> Nil]

\* Mutant: the intent is only noted in memory.
SavedIntentMutant(entries) == entries

SavedIntent(entries) == Append(entries, Intent)

\* Without an await: the intent is saved, the deadline looked at, the wallet asked.
OpenPrompt(t) ==
    /\ In(t, "intent") /\ ~tabs[t].aborted
    /\ journal' = SavedIntent(journal)
    /\ IF expired
       THEN Leave(t, FALSE) /\ UNCHANGED prompts
       ELSE /\ prompts' = Append(prompts, [step |-> Len(journal) + 1, open |-> TRUE])
            /\ tabs' = [tabs EXCEPT ![t].call.at = "prompt", ![t].call.prompt = Len(prompts) + 1]
            /\ UNCHANGED lock
    /\ UNCHANGED <<networkVars, expired, identity, exported, allowance>>

Stamp(i, state, hash) == [journal EXCEPT ![i].state = state, ![i].hash = hash]

\* The wallet's answer, a hash or an error.
Answered(t) ==
    /\ In(t, "prompt") /\ ~prompts[tabs[t].call.prompt].open
    /\ LET i == prompts[tabs[t].call.prompt].step
           h == tabs[t].call.hash
       IN IF h = 0
          THEN journal' = Stamp(i, "UNKNOWN", 0) /\ Leave(t, FALSE)
          ELSE /\ journal' = Stamp(i, "SUBMITTED", h)
               /\ tabs' = [tabs EXCEPT ![t].call.at = "observe", ![t].call.i = 1,
                             ![t].call.copy = Stamp(i, "SUBMITTED", h), ![t].call.hash = 0, ![t].call.prompt = 0,
                             ![t].call.then = IF Job(t) = "continue" THEN "continue" ELSE "end"]
               /\ UNCHANGED lock
    /\ UNCHANGED <<networkVars, prompts, expired, identity, exported, allowance>>

----------------------------------------------------------------------------
(* runDeploymentSequence, recover, the end of an action *)

\* One turn of the loop: done, wait and look again, or the next step.
Continue(t) ==
    /\ In(t, "loop") /\ ~tabs[t].aborted
    /\ LET i == NextIndex(journal)
       IN IF Complete(journal) THEN Move(t, "done")
          ELSE IF i <= Len(journal)
          THEN /\ ~expired
               /\ journal[i].state \in {"SUBMITTED", "INCLUDED"} /\ journal[i].hash # 0
               /\ tabs' = [tabs EXCEPT ![t].call.at = "observe", ![t].call.i = 1, ![t].call.copy = journal,
                                       ![t].call.then = "continue"]
          ELSE /\ ~expired
               /\ tabs' = [tabs EXCEPT ![t].call.at = "observe", ![t].call.i = 1, ![t].call.copy = journal,
                                       ![t].call.then = "send"]
    /\ UNCHANGED <<networkVars, journal, lock, prompts, expired, identity, exported, allowance>>

\* recover: a hash the user took from the wallet is checked and becomes the entry's.
Recover(t) ==
    /\ In(t, "lookup") /\ identity
    /\ LET i == NextIndex(journal)
       IN /\ i <= Len(journal)
          /\ \E h \in DOMAIN txs :
                /\ Matches(h, i)
                /\ LET new == Observed([journal[i] EXCEPT !.hash = h], i)
                   IN /\ new.state # "UNKNOWN"
                      /\ journal' = [journal EXCEPT ![i] = new]
                      /\ tabs' = [tabs EXCEPT ![t].call.at = "observe", ![t].call.i = 1, ![t].call.copy = journal',
                                              ![t].call.then = "end"]
    /\ UNCHANGED <<networkVars, lock, prompts, expired, identity, exported, allowance>>

Done(t) ==
    /\ In(t, "done")
    /\ exported' = IF Job(t) = "export" /\ Complete(journal) THEN [i \in DOMAIN journal |-> journal[i].hash] ELSE exported
    /\ UNCHANGED <<networkVars, journal, prompts, expired, identity, allowance>>
    /\ Leave(t, TRUE)

\* A check does not hold; a hash the user entered is not the step's.
Refused(t) ==
    LET step == NextIndex(journal) IN
    /\ \/ In(t, "connect") /\ ~identity
       \/ In(t, "observe") /\ tabs[t].call.i <= Len(tabs[t].call.copy) /\ ~Matches(tabs[t].call.copy[tabs[t].call.i].hash, tabs[t].call.i)
       \/ In(t, "observe") /\ tabs[t].call.i > Len(tabs[t].call.copy) /\ ~identity
       \/ In(t, "preflight") /\ ~(step = Len(journal) + 1 /\ step <= PlanLength /\ ~expired /\ NonceFree(step))
       \/ In(t, "guard") /\ ~(step = Len(journal) + 1 /\ step <= PlanLength /\ NonceFree(step) /\ identity
                              /\ (step > 1 => Canonical(journal[step - 1].receipt) /\ Confirmed(journal[step - 1].receipt)))
       \/ In(t, "intent") /\ tabs[t].aborted
       \/ In(t, "loop") /\ (tabs[t].aborted \/ (step <= Len(journal) /\ Blocked(journal)) \/ (expired /\ ~Complete(journal)))
       \/ In(t, "lookup")
    /\ Failed(t) /\ UNCHANGED allowance

\* A request fails or times out, or the browser's storage refuses the journal.
RequestFails(t) ==
    /\ tabs[t].call.at \in {"connect", "observe", "preflight", "guard", "intent"}
    /\ Afford("fails")
    /\ Failed(t)

----------------------------------------------------------------------------
(* The user, the wallet, the network *)

\* Stop, a hidden tab: the continuous run may not ask the wallet again.
Stop(t) ==
    /\ Job(t) = "continue" /\ ~tabs[t].aborted /\ Afford("stops")
    /\ tabs' = [tabs EXCEPT ![t].aborted = TRUE]
    /\ UNCHANGED <<networkVars, journal, lock, prompts, expired, identity, exported>>

WalletChanged ==
    /\ Afford("stops")
    /\ identity' = ~identity
    /\ tabs' = [t \in Tabs |-> [tabs[t] EXCEPT !.connected = FALSE, !.verified = FALSE, !.aborted = Job(t) = "continue"]]
    /\ UNCHANGED <<networkVars, journal, lock, prompts, expired, exported>>

\* A closed tab loses its session and its lock; an open prompt stays open.
CloseTab(t) ==
    /\ Afford("closes")
    /\ tabs' = [tabs EXCEPT ![t] = FreshTab(journal)]
    /\ lock' = IF lock = t THEN Nil ELSE lock
    /\ UNCHANGED <<networkVars, journal, prompts, expired, identity, exported>>

\* The user approves, edits or rejects; an answer may be lost on the way back.
Waiting(p) == {t \in Tabs : In(t, "prompt") /\ tabs[t].call.prompt = p}

Decide(p) ==
    /\ prompts[p].open
    /\ prompts' = [prompts EXCEPT ![p].open = FALSE]
    /\ \/ \E planned \in BOOLEAN :
             /\ IF planned THEN UNCHANGED allowance ELSE Afford("edits")
             /\ Broadcast([step |-> prompts[p].step, nonce |-> prompts[p].step - 1, planned |-> planned])
             /\ tabs' = [t \in Tabs |-> IF t \in Waiting(p) THEN [tabs[t] EXCEPT !.call.hash = Len(txs) + 1] ELSE tabs[t]]
       \/ /\ Afford("fails") /\ UNCHANGED tabs
          /\ \/ Broadcast([step |-> prompts[p].step, nonce |-> prompts[p].step - 1, planned |-> TRUE])
             \/ UNCHANGED <<txs, pool>>
    /\ UNCHANGED <<chain, blocks, journal, lock, expired, identity, exported>>

\* The administrator sends something else from the same wallet.
ForeignTransaction ==
    /\ Afford("foreign")
    /\ Broadcast([step |-> 0, nonce |-> PendingNonce, planned |-> FALSE])
    /\ UNCHANGED <<chain, blocks, tabs, journal, lock, prompts, expired, identity, exported>>

Expire ==
    /\ ~expired /\ Afford("expiries")
    /\ expired' = TRUE
    /\ UNCHANGED <<networkVars, tabs, journal, lock, prompts, identity, exported>>

Network ==
    /\ \/ Mine /\ UNCHANGED allowance
       \/ DropTip /\ Afford("drops")
    /\ UNCHANGED <<tabs, journal, lock, prompts, expired, identity, exported>>

----------------------------------------------------------------------------
(* What the page promises *)

\* A step is put before the administrator at most once, whatever happens to tabs, answers,
\* requests and the journal's entries in between: sendNext saves the intent before it asks,
\* and nothing takes an entry away.
StepPromptedOnce == \A p, q \in DOMAIN prompts : prompts[p].step = prompts[q].step => p = q

\* The wallet is asked for a step only while every earlier one is on the canonical chain as
\* planned, and receipts are handed out only when all are (finalPreflight, verificationReceipts),
\* as long as no more than Confirmations blocks are taken back.
OnConfirmedOnly ==
    [][/\ Len(prompts') > Len(prompts) => DependenciesMined(prompts'[Len(prompts')].step)
       /\ exported' # exported => DependenciesMined(PlanLength + 1)]_deployVars

----------------------------------------------------------------------------
PageInit ==
    /\ NetworkInit
    /\ tabs = [t \in Tabs |-> FreshTab(<<>>)]
    /\ journal = <<>> /\ lock = Nil /\ prompts = <<>>
    /\ expired = FALSE /\ identity = TRUE /\ exported = Nil
    /\ allowance \in PageBudgets

PageNext ==
    \/ \E t \in Tabs :
          \/ \E job \in {"connect", "check", "send", "continue", "recover", "export"} : Click(t, job)
          \/ Connect(t) \/ Observe(t) \/ Reconciled(t) \/ Preflight(t) \/ Guard(t) \/ OpenPrompt(t) \/ Answered(t)
          \/ Continue(t) \/ Recover(t) \/ Done(t) \/ Refused(t) \/ RequestFails(t) \/ Stop(t) \/ CloseTab(t)
    \/ \E p \in DOMAIN prompts : Decide(p)
    \/ WalletChanged \/ ForeignTransaction \/ Expire \/ Network

PageSpec == PageInit /\ [][PageNext]_deployVars
=============================================================================
