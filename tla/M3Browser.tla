------------------------------ MODULE M3Browser ------------------------------
(***************************************************************************)
(* The Vault page of the product (m3-browser-runtime-set.ts): one runtime  *)
(* per deployed Vault (m3-browser-runtime.ts), of which one is chosen, the *)
(* wallet (chain-wallet.ts), and the submission hints in the browser's     *)
(* storage (m3-submission-journal.ts).                                     *)
(*                                                                         *)
(* A call is a method in progress; the code between two awaits is a step,  *)
(* and reads that follow one another without a look at shared state are    *)
(* one step.  A read captures the runtime's revision: ok says whether it   *)
(* is still the current one.  A review captures the generation of the      *)
(* selection: bound says the same of it.                                   *)
(***************************************************************************)
EXTENDS Integers, Sequences, FiniteSets
LOCAL INSTANCE FiniteSetsExt
LOCAL INSTANCE Functions

CONSTANTS
    Vaults,        \* deployments to choose from
    FirstVault,    \* the one a loaded page starts with
    Accounts,      \* wallet accounts
    VaultOwner,    \* the account that owns the Vaults
    Dialogs,       \* calls of the user that may be in progress at once
    JournalLimit,  \* hints kept per Vault and account (32 in the code)
    M3Budgets,     \* what may happen in a behaviour: see M3Budget
    Nobody

\* users: the calls of the user that may be in progress at once; acts: the reviews; the numbers bound connects and
\* refreshes, changes of the selection, reviews, wallet events, failures, reloads and reorganisations.
M3Kinds == {"approve", "deposit", "withdraw", "close", "rescue", "transfer"}
M3Budget == [users : SUBSET Dialogs, acts : SUBSET M3Kinds, reads : Nat, choices : Nat, asks : Nat, switches : Nat, fails : Nat,
             reloads : Nat, reorgs : Nat]

ASSUME M3Assumption ==
    /\ FirstVault \in Vaults
    /\ Nobody \notin Accounts /\ VaultOwner \in Accounts
    /\ "events" \notin Dialogs
    /\ JournalLimit \in Nat \ {0}
    /\ M3Budgets \subseteq M3Budget

VARIABLES
    chosen,    \* the selected Vault
    runtime,   \* per Vault: [page, session, flow, pending, known]
    calls,     \* the calls in progress
    review,    \* the review on display, or NoReview
    hints,     \* storage: hints per Vault and account, oldest first
    provider,  \* [account, told]: Nobody stands for a locked wallet or another chain
    requests,  \* transactions handed to the wallet, in order
    server,    \* requests the server tracks
    resolved,  \* history: requests whose evidence was once read as ready or failed
    quota      \* what is left of the budget

m3Vars == <<chosen, runtime, calls, review, hints, provider, requests, server, resolved, quota>>

Calls == {"events"} \cup Dialogs

\* late is history: what the page allows was published by an approval review whose session had ended.
ClosedPage == [wallet |-> "off", account |-> Nobody, write |-> FALSE, pass |-> FALSE, tx |-> "IDLE", n |-> 0, late |-> FALSE]
FreshRuntime == [page |-> ClosedPage, session |-> Nobody, flow |-> Nobody, pending |-> 0, known |-> {}]
NoCall == [op |-> "none", at |-> "idle", vault |-> Nobody, ok |-> TRUE, account |-> Nobody, kind |-> "none",
           canonical |-> FALSE, shown |-> ClosedPage, todo |-> <<>>, n |-> 0, bound |-> TRUE, changed |-> FALSE]
NoReview == [kind |-> "none", vault |-> Nobody, owner |-> Nobody, alive |-> FALSE, bound |-> FALSE]

M3State == [r |-> runtime, c |-> calls, v |-> review]
M3Become(s) == runtime' = s.r /\ calls' = s.c /\ review' = s.v
M3At(c, at) == calls[c].at = at
M3Goto(s, c, at) == [s EXCEPT !.c[c].at = at]
M3End(s, c) == [s EXCEPT !.c[c] = NoCall]
Use(what) == quota[what] > 0 /\ quota' = [quota EXCEPT ![what] = @ - 1]

Hash(n) == requests[n]
M3Closed(v) == \E n \in DOMAIN requests : Hash(n).vault = v /\ Hash(n).kind = "close" /\ Hash(n).chain = "ready"

----------------------------------------------------------------------------
(* Reads: withSessionRead *)

Reads == {"request", "snapshot", "present", "hint", "sorry", "observe", "bare", "older", "register", "evidence",
          "ambiguous", "publish"}

\* A new read is the current one of its runtime.
Supersede(s, v) ==
    [s EXCEPT !.c = [k \in Calls |-> [s.c[k] EXCEPT !.ok = @ /\ ~(s.c[k].vault = v /\ s.c[k].at \in Reads)]]]

Disabled(p) == [p EXCEPT !.write = FALSE, !.pass = FALSE, !.late = FALSE]

\* The session ends: so do its reviews, and what the page allows.
Invalidate(s, v) ==
    [Supersede(s, v) EXCEPT
        !.r[v].session = Nobody,
        !.r[v].page = [Disabled(@) EXCEPT !.wallet = "off", !.account = Nobody],
        !.v.alive = @ /\ s.v.vault # v]

BeginRead(s, c, v, op, at) ==
    [Supersede(s, v) EXCEPT !.c[c] = [NoCall EXCEPT !.op = op, !.at = at, !.vault = v]]

\* refresh hides the balances and looks at the wallet.
BeginRefresh(s, c, v) == BeginRead(s, c, v, "refresh", "observe")

\* The catch of withSessionRead: authority that is still shown is closed.
ThrowRead(s, c) ==
    LET v == s.c[c].vault
        p == s.r[v].page
    IN M3End(IF s.c[c].ok /\ (p.wallet = "connecting" \/ p.write \/ p.pass) THEN Invalidate(s, v) ELSE s, c)

\* What a read that ends well wants to show is shown if the wallet still has the account.
PublishRead(s, c, next) ==
    LET v == s.c[c].vault
    IN IF provider.account = s.c[c].shown.account
       THEN next
       ELSE M3End(Invalidate(s, v), c)

\* A read that is no longer current ends with its next answer.
Superseded(c) ==
    /\ calls[c].at \in Reads /\ ~calls[c].ok
    /\ M3Become(M3End(M3State, c))
    /\ UNCHANGED <<chosen, hints, provider, requests, server, resolved, quota>>

Current(c, at) == M3At(c, at) /\ calls[c].ok

----------------------------------------------------------------------------
(* connect *)

ConnectWallet(c) ==
    /\ c \in quota.users /\ M3At(c, "idle")
    /\ Use("reads")
    /\ M3Become([BeginRead(M3State, c, chosen, "connect", "request") EXCEPT
                   !.r[chosen].session = Nobody, !.r[chosen].flow = Nobody,
                   !.r[chosen].page = [Disabled(@) EXCEPT !.wallet = "connecting"]])
    /\ UNCHANGED <<chosen, hints, provider, requests, server, resolved>>

\* eth_requestAccounts; a locked wallet, another chain and a refusal are errors.
WalletAnswers(c) ==
    /\ Current(c, "request")
    /\ M3Become(IF provider.account = Nobody THEN M3Goto(M3State, c, "sorry")
                ELSE [M3Goto(M3State, c, "snapshot") EXCEPT !.c[c].account = provider.account])
    /\ UNCHANGED <<chosen, hints, provider, requests, server, resolved, quota>>

\* The server's projection if it is healthy and the account's, the contract itself otherwise.
ReadFlowSnapshot(c) ==
    /\ Current(c, "snapshot")
    /\ \E canonical \in {TRUE, FALSE} :
          /\ canonical => calls[c].account = VaultOwner
          /\ LET s == [M3Goto(M3State, c, "present") EXCEPT !.c[c].canonical = canonical]
                 v == calls[c].vault
             IN M3Become(IF calls[c].op = "connect"
                         THEN [s EXCEPT !.r[v].flow = calls[c].account, !.r[v].session = calls[c].account]
                         ELSE s)
    /\ UNCHANGED <<chosen, hints, provider, requests, server, resolved, quota>>

\* What the page will show of the account.
Presentation(s, v, account, pass) ==
    [wallet |-> "on", account |-> account, write |-> account = VaultOwner, pass |-> pass,
     tx |-> s.r[v].page.tx, n |-> s.r[v].page.n, late |-> FALSE]

\* Mutant: a finished transaction makes room for an older hint.
WatchMutant(r, account, saved) == IF saved # <<>> THEN saved[Len(saved)] ELSE r.pending

\* Which transaction is watched: the one already watched if it is this account's, else the newest hint.
Watch(r, account, saved) ==
    IF r.pending # 0 /\ Hash(r.pending).owner = account THEN r.pending
    ELSE IF saved # <<>> THEN saved[Len(saved)]
    ELSE r.pending

\* Balances and allowances; a connect shows them now, a refresh reads the hints first.
ConnectedPresentation(c) ==
    /\ Current(c, "present")
    /\ \E pass \in {TRUE, ~calls[c].canonical} :
          LET v == calls[c].vault
              shown == Presentation(M3State, v, calls[c].account, pass)
              saved == hints[v][calls[c].account]
              watched == Watch(runtime[v], calls[c].account, saved)
              older == SelectSeq(saved, LAMBDA h : h # watched)
              s == [M3State EXCEPT !.c[c].shown = shown]
          IN M3Become(IF calls[c].op = "connect"
                      THEN PublishRead(s, c, [M3Goto(s, c, "hint") EXCEPT !.r[v].page = shown])
                      ELSE [M3Goto(s, c, "older") EXCEPT !.r[v].pending = watched, !.c[c].todo = older])
    /\ UNCHANGED <<chosen, hints, provider, requests, server, resolved, quota>>

\* connect looks for a hint: with one it goes on as a refresh.
RestoreHint(c) ==
    /\ Current(c, "hint")
    /\ LET v == calls[c].vault
           saved == hints[v][calls[c].account]
           mine == runtime[v].pending # 0 /\ Hash(runtime[v].pending).owner = calls[c].account
           watched == IF mine THEN runtime[v].pending ELSE IF saved # <<>> THEN saved[Len(saved)] ELSE 0
           s == [M3State EXCEPT !.r[v].pending = watched]
       IN M3Become(PublishRead(s, c,
             IF watched = 0 THEN M3End([s EXCEPT !.r[v].page.tx = "IDLE"], c)
             ELSE BeginRefresh([s EXCEPT !.r[v].page.tx = "SUBMISSION_AMBIGUOUS", !.r[v].page.n = watched], c, v)))
    /\ UNCHANGED <<chosen, hints, provider, requests, server, resolved, quota>>

\* The catch of connect: the page says why, and withSessionRead closes what is still open.
ConnectFailed(c) ==
    /\ Current(c, "sorry")
    /\ LET v == calls[c].vault
       IN M3Become(ThrowRead([M3State EXCEPT !.r[v].page.wallet = "off",
                                             !.r[v].page.account = provider.account], c))
    /\ UNCHANGED <<chosen, hints, provider, requests, server, resolved, quota>>

----------------------------------------------------------------------------
(* refresh *)

Refresh(c) ==
    /\ c \in quota.users /\ M3At(c, "idle")
    /\ Use("reads")
    /\ M3Become(BeginRefresh(M3State, c, chosen))
    /\ UNCHANGED <<chosen, hints, provider, requests, server, resolved>>

\* Mutant: a changed account is shown, and the session is left alone.
AccountChangedMutant(s, v, account, session) ==
    [s EXCEPT !.r[v].page.wallet = "changed", !.r[v].page.account = account]

\* Another account or a locked wallet ends the session; a wrong chain keeps it.
AccountChanged(s, v, account, session) ==
    [s EXCEPT !.r[v].session = session,
              !.r[v].page = [Disabled(@) EXCEPT !.wallet = IF account = Nobody THEN "off" ELSE "changed",
                                                !.account = account]]

ObserveWallet(c) ==
    /\ Current(c, "observe")
    /\ LET v == calls[c].vault
           session == runtime[v].session
           account == provider.account
           s == [M3State EXCEPT !.c[c].account = account]
       IN IF account = Nobody \/ (session # Nobody /\ account # session)
          THEN \E kept \in {Nobody} \cup (IF account = Nobody THEN {session} ELSE {}) :
                  M3Become(M3End(AccountChanged(s, v, account, kept), c))
          ELSE M3Become(M3Goto(s, c, IF session # Nobody THEN "snapshot" ELSE "bare"))
    /\ UNCHANGED <<chosen, hints, provider, requests, server, resolved, quota>>

\* No session: only the account and its balance are shown.
ShowAccount(c) ==
    /\ Current(c, "bare")
    /\ LET v == calls[c].vault
           s == [M3State EXCEPT !.c[c].shown = [runtime[v].page EXCEPT !.wallet = "on", !.account = calls[c].account]]
       IN M3Become(PublishRead(s, c, M3End([s EXCEPT !.r[v].page = s.c[c].shown], c)))
    /\ UNCHANGED <<chosen, hints, provider, requests, server, resolved, quota>>

Evidence(n) == Hash(n).chain
Without(s, n) == SelectSeq(s, LAMBDA h : h # n)

\* journal.remove
Forget(v, n) == [hints EXCEPT ![v][Hash(n).owner] = Without(@, n)]

\* readOperationEvidence: a final answer removes the hint.
ReadEvidence(v, n) ==
    /\ n \in server
    /\ IF Evidence(n) \in {"ready", "failed"}
       THEN hints' = Forget(v, n) /\ resolved' = resolved \cup {n}
       ELSE UNCHANGED <<hints, resolved>>

\* Older hints are registered and looked at one by one; an error leaves the hint where it is.
OlderHint(c) ==
    /\ Current(c, "older") /\ calls[c].todo # <<>>
    /\ LET n == calls[c].todo[1]
           v == calls[c].vault
           next == [M3State EXCEPT !.c[c].todo = Tail(@)]
       IN IF n \in runtime[v].known
          THEN ReadEvidence(v, n) /\ M3Become(next) /\ UNCHANGED server
          ELSE /\ server' = server \cup {n}
               /\ M3Become([M3State EXCEPT !.r[v].known = @ \cup {n}])
               /\ UNCHANGED <<hints, resolved>>
    /\ UNCHANGED <<chosen, provider, requests, quota>>

SkipHint(c) ==
    /\ Current(c, "older") /\ calls[c].todo # <<>>
    /\ Use("fails")
    /\ M3Become([M3State EXCEPT !.c[c].todo = Tail(@)])
    /\ UNCHANGED <<chosen, hints, provider, requests, server, resolved>>

\* Then the watched transaction, if it is this account's.
WatchedHint(c) ==
    /\ Current(c, "older") /\ calls[c].todo = <<>>
    /\ LET r == runtime[calls[c].vault]
           mine == r.pending # 0 /\ Hash(r.pending).owner = calls[c].account
       IN M3Become([M3Goto(M3State, c, IF ~mine THEN "publish"
                                       ELSE IF r.pending \in r.known THEN "evidence" ELSE "register")
                      EXCEPT !.c[c].n = IF mine THEN r.pending ELSE 0])
    /\ UNCHANGED <<chosen, hints, provider, requests, server, resolved, quota>>

RegisterSubmission(c) ==
    /\ Current(c, "register")
    /\ server' = server \cup {calls[c].n}
    /\ M3Become([M3Goto(M3State, c, "evidence") EXCEPT !.r[calls[c].vault].known = @ \cup {calls[c].n}])
    /\ UNCHANGED <<chosen, hints, provider, requests, resolved, quota>>

TxShown(n) ==
    CASE Evidence(n) = "ready" -> "READY"
      [] Evidence(n) = "failed" -> "FAILED"
      [] OTHER -> "SUBMITTED"

ShowEvidence(c) ==
    /\ Current(c, "evidence")
    /\ ReadEvidence(calls[c].vault, calls[c].n)
    /\ M3Become([M3Goto(M3State, c, "publish") EXCEPT !.c[c].shown.tx = TxShown(calls[c].n),
                                                      !.c[c].shown.n = calls[c].n])
    /\ UNCHANGED <<chosen, provider, requests, server, quota>>

\* Not registered: the page says so first.  Either way the contract itself is read instead.
EvidenceFails(c) ==
    /\ calls[c].at \in {"register", "evidence"} /\ calls[c].ok
    /\ Use("fails")
    /\ LET unknown == calls[c].n \notin runtime[calls[c].vault].known
       IN M3Become(IF unknown THEN [M3Goto(M3State, c, "ambiguous") EXCEPT
                                      !.c[c].shown.tx = "SUBMISSION_AMBIGUOUS", !.c[c].shown.n = calls[c].n]
                   ELSE [M3Goto(M3State, c, "publish") EXCEPT !.c[c].shown.tx = runtime[calls[c].vault].page.tx,
                                                              !.c[c].shown.n = runtime[calls[c].vault].page.n])
    /\ UNCHANGED <<chosen, hints, provider, requests, server, resolved>>

ShowRefreshed(c) ==
    /\ calls[c].ok /\ calls[c].at \in {"ambiguous", "publish"}
    /\ LET s == [M3State EXCEPT !.r[calls[c].vault].page = calls[c].shown]
       IN M3Become(PublishRead(M3State, c, IF M3At(c, "publish") THEN M3End(s, c) ELSE M3Goto(s, c, "publish")))
    /\ UNCHANGED <<chosen, hints, provider, requests, server, resolved, quota>>

\* A request of a read fails.
ReadFails(c) ==
    /\ calls[c].ok /\ calls[c].at \in {"request", "snapshot", "present", "hint", "observe", "bare", "ambiguous", "publish"}
    /\ Use("fails")
    /\ M3Become(IF calls[c].op = "connect" THEN M3Goto(M3State, c, "sorry") ELSE ThrowRead(M3State, c))
    /\ UNCHANGED <<chosen, hints, provider, requests, server, resolved>>

----------------------------------------------------------------------------
(* The selection *)

\* selectVault: reviews of the old generation are void; the Vault chosen is refreshed.
SelectVault(c, v) ==
    /\ c \in quota.users /\ M3At(c, "idle") /\ v # chosen
    /\ Use("choices")
    /\ chosen' = v
    /\ LET s == [M3State EXCEPT !.v.bound = FALSE,
                                !.c = [k \in Calls |-> [calls[k] EXCEPT !.bound = FALSE]]]
       IN M3Become(BeginRefresh(s, c, v))
    /\ UNCHANGED <<hints, provider, requests, server, resolved>>

----------------------------------------------------------------------------
(* Reviews *)

Ask3(c, kind) ==
    /\ c \in quota.users /\ M3At(c, "idle") /\ kind \in quota.acts
    /\ runtime[chosen].session # Nobody
    /\ IF kind = "transfer" THEN runtime[chosen].page.pass ELSE runtime[chosen].page.write
    /\ Use("asks")
    /\ M3Become([M3State EXCEPT !.c[c] = [NoCall EXCEPT !.op = "review", !.at = "code", !.vault = chosen,
                                                        !.kind = kind, !.account = runtime[chosen].session]])
    /\ UNCHANGED <<chosen, hints, provider, requests, server, resolved>>

\* The runtime code is as deployed.  A deposit needs the projection and the allowances as well.
CheckCode(c) ==
    /\ M3At(c, "code") /\ calls[c].op = "review"
    /\ M3Become(M3Goto(M3State, c, IF calls[c].kind \in {"approve", "deposit"} THEN "authorize" ELSE "simulate"))
    /\ UNCHANGED <<chosen, hints, provider, requests, server, resolved, quota>>

\* A deposit looks at the session again, an approval review has captured it.
Depositor(c) == IF calls[c].kind = "deposit" THEN runtime[calls[c].vault].session ELSE calls[c].account

\* readM3VaultDepositAuthorization watches the wallet; what it read is shown at once.
Authorize(c) ==
    /\ M3At(c, "authorize")
    /\ Depositor(c) # Nobody /\ provider.account = Depositor(c) /\ ~calls[c].changed
    /\ LET v == calls[c].vault
           s == [M3State EXCEPT !.r[v].page = [Presentation(M3State, v, Depositor(c), runtime[v].page.pass) EXCEPT
                                                  !.late = runtime[v].session # Depositor(c)]]
       IN M3Become(IF calls[c].kind = "approve" THEN M3Goto(s, c, "reviewed") ELSE M3Goto(s, c, "simulate"))
    /\ UNCHANGED <<chosen, hints, provider, requests, server, resolved, quota>>

ReviewOwner(c) == IF calls[c].kind = "transfer" THEN calls[c].account ELSE runtime[calls[c].vault].flow

\* simulateAction: what the contract will accept of the call.
Accepted(c, owner) ==
    /\ calls[c].kind \notin {"approve", "transfer"} => owner = VaultOwner
    /\ calls[c].kind = "rescue" => M3Closed(calls[c].vault)
    /\ calls[c].kind \in {"deposit", "withdraw", "close"} => ~M3Closed(calls[c].vault)

Simulates(c, owner) ==
    /\ owner # Nobody
    /\ calls[c].kind = "transfer" => provider.account = owner
    /\ Accepted(c, owner)

\* The flow reads and simulates for the account it connected; a transfer looks at the wallet too.
SimulateAction(c) ==
    /\ M3At(c, "simulate")
    /\ LET v == calls[c].vault
           owner == ReviewOwner(c)
       IN /\ Simulates(c, owner)
          /\ M3Become([M3Goto(M3State, c, "reviewed") EXCEPT !.c[c].account = owner,
                                                             !.r[v].page.tx = "WALLET_APPROVAL_REQUIRED"])
    /\ UNCHANGED <<chosen, hints, provider, requests, server, resolved, quota>>

\* The set binds the review to the selection it was made under.
BindReview(c) ==
    /\ M3At(c, "reviewed")
    /\ M3Become(M3End(IF calls[c].bound
                      THEN [M3State EXCEPT !.v = [kind |-> calls[c].kind, vault |-> calls[c].vault,
                                                  owner |-> calls[c].account, alive |-> TRUE, bound |-> TRUE]]
                      ELSE M3State, c))
    /\ UNCHANGED <<chosen, hints, provider, requests, server, resolved, quota>>

----------------------------------------------------------------------------
(* Confirmation *)

\* A review is consumed whatever comes of it.
ConfirmReview(c) ==
    /\ c \in quota.users /\ M3At(c, "idle") /\ review # NoReview
    /\ LET s == [M3State EXCEPT !.v = NoReview]
       IN M3Become(IF review.alive /\ review.bound
                   THEN [s EXCEPT !.c[c] = [NoCall EXCEPT !.op = "confirm", !.at = "recheck", !.vault = review.vault,
                                                          !.kind = review.kind, !.account = review.owner]]
                   ELSE s)
    /\ UNCHANGED <<chosen, hints, provider, requests, server, resolved, quota>>

Recorded(v, account, kind) == \E n \in Range(hints[v][account]) : Hash(n).kind = kind

\* journal.assertWritable: no hint of the same call, and room for one more.
Writable(v, account, kind) ==
    /\ ~Recorded(v, account, kind)
    /\ Len(hints[v][account]) < JournalLimit

\* The code again, the flow's simulation for the account it connected, the journal.
Confirmable(c) ==
    /\ calls[c].kind \notin {"approve", "transfer"} => runtime[calls[c].vault].flow = calls[c].account
    /\ Accepted(c, calls[c].account)
    /\ calls[c].kind # "approve" => Writable(calls[c].vault, calls[c].account, calls[c].kind)

Recheck(c) ==
    /\ M3At(c, "recheck")
    /\ Confirmable(c)
    /\ M3Become([M3Goto(M3State, c, "send") EXCEPT !.c[c].changed = FALSE])
    /\ UNCHANGED <<chosen, hints, provider, requests, server, resolved, quota>>

\* Mutant: the selection is not looked at again.
StillBoundMutant(c) == TRUE

\* beforeSend
StillBound(c) == calls[c].bound

\* submit observes the wallet before and after a simulation; then beforeSend and the request.
SendTransaction(c) ==
    /\ M3At(c, "send")
    /\ provider.account = calls[c].account /\ ~calls[c].changed
    /\ StillBound(c)
    /\ requests' = Append(requests, [vault |-> calls[c].vault, owner |-> calls[c].account, kind |-> calls[c].kind,
                                     wallet |-> "asked", chain |-> "pending", kept |-> FALSE])
    /\ M3Become([M3Goto(M3State, c, "prompt") EXCEPT !.c[c].n = Len(requests) + 1,
                                                     !.r[calls[c].vault].page.tx = "WALLET_PENDING"])
    /\ UNCHANGED <<chosen, hints, provider, server, resolved, quota>>

\* retainSubmission: the hint is written before the server is told.
Retain(c) ==
    /\ M3At(c, "prompt") /\ Hash(calls[c].n).wallet = "signed"
    /\ LET v == calls[c].vault
           n == calls[c].n
           account == calls[c].account
           same == provider.account = account /\ ~calls[c].changed
           room == Len(hints[v][account]) < JournalLimit
           shown(s, tx) == M3End([s EXCEPT !.r[v].page.tx = tx, !.r[v].page.n = n], c)
           watched == [M3State EXCEPT !.r[v].pending = n]
       IN IF calls[c].kind = "approve"
          THEN /\ M3Become(shown(M3State, IF same THEN "SUBMITTED" ELSE "SUBMISSION_AMBIGUOUS"))
               /\ UNCHANGED <<hints, requests>>
          ELSE /\ hints' = IF room THEN [hints EXCEPT ![v][account] = Append(@, n)] ELSE hints
               /\ requests' = [requests EXCEPT ![n].kept = room]
               /\ M3Become(IF same /\ room THEN M3Goto(watched, c, "post")
                           ELSE shown(watched, "SUBMISSION_AMBIGUOUS"))
    /\ UNCHANGED <<chosen, provider, server, resolved, quota>>

\* The registration; its failure only makes the submission ambiguous.
Post(c) ==
    /\ M3At(c, "post")
    /\ LET v == calls[c].vault
           s == [M3State EXCEPT !.r[v].page.n = calls[c].n]
       IN \/ /\ server' = server \cup {calls[c].n}
             /\ M3Become(M3End([s EXCEPT !.r[v].known = @ \cup {calls[c].n}, !.r[v].page.tx = "SUBMITTED"], c))
             /\ UNCHANGED quota
          \/ /\ Use("fails")
             /\ M3Become(M3End([s EXCEPT !.r[v].page.tx = "SUBMISSION_AMBIGUOUS"], c))
             /\ UNCHANGED server
    /\ UNCHANGED <<chosen, hints, provider, requests, resolved>>

\* A refusal, or an answer that says nothing: no hash is known.
NoHash(c) ==
    /\ M3At(c, "prompt")
    /\ \/ Hash(calls[c].n).wallet = "refused" /\ M3Become(M3End(M3State, c)) /\ UNCHANGED quota
       \/ Use("fails") /\ M3Become(M3End([M3State EXCEPT !.r[calls[c].vault].page.tx = "SUBMISSION_AMBIGUOUS"], c))
    /\ UNCHANGED <<chosen, hints, provider, requests, server, resolved>>

\* A check after an await does not hold, or a request fails.
GiveUp(c) ==
    /\ \/ /\ \/ M3At(c, "authorize") /\ (Depositor(c) = Nobody \/ provider.account # Depositor(c) \/ calls[c].changed)
             \/ M3At(c, "simulate") /\ ~Simulates(c, ReviewOwner(c))
             \/ M3At(c, "recheck") /\ ~Confirmable(c)
             \/ M3At(c, "send") /\ (provider.account # calls[c].account \/ calls[c].changed \/ ~StillBound(c))
          /\ UNCHANGED quota
       \/ calls[c].at \in {"code", "authorize", "simulate", "recheck", "send"} /\ Use("fails")
    /\ M3Become(M3End(M3State, c))
    /\ UNCHANGED <<chosen, hints, provider, requests, server, resolved>>

----------------------------------------------------------------------------
(* The wallet, the server, the browser *)

SwitchWallet(account) ==
    /\ Use("switches")
    /\ account # provider.account
    /\ provider' = [account |-> account, told |-> FALSE]
    /\ UNCHANGED <<chosen, runtime, calls, review, hints, requests, server, resolved>>

\* The page's own listener comes first: it refreshes the chosen runtime, whose older read is then
\* superseded.  Reads of other runtimes invalidate them; wallet requests note the change.
WalletEvent ==
    /\ ~provider.told
    /\ provider' = [provider EXCEPT !.told = TRUE]
    /\ LET reading == {v \in Vaults \ {chosen} : \E c \in Calls : calls[c].vault = v /\ calls[c].at \in Reads /\ calls[c].ok}
           s == [M3State EXCEPT !.c = [k \in Calls |-> [calls[k] EXCEPT !.changed = @ \/ calls[k].at \in {"authorize", "send", "prompt"}]]]
       IN M3Become(FoldSet(LAMBDA v, t : Invalidate(t, v), BeginRefresh(s, "events", chosen), reading))
    /\ UNCHANGED <<chosen, hints, requests, server, resolved, quota>>

UserSigns(n) ==
    /\ Hash(n).wallet = "asked"
    /\ \/ provider.account = Hash(n).owner /\ requests' = [requests EXCEPT ![n].wallet = "signed"]
       \/ requests' = [requests EXCEPT ![n].wallet = "refused", ![n].chain = "failed"]
    /\ UNCHANGED <<chosen, runtime, calls, review, hints, provider, server, resolved, quota>>

\* What the server will say of a transaction it tracks.
EvidenceMoves(n) ==
    /\ Hash(n).wallet = "signed"
    /\ \/ /\ Hash(n).chain = "pending"
          /\ \E e \in {"ready", "failed"} : requests' = [requests EXCEPT ![n].chain = e]
          /\ UNCHANGED quota
       \/ /\ Hash(n).chain = "ready" /\ Use("reorgs")
          /\ requests' = [requests EXCEPT ![n].chain = "pending"]
    /\ UNCHANGED <<chosen, runtime, calls, review, hints, provider, server, resolved>>

ReloadPage ==
    /\ Use("reloads")
    /\ runtime' = [v \in Vaults |-> FreshRuntime]
    /\ calls' = [c \in Calls |-> NoCall]
    /\ review' = NoReview
    /\ chosen' = FirstVault
    /\ UNCHANGED <<hints, provider, requests, server, resolved>>

----------------------------------------------------------------------------
M3Init ==
    /\ chosen = FirstVault
    /\ runtime = [v \in Vaults |-> FreshRuntime]
    /\ calls = [c \in Calls |-> NoCall]
    /\ review = NoReview
    /\ hints = [v \in Vaults |-> [a \in Accounts |-> <<>>]]
    /\ provider = [account |-> VaultOwner, told |-> TRUE]
    /\ requests = <<>> /\ server = {} /\ resolved = {}
    /\ quota \in M3Budgets

M3Next ==
    \/ \E c \in Calls :
          \/ Superseded(c) \/ ConnectWallet(c) \/ WalletAnswers(c) \/ ReadFlowSnapshot(c) \/ ConnectedPresentation(c)
          \/ RestoreHint(c) \/ ConnectFailed(c)
          \/ Refresh(c) \/ ObserveWallet(c) \/ ShowAccount(c) \/ OlderHint(c) \/ SkipHint(c) \/ WatchedHint(c)
          \/ RegisterSubmission(c) \/ ShowEvidence(c) \/ EvidenceFails(c) \/ ShowRefreshed(c) \/ ReadFails(c)
          \/ \E v \in Vaults : SelectVault(c, v)
          \/ \E kind \in M3Kinds : Ask3(c, kind)
          \/ CheckCode(c) \/ Authorize(c) \/ SimulateAction(c) \/ BindReview(c)
          \/ ConfirmReview(c) \/ Recheck(c) \/ SendTransaction(c) \/ Retain(c) \/ Post(c) \/ NoHash(c) \/ GiveUp(c)
    \/ \E account \in Accounts \cup {Nobody} : SwitchWallet(account)
    \/ WalletEvent
    \/ \E n \in DOMAIN requests : UserSigns(n) \/ EvidenceMoves(n)
    \/ ReloadPage

M3Spec == M3Init /\ [][M3Next]_m3Vars

----------------------------------------------------------------------------
(* Properties *)

\* The chosen runtime, when no read of it is under way and the wallet's events were delivered.
Quiescent == provider.told /\ \A c \in Calls : ~(calls[c].vault = chosen /\ calls[c].at \in Reads)

\* What the page allows at rest (onchainActionEnabled reads the snapshot only) it allows to the account
\* the wallet has, in that account's session, and a Vault action to the Vault's owner: no late answer
\* of a read or of a deposit's review brings back authority that a change of account has ended.  The one
\* exception is page.late: reviewDepositApprovals publishes for the session it captured, which may have
\* ended before; what is then allowed stays so until a connected session is read or the wallet is gone
\* (OwnerInvalidated is the claim that this refutes).
AuthorityFresh ==
    LET r == runtime[chosen]
    IN Quiescent /\ (r.page.write \/ r.page.pass) /\ ~r.page.late =>
          /\ r.session = provider.account /\ r.page.account = provider.account
          /\ r.page.write => r.session = VaultOwner

\* "Wallet events invalidate the displayed owner immediately through the runtime": at rest, the page
\* shows an owner's authority only while the wallet has the Vault owner's account.
OwnerInvalidated == Quiescent /\ runtime[chosen].page.write => provider.account = VaultOwner

\* A transaction goes to the wallet only while the Vault it was reviewed for is still the chosen
\* one, and only for the account the wallet shows.
SentUnderSelection ==
    [][Len(requests') > Len(requests) =>
         LET new == requests'[Len(requests')]
         IN new.vault = chosen /\ new.owner = provider.account]_m3Vars

\* A submission that was retained keeps its hint in storage until its evidence was read as final,
\* through reloads, a full journal, and other submissions that are recorded or resolved meanwhile.
RetainedUntilResolved ==
    \A n \in DOMAIN requests : Hash(n).kept /\ n \notin resolved =>
        n \in Range(hints[Hash(n).vault][Hash(n).owner])

\* The transaction a runtime watches for its account gives way only to a fresh submission, also
\* after it was completed and its hint removed: no unresolved hint of storage takes its place.
WatchedStays ==
    [][\A v \in Vaults :
         LET old == runtime[v].pending
             new == runtime'[v].pending
         IN old # 0 /\ new # old /\ runtime'[v].session # Nobody /\ Hash(old).owner = runtime'[v].session
            => new # 0 /\ new \notin Range(hints[v][Hash(old).owner])]_m3Vars
=============================================================================
