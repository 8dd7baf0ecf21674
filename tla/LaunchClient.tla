----------------------------- MODULE LaunchClient -----------------------------
(***************************************************************************)
(* The launch market page (apps/web/src/launch-market/client.ts) with the  *)
(* wallet it talks to (chain-wallet.ts) and the one record it keeps in the *)
(* browser's storage.                                                      *)
(*                                                                         *)
(* A job is a call in progress: the poll timer, the event stream, and the  *)
(* calls of the user.  The code between two awaits is one step.  The page  *)
(* compares its counters (generation, identity revision, review epoch)     *)
(* with the values a call has captured; since they only grow, a job keeps  *)
(* for each one only whether its captured value is still current.          *)
(***************************************************************************)
EXTENDS Integers, Sequences, FiniteSets

CONSTANTS
    Owners,        \* wallet accounts
    UserJobs,      \* calls of the user that may be in progress at once
    Budgets,       \* what may happen in a behaviour: see Budget
    MaxSends,      \* bound on transactions handed to the wallet
    None

\* owner: the wallet's first account; acts: what the user does and what may go wrong; the numbers bound the clicks on Connect and
\* Link, the reviews, the stream's OPERATION messages, the reorganisations and the troubles.
Acts == {"connect", "bind", "max", "quote", "approve", "vault", "recover", "clear",
         "switch", "relink", "reload", "fail", "lost"}
Budget == [owner : Owners, acts : SUBSET Acts, connects : Nat, reviews : Nat, messages : Nat, reorgs : Nat, troubles : Nat]

ASSUME LaunchAssumption ==
    /\ None \notin Owners
    /\ UserJobs \cap {"timer", "stream"} = {}
    /\ Budgets \subseteq Budget
    /\ MaxSends \in Nat

VARIABLES
    page,        \* what LaunchMarketClient holds
    jobs,        \* the calls in progress
    storage,     \* localStorage: the Vault transaction to recover, or None
    wallet,      \* [account, told]: the wallet's account; whether the page was told of the last change
    link,        \* server: the wallet linked to the signed-in account, or None
    registered,  \* server: transactions it tracks
    sent,        \* transactions handed to the wallet, in order; a hash is a position
    reorged,     \* a reorganisation the event stream has not reported yet
    settled,     \* history: Vault transactions the page has once read as final
    left         \* what is left of the budget

launchVars == <<page, jobs, storage, wallet, link, registered, sent, reorged, settled, left>>
serverVars == <<link, registered>>

Jobs == {"timer", "stream"} \cup UserJobs

NoTx == [hash |-> 0, state |-> "IDLE", seen |-> FALSE, approval |-> FALSE, vault |-> FALSE, known |-> FALSE]
Final == {"COMPLETED", "REVERTED", "REJECTED"}
Open == {"AWAITING_WALLET", "SUBMITTED", "INCLUDED", "REORGED", "RECOVERY_REQUIRED"}

IdleJob == [op |-> "none", at |-> "idle", gen |-> TRUE, rev |-> TRUE, epoch |-> TRUE, owner |-> None,
            id |-> 0, answer |-> None, changed |-> FALSE, tx |-> NoTx, pend |-> None, n |-> 0, then |-> "end"]

FreshPage(saved) ==
    [owner |-> None, account |-> None, linked |-> None, snapshot |-> FALSE, busy |-> FALSE, quote |-> None,
     review |-> 0, tx |-> NoTx, pend |-> saved, confirmed |-> None, toRegister |-> 0, refreshing |-> FALSE]

\* Most of the code is a function of page, calls and storage together.
Client == [p |-> page, j |-> jobs, s |-> storage]
Become(c) == page' = c.p /\ jobs' = c.j /\ storage' = c.s

At(j, at) == jobs[j].at = at
Goto(c, j, at) == [c EXCEPT !.j[j].at = at]
EndJob(c, j) == [c EXCEPT !.j[j] = IdleJob]
Allowed(act) == act \in left.acts
Spend(what) == left[what] > 0 /\ left' = [left EXCEPT ![what] = @ - 1]
Trouble(act) == Allowed(act) /\ Spend("troubles")

----------------------------------------------------------------------------
(* Identity: what invalidates a review, and what a call checks *)

\* Which captured values a call will still compare.
Polling(job) == job.at \in {"read", "apply"} /\ job.tx.vault
Permitting(job) == job.op = "permit" /\ job.at \in {"fresh", "observe", "send"}
ComparesEpoch(job) == Polling(job) \/ Permitting(job) \/ (job.at = "review" /\ job.op = "vault")
ComparesRev(job) == job.at \in {"account", "assets", "review", "fresh", "observe", "send"}
ComparesGen(job) ==
    \/ Polling(job) \/ Permitting(job)
    \/ job.at \in {"connect", "account", "assets", "operations", "sign", "bound", "review", "lookup"}

\* Each counter grows: what the calls have captured of it is stale.
NextEpoch(c) ==
    [c EXCEPT !.j = [k \in Jobs |-> [c.j[k] EXCEPT !.epoch = @ /\ ~ComparesEpoch(c.j[k])]]]

NextRevision(c) ==
    [c EXCEPT !.j = [k \in Jobs |-> [c.j[k] EXCEPT !.rev = @ /\ ~ComparesRev(c.j[k])]]]

NextGeneration(c) ==
    [c EXCEPT !.j = [k \in Jobs |-> [c.j[k] EXCEPT !.gen = @ /\ ~ComparesGen(c.j[k])]]]

ClearedQuote(c) == [NextEpoch(c) EXCEPT !.p.quote = None, !.p.review = 0]

InvalidateIdentityReviews(c) == NextRevision(ClearedQuote(c))

\* The handler of accountsChanged, chainChanged and disconnect; submit listens to them as well.
InvalidateWallet(c) ==
    LET d == NextGeneration(InvalidateIdentityReviews(c))
    IN [d EXCEPT !.p.owner = None, !.p.linked = None, !.p.account = None,
                 !.p.tx.state = IF d.p.tx.hash # 0 /\ @ \notin Final THEN "RECOVERY_REQUIRED" ELSE @,
                 !.j = [k \in Jobs |-> [d.j[k] EXCEPT !.changed = d.j[k].at \in {"observe", "send", "prompt"}]]]

\* #assertIdentity with the revision the call has captured.
HasIdentity(c, j) ==
    /\ c.j[j].rev
    /\ c.p.account = c.j[j].owner
    /\ c.p.linked = c.p.account

\* #assertOwner: the wallet still shows the owner, and no change was reported.
HasOwner(c, j) == c.j[j].gen /\ wallet.account = c.j[j].owner

\* actionable: what every review asks for first.
Actionable ==
    /\ page.snapshot /\ page.owner # None
    /\ page.linked # None /\ page.account = page.linked
    /\ ~page.busy
    /\ page.tx.state \notin Open

----------------------------------------------------------------------------
(* refreshTransaction: one read of the current transaction *)

Status(hash) == sent[hash].status

\* A refresh that ends releases its flag.
EndRefresh(c, j) == EndJob([c EXCEPT !.p.refreshing = FALSE], j)
EndCall(c, j, then) == IF then = "end" THEN EndJob(c, j) ELSE EndRefresh(c, j)

\* Everything up to the first await: register first, or read, or there is nothing to read.
Waits(c) ==
    /\ c.p.tx.hash # 0 /\ c.p.tx.state \notin Final
    /\ (c.p.tx.vault /\ c.p.pend # None) \/ c.p.tx.approval \/ c.p.tx.known

PollFrom(c, j, then, at, n) ==
    [c EXCEPT !.j[j] = [IdleJob EXCEPT !.op = c.j[j].op, !.at = at, !.then = then, !.n = n,
                                       !.tx = IF at = "read" THEN c.p.tx ELSE NoTx,
                                       !.pend = IF at = "read" THEN c.p.pend ELSE None]]

StartPoll(c, j, then) ==
    IF c.p.toRegister # 0 THEN PollFrom(c, j, then, "register", c.p.toRegister)
    ELSE IF Waits(c) THEN PollFrom(c, j, then, "read", 0)
    ELSE EndCall(c, j, then)

\* After its poll, refresh takes a saved Vault transaction up and polls once more.
TakesUp(c) ==
    c.p.pend # None /\ c.p.owner = c.p.pend.owner /\ c.p.tx.state \in Final \cup {"IDLE"}

TakeUp(c, j) ==
    IF ~TakesUp(c) THEN EndRefresh(c, j)
    ELSE StartPoll([c EXCEPT !.p.tx = [NoTx EXCEPT
                        !.hash = c.p.pend.hash, !.vault = TRUE,
                        !.state = IF c.p.pend.hash = 0 THEN "RECOVERY_REQUIRED" ELSE "SUBMITTED"]], j, "refreshed")

EndPoll(c, j) == IF c.j[j].then = "recover" THEN TakeUp(c, j) ELSE EndCall(c, j, c.j[j].then)

PollAndTakeUp(c, j) ==
    IF c.p.toRegister # 0 \/ Waits(c) THEN StartPoll(c, j, "recover") ELSE TakeUp(c, j)

\* #register; the rest of refreshTransaction follows.
Register(j) ==
    /\ At(j, "register")
    /\ registered' = registered \cup {jobs[j].n}
    /\ LET c == [Client EXCEPT !.p.toRegister = 0, !.p.tx.known = TRUE]
       IN Become(IF Waits(c) THEN StartPoll(c, j, jobs[j].then) ELSE EndPoll(c, j))
    /\ UNCHANGED <<wallet, link, sent, reorged, settled, left>>

\* The receipt and its block, or the operation as the server tracks it.
ReadTx(j) ==
    /\ At(j, "read")
    /\ Become([Goto(Client, j, "apply") EXCEPT
                 !.j[j].answer = Status(IF jobs[j].tx.vault THEN jobs[j].pend.hash ELSE jobs[j].tx.hash)])
    /\ UNCHANGED <<wallet, serverVars, sent, reorged, settled, left>>

Outcome(tx, answer) ==
    CASE answer = "shallow" -> [tx EXCEPT !.state = "INCLUDED", !.seen = TRUE]
      [] answer = "deep" -> [tx EXCEPT !.state = "COMPLETED", !.seen = TRUE]
      [] answer = "failed" -> [tx EXCEPT !.state = "REVERTED", !.seen = TRUE]
      [] OTHER -> [tx EXCEPT !.state = IF tx.seen \/ tx.state = "REORGED" THEN "REORGED" ELSE "SUBMITTED",
                             !.seen = FALSE]

\* What the Vault branch compares after its awaits; the other two branches compare nothing.
StillCurrent(j) ==
    /\ page.pend = jobs[j].pend
    /\ jobs[j].gen /\ jobs[j].epoch
    /\ page.tx.hash = jobs[j].tx.hash /\ page.tx.vault

ApplyVault(j) ==
    /\ At(j, "apply") /\ jobs[j].tx.vault
    /\ LET tx == Outcome(jobs[j].tx, jobs[j].answer)
           final == tx.state \in {"COMPLETED", "REVERTED"}
           told == IF tx.state = "REORGED" THEN NextEpoch(Client) ELSE Client
           shown == [told EXCEPT !.p.tx = tx]
           done == [shown EXCEPT !.p.confirmed = jobs[j].pend, !.p.pend = None, !.s = None]
       IN \/ /\ ~StillCurrent(j)
             /\ Become(EndPoll(Client, j))
             /\ UNCHANGED settled
          \/ /\ StillCurrent(j)
             /\ Become(EndPoll(IF final THEN done ELSE shown, j))
             /\ settled' = IF final THEN settled \cup {tx.hash} ELSE settled
    /\ UNCHANGED <<wallet, serverVars, sent, reorged, left>>

ApplyOther(j) ==
    /\ At(j, "apply") /\ ~jobs[j].tx.vault
    /\ Become(EndPoll([Client EXCEPT !.p.tx = Outcome(jobs[j].tx, jobs[j].answer)], j))
    /\ UNCHANGED <<wallet, serverVars, sent, reorged, settled, left>>

----------------------------------------------------------------------------
(* refresh *)

\* A refresh already running makes the call return at once.
StartRefresh(c, j) ==
    IF c.p.refreshing THEN EndJob(c, j)
    ELSE [c EXCEPT !.p.refreshing = TRUE, !.j[j] = [IdleJob EXCEPT !.op = c.j[j].op, !.at = "account"]]

\* Configuration, snapshot and account; a changed account or link ends the reviews.
ReadAccount(j) ==
    /\ At(j, "account")
    /\ LET c == [Client EXCEPT !.p.snapshot = TRUE]
           d == IF c.p.account # link THEN InvalidateIdentityReviews(c) ELSE c
           e == [d EXCEPT !.p.account = link,
                          !.p.linked = IF (c.p.account = None) # (link = None) THEN None ELSE @,
                          !.j[j].rev = TRUE, !.j[j].owner = c.p.owner]
       IN Become(IF ~jobs[j].gen \/ ~jobs[j].rev THEN EndRefresh(c, j)
                 ELSE IF c.p.owner = None THEN PollAndTakeUp(e, j)
                 ELSE Goto(e, j, "assets"))
    /\ UNCHANGED <<wallet, serverVars, sent, reorged, settled, left>>

\* The wallet's assets and the account it is linked to.  HasOwner fails as an error.
ReadAssets(j) ==
    /\ At(j, "assets")
    /\ HasOwner(Client, j)
    /\ LET mine == IF link = jobs[j].owner THEN link ELSE None
           c == IF page.linked # mine THEN InvalidateIdentityReviews(Client) ELSE Client
           d == [c EXCEPT !.p.linked = mine]
       IN Become(IF ~jobs[j].rev THEN EndRefresh(Client, j)
                 ELSE IF mine # None /\ mine # page.account
                      THEN EndRefresh([InvalidateIdentityReviews(c) EXCEPT !.p.account = None, !.p.linked = None], j)
                 ELSE IF page.tx.state = "IDLE" /\ mine # None THEN Goto(d, j, "operations")
                 ELSE PollAndTakeUp(d, j))
    /\ UNCHANGED <<wallet, serverVars, sent, reorged, settled, left>>

Tracked(owner) == {n \in registered : sent[n].owner = owner /\ Status(n) \notin {"deep", "failed"}}

\* A transaction the server still tracks is taken up again.
ReadOperations(j) ==
    /\ At(j, "operations")
    /\ HasOwner(Client, j)
    /\ \/ /\ Tracked(jobs[j].owner) = {}
          /\ Become(PollAndTakeUp(Client, j))
       \/ \E n \in Tracked(jobs[j].owner) :
             Become(PollAndTakeUp([Client EXCEPT !.p.quote = None,
                                                 !.p.tx = [NoTx EXCEPT !.hash = n, !.state = "SUBMITTED",
                                                                       !.known = TRUE]], j))
    /\ UNCHANGED <<wallet, serverVars, sent, reorged, settled, left>>

----------------------------------------------------------------------------
(* The user's calls up to a review *)

Free(j) == j \in UserJobs /\ At(j, "idle")

Begin(c, j, op, at, owner, id) ==
    [c EXCEPT !.j[j] = [IdleJob EXCEPT !.op = op, !.at = at, !.owner = owner, !.id = id]]

Connect(j) ==
    /\ Allowed("connect") /\ Free(j) /\ ~page.busy
    /\ Spend("connects")
    /\ Become(Begin(NextGeneration(InvalidateIdentityReviews(Client)), j, "connect", "connect", None, 0))
    /\ UNCHANGED <<wallet, serverVars, sent, reorged, settled>>

Connected(j) ==
    /\ At(j, "connect")
    /\ jobs[j].gen /\ wallet.account # None
    /\ Become(StartRefresh([Client EXCEPT !.p.owner = wallet.account], j))
    /\ UNCHANGED <<wallet, serverVars, sent, reorged, settled, left>>

\* bindWallet: sign a message, then link; it releases the lock before its last refresh.
Bind(j) ==
    /\ Allowed("bind") /\ Free(j) /\ page.owner # None /\ ~page.busy
    /\ Spend("connects")
    /\ Become(Begin([Client EXCEPT !.p.busy = TRUE], j, "bind", "sign", page.owner, 0))
    /\ UNCHANGED <<wallet, serverVars, sent, reorged, settled>>

SignMessage(j) ==
    /\ At(j, "sign")
    /\ HasOwner(Client, j)
    /\ link' = jobs[j].owner
    /\ Become(Goto(Client, j, "bound"))
    /\ UNCHANGED <<wallet, registered, sent, reorged, settled, left>>

Bound(j) ==
    /\ At(j, "bound")
    /\ HasOwner(Client, j)
    /\ Become(StartRefresh([Client EXCEPT !.p.busy = FALSE], j))
    /\ UNCHANGED <<wallet, serverVars, sent, reorged, settled, left>>

\* previewNativeMax, review, and reviewStock or reviewExecutorPermission.
Ask(j, op) ==
    /\ Allowed(op) /\ Free(j) /\ Actionable
    /\ op = "vault" => page.pend = None
    /\ page.account = page.owner
    /\ LET c == IF op = "quote" \/ op = "approve" THEN Client ELSE NextEpoch(Client)
       IN Become([Begin(c, j, op, "review", page.owner, left.reviews)
                    EXCEPT !.p.busy = TRUE, !.p.quote = None, !.p.review = 0])
    /\ Spend("reviews")
    /\ UNCHANGED <<wallet, serverVars, sent, reorged, settled>>

Answered(j) ==
    /\ At(j, "review")
    /\ HasOwner(Client, j) /\ HasIdentity(Client, j)
    /\ jobs[j].op = "vault" => jobs[j].epoch
    /\ LET c == EndJob([Client EXCEPT !.p.busy = FALSE], j)
       IN Become(CASE jobs[j].op = "max" -> c
                   [] jobs[j].op = "vault" -> [c EXCEPT !.p.review = jobs[j].id]
                   [] OTHER -> [c EXCEPT !.p.quote = [id |-> jobs[j].id, owner |-> jobs[j].owner,
                                                      approval |-> jobs[j].op = "approve"]])
    /\ UNCHANGED <<wallet, serverVars, sent, reorged, settled, left>>

ClearQuote ==
    /\ Allowed("clear") /\ (page.quote # None \/ page.review # 0)
    /\ Become(ClearedQuote(Client))
    /\ UNCHANGED <<wallet, serverVars, sent, reorged, settled, left>>

----------------------------------------------------------------------------
(* confirm and confirmExecutorPermission *)

Awaiting(vault, approval) == [NoTx EXCEPT !.state = "AWAITING_WALLET", !.vault = vault, !.approval = approval]

Confirm(j) ==
    /\ Free(j) /\ page.quote # None /\ ~page.busy
    /\ page.account = page.quote.owner /\ page.linked = page.account
    /\ LET tx == Awaiting(FALSE, page.quote.approval)
       IN Become([Begin(Client, j, "confirm", "observe", page.quote.owner, page.quote.id)
                    EXCEPT !.p.busy = TRUE, !.p.tx = tx, !.j[j].tx = tx])
    /\ UNCHANGED <<wallet, serverVars, sent, reorged, settled, left>>

ConfirmVault(j) ==
    /\ Free(j) /\ page.review # 0 /\ ~page.busy /\ page.pend = None
    /\ page.account # None /\ page.linked = page.account
    /\ Become([Begin(Client, j, "permit", "fresh", page.account, page.review) EXCEPT !.p.busy = TRUE])
    /\ UNCHANGED <<wallet, serverVars, sent, reorged, settled, left>>

\* Mutant: the record is written to storage only once there is a hash.
VaultFreshMutant(j) ==
    /\ At(j, "fresh")
    /\ HasOwner(Client, j) /\ HasIdentity(Client, j)
    /\ jobs[j].epoch /\ page.review = jobs[j].id
    /\ Become([Goto(Client, j, "observe") EXCEPT
                 !.p.tx = Awaiting(TRUE, FALSE),
                 !.p.pend = [owner |-> jobs[j].owner, id |-> jobs[j].id, hash |-> 0]])
    /\ UNCHANGED <<wallet, serverVars, sent, reorged, settled, left>>

\* The Vault is read again; then the record goes to storage, before the wallet is asked.
VaultFresh(j) ==
    /\ At(j, "fresh")
    /\ HasOwner(Client, j) /\ HasIdentity(Client, j)
    /\ jobs[j].epoch /\ page.review = jobs[j].id
    /\ LET record == [owner |-> jobs[j].owner, id |-> jobs[j].id, hash |-> 0]
       IN Become([Goto(Client, j, "observe") EXCEPT
                    !.p.tx = Awaiting(TRUE, FALSE), !.p.pend = record, !.s = record, !.j[j].changed = FALSE])
    /\ UNCHANGED <<wallet, serverVars, sent, reorged, settled, left>>

\* Eip1193Wallet.submit: the account is observed, then the last checks and the send are one step.
Observe(j) ==
    /\ At(j, "observe")
    /\ Become([Goto(Client, j, "send") EXCEPT !.j[j].answer = wallet.account])
    /\ UNCHANGED <<wallet, serverVars, sent, reorged, settled, left>>

BeforeSend(j) ==
    /\ page.owner = jobs[j].owner
    /\ HasIdentity(Client, j)
    /\ jobs[j].op = "permit" => jobs[j].gen /\ jobs[j].epoch /\ page.review = jobs[j].id

Send(j) ==
    /\ At(j, "send")
    /\ jobs[j].answer = jobs[j].owner /\ ~jobs[j].changed
    /\ BeforeSend(j)
    /\ Len(sent) < MaxSends
    /\ sent' = Append(sent, [vault |-> jobs[j].op = "permit", id |-> jobs[j].id,
                             owner |-> jobs[j].owner, status |-> "prompt"])
    /\ Become([Goto(Client, j, "prompt") EXCEPT !.j[j].n = Len(sent) + 1, !.j[j].answer = None])
    /\ UNCHANGED <<wallet, serverVars, reorged, settled, left>>

\* What the page keeps of a submission; hash 0 when the wallet's answer was lost.
Submitted(j, hash, state) ==
    LET job == jobs[j]
        tx == [page.tx EXCEPT !.hash = hash, !.state = state, !.seen = FALSE, !.known = FALSE,
                              !.vault = job.op = "permit",
                              !.approval = job.tx.approval]
        c == [Client EXCEPT !.p.busy = FALSE, !.p.tx = tx]
        record == [owner |-> job.owner, id |-> job.id, hash |-> hash]
    IN IF job.op = "permit"
       THEN StartPoll(IF hash = 0 THEN [c EXCEPT !.p.review = 0]
                      ELSE [c EXCEPT !.p.review = 0, !.p.pend = record, !.s = record], j, "end")
       ELSE IF hash = 0 THEN EndJob([c EXCEPT !.p.quote = None], j)
       ELSE StartPoll([c EXCEPT !.p.quote = None, !.p.toRegister = IF tx.approval THEN @ ELSE hash], j, "end")

\* The hash arrives; one more look at the wallet tells SUBMITTED from RECOVERY_REQUIRED.
HashArrives(j) ==
    /\ At(j, "prompt")
    /\ Status(jobs[j].n) \notin {"prompt", "rejected"}
    /\ Become(Submitted(j, jobs[j].n, IF ~jobs[j].changed /\ wallet.account = jobs[j].owner
                                      THEN "SUBMITTED" ELSE "RECOVERY_REQUIRED"))
    /\ UNCHANGED <<wallet, serverVars, sent, reorged, settled, left>>

\* The provider answers with an error that is no refusal: nobody knows what the wallet did.
AnswerLost(j) ==
    /\ At(j, "prompt")
    /\ Trouble("lost")
    /\ Become(Submitted(j, 0, "RECOVERY_REQUIRED"))
    /\ UNCHANGED <<wallet, serverVars, sent, reorged, settled>>

\* recoverExecutorTransaction: the user enters a hash, checked against the saved call.
Recover(j) ==
    /\ Allowed("recover") /\ Free(j) /\ page.pend # None /\ page.pend.hash = 0
    /\ Become([Begin(Client, j, "recover", "lookup", page.pend.owner, 0) EXCEPT !.j[j].pend = page.pend])
    /\ UNCHANGED <<wallet, serverVars, sent, reorged, settled, left>>

LookUp(j) ==
    /\ At(j, "lookup")
    /\ HasOwner(Client, j)
    /\ \E n \in DOMAIN sent :
          /\ sent[n].vault /\ sent[n].id = jobs[j].pend.id /\ sent[n].owner = jobs[j].pend.owner
          /\ Status(n) \notin {"prompt", "rejected"}
          /\ LET record == [jobs[j].pend EXCEPT !.hash = n]
             IN Become(StartPoll([Client EXCEPT
                    !.p.pend = record, !.s = record,
                    !.p.tx = [NoTx EXCEPT !.hash = n, !.state = "SUBMITTED", !.vault = TRUE]], j, "end"))
    /\ UNCHANGED <<wallet, serverVars, sent, reorged, settled, left>>

----------------------------------------------------------------------------
(* Errors *)

Submitting == {"observe", "send", "prompt"}
Reading == {"account", "assets", "operations", "register", "read", "apply"}

\* The catch clauses a call passes on its way out, from the inner one to the outer one.
Caught(c, j) ==
    LET job == c.j[j]
        inRefresh == job.at \in Reading /\ (job.then # "end" \/ job.at \in {"account", "assets", "operations"})
        released == [c EXCEPT !.p.refreshing = IF inRefresh THEN FALSE ELSE @]
        unlocked == [released EXCEPT !.p.busy = FALSE]
        wait == c.p.tx.state = "AWAITING_WALLET"
        forgotten == IF job.at \in Submitting THEN [unlocked EXCEPT !.p.pend = None, !.s = None] ELSE unlocked
    IN CASE job.op = "connect" -> [released EXCEPT !.p.owner = None, !.p.linked = None]
         [] job.op \in {"bind", "max", "quote", "approve", "vault"} -> unlocked
         [] job.op = "confirm" -> [unlocked EXCEPT !.p.tx.state = IF wait THEN "REJECTED" ELSE "RECOVERY_REQUIRED"]
         [] job.op = "permit" -> [forgotten EXCEPT !.p.tx.state = IF wait THEN "REJECTED" ELSE @]
         [] OTHER -> released

\* setError: an expired session also ends the reviews.
SetError(c) ==
    IF link # None THEN c
    ELSE [InvalidateIdentityReviews(c) EXCEPT !.p.account = None, !.p.linked = None]

Throw(j) == Become(EndJob(SetError(Caught(Client, j)), j))

\* A check after an await does not hold.
Refused(j) ==
    /\ \/ jobs[j].at = "connect" /\ ~(jobs[j].gen /\ wallet.account # None)
       \/ jobs[j].at \in {"assets", "operations", "sign", "bound", "review", "fresh", "lookup"}
            /\ ~HasOwner(Client, j)
       \/ jobs[j].at \in {"review", "fresh"} /\ ~HasIdentity(Client, j)
       \/ jobs[j].at = "review" /\ jobs[j].op = "vault" /\ ~jobs[j].epoch
       \/ jobs[j].at = "fresh" /\ (~jobs[j].epoch \/ page.review # jobs[j].id)
       \/ jobs[j].at = "send" /\ (jobs[j].answer # jobs[j].owner \/ jobs[j].changed \/ ~BeforeSend(j))
       \/ jobs[j].at = "prompt" /\ Status(jobs[j].n) = "rejected"
    /\ Throw(j)
    /\ UNCHANGED <<wallet, serverVars, sent, reorged, settled, left>>

\* A request fails or times out.
Fail(j) ==
    /\ jobs[j].at \in {"connect", "sign", "bound", "review", "fresh", "observe", "lookup",
                       "account", "assets", "operations", "register", "read"}
    /\ Trouble("fail")
    /\ Throw(j)
    /\ UNCHANGED <<wallet, serverVars, sent, reorged, settled>>

----------------------------------------------------------------------------
(* The page, the wallet, the chain *)

\* The poll interval, and the event stream's OPERATION message.
Timer ==
    /\ At("timer", "idle") /\ ~page.refreshing
    /\ Become(StartRefresh([Client EXCEPT !.j["timer"].op = "refresh"], "timer"))
    /\ UNCHANGED <<wallet, serverVars, sent, reorged, settled, left>>

StreamOperation ==
    /\ At("stream", "idle") /\ page.tx.hash # 0
    /\ Spend("messages")
    /\ Become(StartPoll([Client EXCEPT !.j["stream"].op = "poll"], "stream", "end"))
    /\ UNCHANGED <<wallet, serverVars, sent, reorged, settled>>

\* REORG: reads are dropped, a confirmed Vault transaction is pending again.
StreamReorg ==
    /\ reorged
    /\ reorged' = FALSE
    /\ LET c == ClearedQuote(Client)
           back == /\ page.tx.vault /\ page.pend = None
                   /\ page.confirmed # None /\ page.confirmed.hash = page.tx.hash
           d == IF back THEN [c EXCEPT !.p.pend = page.confirmed, !.s = page.confirmed] ELSE c
           e == [d EXCEPT !.p.snapshot = FALSE, !.p.linked = None,
                          !.p.tx = IF @.hash # 0 THEN [@ EXCEPT !.state = "REORGED", !.seen = FALSE] ELSE @]
       IN Become(IF At("stream", "idle") THEN StartRefresh([e EXCEPT !.j["stream"].op = "refresh"], "stream") ELSE e)
    /\ UNCHANGED <<wallet, serverVars, sent, settled, left>>

Reload ==
    /\ Trouble("reload")
    /\ page' = FreshPage(storage)
    /\ jobs' = [j \in Jobs |-> IdleJob]
    /\ UNCHANGED <<storage, wallet, serverVars, sent, reorged, settled>>

\* The wallet changes its account (None: locked, or another chain) and tells the page later.
SwitchAccount(account) ==
    /\ Trouble("switch")
    /\ account # wallet.account
    /\ wallet' = [account |-> account, told |-> FALSE]
    /\ UNCHANGED <<page, jobs, storage, serverVars, sent, reorged, settled>>

AccountsChanged ==
    /\ ~wallet.told
    /\ wallet' = [wallet EXCEPT !.told = TRUE]
    /\ Become(InvalidateWallet(Client))
    /\ UNCHANGED <<serverVars, sent, reorged, settled, left>>

\* The account is signed out, or linked to another wallet, elsewhere.
Relink(owner) ==
    /\ Trouble("relink")
    /\ owner # link
    /\ link' = owner
    /\ UNCHANGED <<page, jobs, storage, wallet, registered, sent, reorged, settled>>

SetStatus(n, status) == sent' = [sent EXCEPT ![n].status = status]

\* The wallet signs only for the account it shows.
WalletDecides(n) ==
    /\ Status(n) = "prompt"
    /\ \/ wallet.account = sent[n].owner /\ SetStatus(n, "waiting")
       \/ SetStatus(n, "rejected")
    /\ UNCHANGED <<page, jobs, storage, wallet, serverVars, reorged, settled, left>>

ChainMoves(n) ==
    /\ \/ Status(n) = "waiting" /\ SetStatus(n, "shallow")
       \/ Status(n) = "shallow" /\ \E s \in {"deep", "failed"} : SetStatus(n, s)
    /\ UNCHANGED <<page, jobs, storage, wallet, serverVars, reorged, settled, left>>

Reorg(n) ==
    /\ Status(n) \in {"shallow", "deep", "failed"}
    /\ SetStatus(n, "waiting")
    /\ reorged' = TRUE
    /\ Spend("reorgs")
    /\ UNCHANGED <<page, jobs, storage, wallet, serverVars, settled>>

----------------------------------------------------------------------------
LaunchInit ==
    /\ page = FreshPage(None)
    /\ jobs = [j \in Jobs |-> IdleJob]
    /\ storage = None
    /\ left \in Budgets
    /\ wallet = [account |-> left.owner, told |-> TRUE]
    /\ link \in {None, left.owner}
    /\ registered = {}
    /\ sent = <<>>
    /\ reorged = FALSE
    /\ settled = {}

\* The steps of a call that has begun.
Proceed(j) ==
    \/ Register(j) \/ ReadTx(j) \/ ApplyVault(j) \/ ApplyOther(j)
    \/ ReadAccount(j) \/ ReadAssets(j) \/ ReadOperations(j)
    \/ Connected(j) \/ SignMessage(j) \/ Bound(j) \/ Answered(j)
    \/ VaultFresh(j) \/ Observe(j) \/ Send(j) \/ HashArrives(j) \/ LookUp(j) \/ Refused(j)

UserClicks(j) ==
    \/ Connect(j) \/ Bind(j) \/ \E op \in {"max", "quote", "approve", "vault"} : Ask(j, op)
    \/ Confirm(j) \/ ConfirmVault(j) \/ Recover(j)

LaunchNext ==
    \/ \E j \in Jobs : Proceed(j) \/ UserClicks(j) \/ AnswerLost(j) \/ Fail(j)
    \/ ClearQuote \/ Timer \/ StreamOperation \/ StreamReorg \/ Reload \/ AccountsChanged
    \/ \E owner \in Owners \cup {None} : SwitchAccount(owner) \/ Relink(owner)
    \/ \E n \in DOMAIN sent : WalletDecides(n) \/ ChainMoves(n) \/ Reorg(n)

\* Every request ends (they carry timeouts), the interval keeps firing, the event stream and
\* the wallet's events are delivered.
LaunchSpec ==
    /\ LaunchInit /\ [][LaunchNext]_launchVars
    /\ \A j \in Jobs : WF_launchVars(Proceed(j))
    /\ WF_launchVars(Timer) /\ WF_launchVars(StreamReorg) /\ WF_launchVars(AccountsChanged)

----------------------------------------------------------------------------
(* Properties *)

\* A Vault transaction that was handed to the wallet, was not refused and was never read as
\* final is in the browser's storage, so a reload at any moment can take it up again.
VaultSendRecorded ==
    \A n \in DOMAIN sent :
        sent[n].vault /\ Status(n) # "rejected" /\ n \notin settled
        => storage # None /\ storage.id = sent[n].id

\* At the moment a transaction is handed to the wallet the page shows the owner it was reviewed
\* for, signed in and linked, and a Vault review is still the one on display: no account
\* switch, sign-out, relink, reorganisation or cleared review slips in between.
SentAsReviewed ==
    [][Len(sent') > Len(sent) =>
         LET new == sent'[Len(sent')]
         IN /\ page.owner = new.owner /\ page.account = new.owner /\ page.linked = new.owner
            /\ new.vault => page.review = new.id]_launchVars

\* A Vault transaction shown as completed is deep on the chain, or the report of the
\* reorganisation that removed it is still on its way.
CompletedHolds ==
    page.tx.vault /\ page.tx.state = "COMPLETED" => Status(page.tx.hash) = "deep" \/ reorged

\* With its owner connected and the chain at rest, a Vault transaction with a known hash does
\* not stay unsettled on the page for ever.
VaultFollowed ==
    ~<>[](/\ page.pend # None
          /\ page.pend.hash # 0
          /\ page.owner = page.pend.owner
          /\ Status(page.pend.hash) \in {"deep", "failed"})

\* While a call waits for the wallet, the page is locked: a failed read never releases the lock.
LockHeld == \A j \in UserJobs : jobs[j].at = "prompt" => page.busy
=============================================================================
