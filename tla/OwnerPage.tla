----------------------------- MODULE OwnerPage -----------------------------
(***************************************************************************)
(* The owner's page of the public testnet (apps/web/src/TestnetPage.tsx    *)
(* with testnet-wallet-client.ts and testnet-ui-state.ts): the login, the  *)
(* account reader and one Vault's card, with the wallet, the browser's     *)
(* cookie and storage, and what the server answers.  WalletAuth models how *)
(* the server keeps logins, TestnetServer how it follows operations.       *)
(***************************************************************************)
EXTENDS Naturals, Sequences

CONSTANTS
    Accounts,     \* accounts of the wallet; each owns a Vault
    Nobody,
    PageBudgets   \* [kinds, ops, changes, reloads, fails]: tracked or not; previews, account changes, reloads, failing calls

ASSUME PageAssumption ==
    /\ Nobody \notin Accounts
    /\ PageBudgets \subseteq [kinds : SUBSET BOOLEAN, ops : Nat, changes : Nat, reloads : Nat, fails : Nat]

VARIABLES
    selected,  \* the wallet's account
    cookie,    \* whose session the browser's cookie names
    storage,   \* localStorage: the intent under each owner's key
    ops,       \* what was previewed: [owner, tracked, state], state of its transaction
    client,    \* TestnetWalletClient.owner
    login,     \* [step, owner, current]: login() and whether its generation is still the client's
    logouts,   \* logout requests not yet answered
    reader,    \* TestnetAccountReader: [owner, phase, reading]
    card,      \* VaultCard: [up, key, busy, pending, prepared]
    confirms,  \* confirm() calls: [op, key, step, live, current]
    purse,     \* what is left of the budget
    marks      \* history [overtaken, troubled, kept]: a login passed an unfinished confirmation; a login that was
               \* verified, or a logout, failed; whose session the page's last load found in the cookie, until
               \* the cookie changes

pageVars == <<selected, cookie, storage, ops, client, login, logouts, reader, card, confirms, purse, marks>>

Keys == Accounts \cup {Nobody}
NoIntent == [op |-> 0, hash |-> FALSE]
NoCard == [up |-> FALSE, key |-> Nobody, busy |-> FALSE, pending |-> NoIntent, prepared |-> 0]
NoLogin == [step |-> "idle", owner |-> Nobody, current |-> TRUE]
Disconnected == [owner |-> Nobody, phase |-> "DISCONNECTED", reading |-> FALSE]
OpIds == DOMAIN ops
Failing == purse.fails > 0 /\ purse' = [purse EXCEPT !.fails = @ - 1]

----------------------------------------------------------------------------
(* Login *)

\* A card leaves the page with its state; its calls go on without it.
Unmounted == card' = NoCard /\ confirms' = {[c EXCEPT !.live = FALSE, !.current = FALSE] : c \in confirms}

Login ==
    /\ reader.owner = Nobody /\ login.step = "idle"
    /\ login' = [NoLogin EXCEPT !.step = "asked"]
    /\ client' = Nobody /\ reader' = Disconnected /\ Unmounted
    /\ UNCHANGED <<selected, cookie, storage, ops, logouts, purse, marks>>

\* The account, the chain and the challenge, whose text is checked before it is signed.
LoginChallenge ==
    /\ login.step = "asked"
    /\ login' = [login EXCEPT !.step = "signing", !.owner = selected]
    /\ UNCHANGED <<selected, cookie, storage, ops, client, logouts, reader, card, confirms, purse, marks>>

LoginSigned ==
    /\ login.step = "signing"
    /\ login' = IF login.current /\ selected = login.owner THEN [login EXCEPT !.step = "verifying"] ELSE NoLogin
    /\ UNCHANGED <<selected, cookie, storage, ops, client, logouts, reader, card, confirms, purse, marks>>

LoginVerified ==
    /\ login.step = "verifying"
    /\ cookie' = login.owner /\ login' = [login EXCEPT !.step = "checking"]
    /\ marks' = [marks EXCEPT !.kept = Nobody]
    /\ UNCHANGED <<selected, storage, ops, client, logouts, reader, card, confirms, purse>>

\* logout(): the generation moves on, the owner is forgotten, the request leaves.
LogsOut == logouts' = logouts + 1 /\ client' = Nobody

\* Mutant: an overtaken login only reports the change.
StaleLoginMutant == UNCHANGED <<client, logouts>>

\* An overtaken login takes back the session it got.
StaleLogin == LogsOut

\* After the comparison of the generation account() and requireChain() are awaited, and the owner is set
\* without another comparison.  These awaits are one step here: a change that falls between them has
\* its own logout, which ends the session all the same.
LoginChecked ==
    /\ login.step = "checking"
    /\ IF login.current /\ selected = login.owner
       THEN /\ client' = login.owner /\ login' = [login EXCEPT !.step = "refreshing"]
            /\ reader' = [owner |-> login.owner, phase |-> "LOADING", reading |-> TRUE]
            /\ marks' = [marks EXCEPT !.overtaken = @ \/ \E c \in confirms : c.step \in {"latest", "assert"}]
            /\ UNCHANGED logouts
       ELSE StaleLogin /\ login' = NoLogin /\ UNCHANGED <<reader, marks>>
    /\ UNCHANGED <<selected, cookie, storage, ops, card, confirms, purse>>

\* login() waits for its first reading, also for one that was superseded.
AfterReading == login' = IF login.step = "refreshing" THEN NoLogin ELSE login

LoginDone ==
    /\ login.step = "refreshing" /\ reader.owner = Nobody /\ login' = NoLogin
    /\ UNCHANGED <<selected, cookie, storage, ops, client, logouts, reader, card, confirms, purse, marks>>

\* The wallet or the server refuses; after the verification the session stays in the cookie.
LoginFails ==
    /\ login.step \in {"asked", "signing", "verifying", "checking"} /\ Failing
    /\ login' = NoLogin
    /\ marks' = [marks EXCEPT !.troubled = @ \/ login.step = "checking"]
    /\ UNCHANGED <<selected, cookie, storage, ops, client, logouts, reader, card, confirms>>

\* invalidate, and the page's own logout.
Leave ==
    /\ reader' = Disconnected /\ Unmounted
    /\ login' = [login EXCEPT !.current = FALSE]
    /\ LogsOut

\* The wallet's change and the delivery of its event are one step: a call of the page in between
\* still acts for the account it was made for.
AccountsChanged ==
    /\ purse.changes > 0 /\ purse' = [purse EXCEPT !.changes = @ - 1]
    /\ \E a \in Accounts \ {selected} : selected' = a
    /\ Leave
    /\ UNCHANGED <<cookie, storage, ops, marks>>

Logout ==
    /\ reader.owner # Nobody
    /\ purse.changes > 0 /\ purse' = [purse EXCEPT !.changes = @ - 1]
    /\ Leave
    /\ UNCHANGED <<selected, cookie, storage, ops, marks>>

LoggedOut ==
    /\ logouts > 0 /\ logouts' = logouts - 1
    /\ cookie' = Nobody
    /\ marks' = [marks EXCEPT !.kept = Nobody]
    /\ UNCHANGED <<selected, storage, ops, client, login, reader, card, confirms, purse>>

LogoutLost ==
    /\ logouts > 0 /\ Failing /\ logouts' = logouts - 1
    /\ marks' = [marks EXCEPT !.troubled = TRUE]
    /\ UNCHANGED <<selected, cookie, storage, ops, client, login, reader, card, confirms>>

\* The page is loaded again; the wallet keeps its prompts, the browser cookie and storage.  A login or
\* logout request under way is answered or not, and the loaded page restores no account.
Reload ==
    /\ purse.reloads > 0 /\ purse' = [purse EXCEPT !.reloads = @ - 1]
    /\ client' = Nobody /\ login' = NoLogin /\ reader' = Disconnected /\ card' = NoCard /\ confirms' = {} /\ logouts' = 0
    /\ cookie' \in {cookie} \cup (IF login.step = "verifying" THEN {login.owner} ELSE {}) \cup (IF logouts > 0 THEN {Nobody} ELSE {})
    /\ marks' = [marks EXCEPT !.kept = cookie']
    /\ UNCHANGED <<selected, storage, ops>>

----------------------------------------------------------------------------
(* The account reader *)

Refresh ==
    /\ reader.owner # Nobody /\ ~reader.reading
    /\ reader' = [reader EXCEPT !.reading = TRUE]
    /\ UNCHANGED <<selected, cookie, storage, ops, client, login, logouts, card, confirms, purse, marks>>

\* The card mounts, or is drawn again, with the client's owner in its key.
Drawn ==
    IF card.up /\ card.key = client THEN card
    ELSE [IF card.up THEN card ELSE [NoCard EXCEPT !.up = TRUE] EXCEPT
             !.key = client, !.pending = IF storage[client] # NoIntent THEN storage[client] ELSE @]

Accepted == cookie = reader.owner

ReadDone ==
    /\ reader.reading
    /\ IF Accepted THEN reader' = [reader EXCEPT !.phase = "READY", !.reading = FALSE] /\ card' = Drawn /\ UNCHANGED confirms
       ELSE reader' = Disconnected /\ card' = NoCard /\ confirms' = {[c EXCEPT !.live = FALSE] : c \in confirms}
    /\ AfterReading
    /\ UNCHANGED <<selected, cookie, storage, ops, client, logouts, purse, marks>>

\* What was prepared is dropped when the reading is no longer ready.
ReadFails ==
    /\ reader.reading /\ Failing
    /\ reader' = [reader EXCEPT !.reading = FALSE, !.phase = IF card.up THEN "STALE" ELSE "DISCONNECTED"]
    /\ card' = [card EXCEPT !.prepared = 0] /\ AfterReading
    /\ UNCHANGED <<selected, cookie, storage, ops, client, logouts, confirms, marks>>

----------------------------------------------------------------------------
(* The card *)

AssertOwner == client # Nobody /\ client = reader.owner /\ selected = client
Usable == card.up /\ ~card.busy /\ cookie = reader.owner

\* Preview: the server records an operation for what goes to the Vault, none for an approval.
Preview ==
    /\ Usable /\ reader.phase = "READY" /\ card.pending = NoIntent /\ AssertOwner
    /\ Len(ops) < purse.ops
    /\ \E tracked \in purse.kinds : ops' = Append(ops, [owner |-> reader.owner, tracked |-> tracked, state |-> "previewed"])
    /\ card' = [card EXCEPT !.prepared = Len(ops) + 1]
    /\ UNCHANGED <<selected, cookie, storage, client, login, logouts, reader, confirms, purse, marks>>

Confirm ==
    /\ card.up /\ ~card.busy /\ card.prepared # 0 /\ card.pending = NoIntent /\ reader.phase = "READY"
    /\ card' = [card EXCEPT !.busy = TRUE]
    /\ confirms' = confirms \cup {[op |-> card.prepared, key |-> card.key, step |-> "latest", live |-> TRUE, current |-> TRUE]}
    /\ UNCHANGED <<selected, cookie, storage, ops, client, login, logouts, reader, purse, marks>>

Becomes(c, d) == confirms' = (confirms \ {c}) \cup {d}
Ends(c) == confirms' = confirms \ {c}

\* Mutant: the wallet is asked first.
RecordMutant(c) == UNCHANGED storage

\* "Write before asking the wallet."
Record(c) == storage' = [storage EXCEPT ![c.key] = [op |-> c.op, hash |-> FALSE]]

ConfirmLatest(c) ==
    /\ c.step = "latest"
    /\ IF cookie = ops[c.op].owner
       THEN /\ Record(c)
            /\ IF client = ops[c.op].owner
               THEN /\ Becomes(c, [c EXCEPT !.step = "assert"])
                    /\ card' = IF c.live THEN [card EXCEPT !.pending = [op |-> c.op, hash |-> FALSE]] ELSE card
               ELSE /\ Ends(c)
                    /\ card' = IF c.live THEN [card EXCEPT !.pending = [op |-> c.op, hash |-> FALSE], !.busy = FALSE] ELSE card
       ELSE /\ Ends(c) /\ UNCHANGED storage
            /\ card' = IF c.live THEN [card EXCEPT !.busy = FALSE] ELSE card
    /\ UNCHANGED <<selected, cookie, ops, client, login, logouts, reader, purse, marks>>

ConfirmAssert(c) ==
    /\ c.step = "assert"
    /\ IF selected = client
       THEN /\ ops' = [ops EXCEPT ![c.op].state = "asked"] /\ Becomes(c, [c EXCEPT !.step = "asked", !.current = TRUE])
            /\ UNCHANGED card
       ELSE /\ Ends(c) /\ UNCHANGED ops
            /\ card' = IF c.live THEN [card EXCEPT !.busy = FALSE] ELSE card
    /\ UNCHANGED <<selected, cookie, storage, client, login, logouts, reader, purse, marks>>

\* The hash is kept after an account change too; the client then has no owner.
ConfirmSent(c) ==
    /\ c.step = "asked"
    /\ ops' = [ops EXCEPT ![c.op].state = "sent"]
    /\ storage' = [storage EXCEPT ![c.key] = [op |-> c.op, hash |-> TRUE]]
    /\ client' = IF c.current THEN client ELSE Nobody
    /\ card' = IF c.live THEN [card EXCEPT !.pending = [op |-> c.op, hash |-> TRUE], !.prepared = 0] ELSE card
    /\ Becomes(c, [c EXCEPT !.step = "observe"])
    /\ UNCHANGED <<selected, cookie, login, logouts, reader, purse, marks>>

\* Code 4001: the record goes.
ConfirmRejected(c) ==
    /\ c.step = "asked"
    /\ ops' = [ops EXCEPT ![c.op].state = "rejected"]
    /\ storage' = [storage EXCEPT ![c.key] = NoIntent]
    /\ card' = IF c.live THEN [card EXCEPT !.pending = NoIntent, !.busy = FALSE] ELSE card
    /\ Ends(c)
    /\ UNCHANGED <<selected, cookie, client, login, logouts, reader, purse, marks>>

\* The wallet sent it and answered something else.
ConfirmUnknown(c) ==
    /\ c.step = "asked" /\ Failing
    /\ ops' = [ops EXCEPT ![c.op].state = "sent"]
    /\ card' = IF c.live THEN [card EXCEPT !.busy = FALSE] ELSE card
    /\ Ends(c)
    /\ UNCHANGED <<selected, cookie, storage, client, login, logouts, reader, marks>>

ConfirmObserved(c) ==
    /\ c.step = "observe"
    /\ card' = IF c.live THEN [card EXCEPT !.busy = FALSE] ELSE card
    /\ Ends(c)
    /\ UNCHANGED <<selected, cookie, storage, ops, client, login, logouts, reader, purse, marks>>

ConfirmFails(c) ==
    /\ c.step \in {"latest", "assert"} /\ Failing
    /\ card' = IF c.live THEN [card EXCEPT !.busy = FALSE] ELSE card
    /\ Ends(c)
    /\ UNCHANGED <<selected, cookie, storage, ops, client, login, logouts, reader, marks>>

\* A prompt whose page is gone is still answered; a transaction is mined, or reverts.
Settles ==
    /\ \E i \in OpIds :
          \/ /\ ops[i].state = "asked" /\ \A c \in confirms : c.op # i
             /\ \E to \in {"sent", "rejected"} : ops' = [ops EXCEPT ![i].state = to]
          \/ /\ ops[i].state = "sent"
             /\ \E to \in {"done", "failed"} : ops' = [ops EXCEPT ![i].state = to]
    /\ UNCHANGED <<selected, cookie, storage, client, login, logouts, reader, card, confirms, purse, marks>>

Waiting == card.up /\ card.pending # NoIntent
Resolved ==
    /\ storage' = [storage EXCEPT ![card.key] = NoIntent]
    /\ card' = [card EXCEPT !.pending = NoIntent]

\* observe, then the operation: productReady ends it.
Poll ==
    /\ Waiting /\ card.pending.hash /\ ops[card.pending.op].tracked /\ AssertOwner /\ cookie = reader.owner
    /\ ops[card.pending.op].state = "done"
    /\ Resolved
    /\ UNCHANGED <<selected, cookie, ops, client, login, logouts, reader, confirms, purse, marks>>

\* The failure is read again before the record goes.
AckFailure ==
    /\ Waiting /\ ~card.busy /\ card.pending.hash /\ reader.phase = "READY" /\ AssertOwner /\ cookie = reader.owner
    /\ ops[card.pending.op].tracked /\ ops[card.pending.op].state = "failed"
    /\ Resolved
    /\ UNCHANGED <<selected, cookie, ops, client, login, logouts, reader, confirms, purse, marks>>

\* An approval is the owner's to check.
AckApproval ==
    /\ Waiting /\ ~card.busy /\ card.pending.hash /\ ~ops[card.pending.op].tracked
    /\ Resolved
    /\ UNCHANGED <<selected, cookie, ops, client, login, logouts, reader, confirms, purse, marks>>

\* The hash from the wallet's history, observed first when there is an operation.
Recover ==
    /\ Waiting /\ ~card.busy /\ ~card.pending.hash
    /\ ops[card.pending.op].state \in {"sent", "done", "failed"}
    /\ ops[card.pending.op].tracked => cookie = reader.owner
    /\ storage' = [storage EXCEPT ![card.key] = [op |-> card.pending.op, hash |-> TRUE]]
    /\ card' = [card EXCEPT !.pending = [op |-> card.pending.op, hash |-> TRUE]]
    /\ UNCHANGED <<selected, cookie, ops, client, login, logouts, reader, confirms, purse, marks>>

----------------------------------------------------------------------------
(* Properties *)

\* "An unknown response blocks repeat submission across reloads": what the wallet was asked to send
\* to an owner's Vault stays in that owner's record until it is mined, failed or rejected, so no
\* second one is asked for, through reloads, account changes, lost answers and failed reads.  Only
\* a login that passes a confirmation still before its record (marks.overtaken) is excepted.
RecordKept ==
    ~marks.overtaken =>
        \A i \in OpIds : ops[i].tracked /\ ops[i].state \in {"asked", "sent"} => storage[ops[i].owner].op = i

\* Once no login or logout is under way, the cookie is nobody's or that of the account on the page,
\* whichever of a login's steps a change of account, a logout or a reload met.  Two exceptions: a failed
\* logout or a login that failed after its verification (marks.troubled), and a load of the page, which
\* restores no account and leaves the session it finds in the cookie (marks.kept) until a login is
\* verified or a logout answered: from then on it is gone.
NoSessionLeft ==
    ~marks.troubled /\ login.step = "idle" /\ logouts = 0 => cookie \in {Nobody, reader.owner, marks.kept}

----------------------------------------------------------------------------
PageInit ==
    /\ selected \in Accounts /\ cookie = Nobody /\ storage = [k \in Keys |-> NoIntent] /\ ops = << >>
    /\ client = Nobody /\ login = NoLogin /\ logouts = 0 /\ reader = Disconnected /\ card = NoCard /\ confirms = {}
    /\ purse \in PageBudgets /\ marks = [overtaken |-> FALSE, troubled |-> FALSE, kept |-> Nobody]

PageNext ==
    \/ Login \/ LoginChallenge \/ LoginSigned \/ LoginVerified \/ LoginChecked \/ LoginDone \/ LoginFails
    \/ AccountsChanged \/ Logout \/ LoggedOut \/ LogoutLost \/ Reload
    \/ Refresh \/ ReadDone \/ ReadFails
    \/ Preview \/ Confirm \/ Settles \/ Poll \/ AckFailure \/ AckApproval \/ Recover
    \/ \E c \in confirms :
          \/ ConfirmLatest(c) \/ ConfirmAssert(c) \/ ConfirmSent(c) \/ ConfirmRejected(c)
          \/ ConfirmUnknown(c) \/ ConfirmObserved(c) \/ ConfirmFails(c)

PageSpec == PageInit /\ [][PageNext]_pageVars
=============================================================================
