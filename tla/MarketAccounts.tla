--------------------------- MODULE MarketAccounts ---------------------------
(***************************************************************************)
(* The market's accounts (packages/launch-market/src/store.ts) and the     *)
(* requests that act for them (apps/server/src/launch-market/routes.ts,    *)
(* service.ts): accounts of verified emails and of wallets alone, the      *)
(* links between them, wallet sessions, and the claim vouchers and quotes  *)
(* that must stay with the right account through all of it.                *)
(*                                                                         *)
(* The store is called synchronously: a step is what happens between two   *)
(* awaits.  A request awaits the console's policy before its account is    *)
(* known, and the chain before its voucher or quote is written.  Expiry is *)
(* a step of its own, at any time after the issue.                         *)
(***************************************************************************)
EXTENDS Naturals, FiniteSets

CONSTANTS
    VerifiedUsers,    \* what the identity bridge may answer: [email, subject]
    LinkWallets,      \* wallets
    LastAccount,      \* accounts are numbered as they are created
    NoValue,          \* NULL
    ChallengeLimit,   \* 1000 in bindingChallenge and walletTestChallenge
    RegistryBudgets   \* how often each thing happens

VARIABLES
    registry,        \* market_accounts
    linkChallenges,  \* market_wallet_challenges
    testChallenges,  \* market_wallet_test_challenges
    testIdentities,  \* market_wallet_test_identities: the account of each wallet
    testSessions,    \* market_wallet_test_sessions, by the number of their token
    vouchers,        \* market_claim_vouchers: the wallet of each account's voucher
    quotes,          \* market_quotes: [account, owner, via], via the wallet of the session it was asked with
    required,        \* access_verification_required of the console
    requests,        \* requests in progress
    claimLog,        \* history: [account, wallet, email] of every voucher when it was reserved
    room             \* what may still happen

registryVars == <<registry, linkChallenges, testChallenges, testIdentities, testSessions,
                  vouchers, quotes, required, requests, claimLog, room>>

AccountIds == 1 .. LastAccount
Free == [kind |-> "FREE", email |-> NoValue, subject |-> NoValue, wallet |-> NoValue]
Open(a) == registry[a].kind \in {"GOOGLE", "WALLET_TEST"}
Verified(u, w) == [kind |-> "GOOGLE", email |-> u.email, subject |-> u.subject, wallet |-> w]
OrNull(S) == S \cup {NoValue}

\* NULL is no value, and what may happen is counted.
RegistryConstants ==
    /\ LastAccount \in Nat \ {0}
    /\ NoValue \notin AccountIds /\ NoValue \notin LinkWallets
    /\ \A u \in VerifiedUsers : u.email # NoValue
    /\ RegistryBudgets \subseteq [links : Nat, logins : Nat, requests : Nat, atOnce : Nat, expiries : Nat,
                                 switches : Nat, migrated : BOOLEAN]

ASSUME RegistryAssumption == RegistryConstants

\* AccessIdentitySocketClient.identity, the daemon behind it: whatever goes wrong, nobody.
IdentityAnswers == OrNull(VerifiedUsers)

\* AccessIdentitySocketClient.verificationRequired: required when the policy cannot be read.
PolicyAnswers == {TRUE, required}

Spend(what) == room[what] > 0 /\ room' = [room EXCEPT ![what] = @ - 1]

\* trustedAccount, for an identity already known: the email's row, if the subject is the same.
AccountsOf(u) == {a \in AccountIds : registry[a].email = u.email /\ registry[a].subject = u.subject}
AccountsWith(w) == {a \in AccountIds : registry[a].wallet = w}

NewAccount == CHOOSE a \in AccountIds : registry[a].kind = "FREE" /\ \A b \in 1 .. a - 1 : registry[b].kind # "FREE"

\* trustedAccount: the first request of an identity.  An email with another subject, or a subject
\* with another email, is refused.
SignIn(u) ==
    /\ \A a \in AccountIds : registry[a].email # u.email /\ registry[a].subject # u.subject
    /\ \E a \in AccountIds : registry[a].kind = "FREE"
    /\ registry' = [registry EXCEPT ![NewAccount] = Verified(u, NoValue)]
    /\ UNCHANGED <<linkChallenges, testChallenges, testIdentities, testSessions, vouchers, quotes,
                   required, requests, claimLog, room>>

\* bindingChallenge: one per account; the limit counts the rows that stay.
BindingChallenge(u, w) ==
    \E a \in AccountsOf(u) :
        LET kept == {c \in linkChallenges : c.account # a /\ c.live} IN
        /\ Spend("links")
        /\ Cardinality(kept) < ChallengeLimit
        /\ linkChallenges' = kept \cup {[account |-> a, wallet |-> w, used |-> FALSE, live |-> TRUE]}
        /\ UNCHANGED <<registry, testChallenges, testIdentities, testSessions, vouchers, quotes,
                       required, requests, claimLog>>

\* What keeps an account from being folded into another one.
HasHistory(a) ==
    \/ vouchers[a] # NoValue
    \/ \E q \in quotes : q.account = a
    \/ \E s \in testSessions : s.account = a
    \/ \E w \in LinkWallets : testIdentities[w] = a

MayAdopt(a, other) ==
    /\ registry[other].kind = "WALLET_TEST"
    /\ registry[a].kind = "GOOGLE" /\ registry[a].wallet = NoValue
    /\ ~HasHistory(a)

Consumed(c) == (linkChallenges \ {c}) \cup {[c EXCEPT !.used = TRUE]}

\* bindWallet with the wallet's signature: the wallet's own account is adopted by the unused Google
\* shell, or the wallet is written into the account.  The shell's challenges go with it.
BindWallet(u) ==
    /\ \E c \in linkChallenges :
          LET a == c.account
              others == AccountsWith(c.wallet) \ {a} IN
          /\ a \in AccountsOf(u) /\ c.live /\ ~c.used
          /\ \/ /\ others = {}
                /\ registry' = [registry EXCEPT ![a].wallet = c.wallet]
                /\ linkChallenges' = Consumed(c)
             \/ \E other \in others :
                   /\ MayAdopt(a, other)
                   /\ registry' = [registry EXCEPT ![a] = [Free EXCEPT !.kind = "DELETED"],
                                                   ![other] = Verified(registry[a], c.wallet)]
                   /\ linkChallenges' = {d \in linkChallenges : d.account # a}
    /\ UNCHANGED <<testChallenges, testIdentities, testSessions, vouchers, quotes, required, requests, claimLog, room>>

\* bindWallet otherwise: a foreign signature or a wallet that is bound leaves the challenge consumed.
BindRefused(u) ==
    /\ \E c \in linkChallenges :
          /\ c.account \in AccountsOf(u) /\ c.live /\ ~c.used
          /\ linkChallenges' = Consumed(c)
    /\ UNCHANGED <<registry, testChallenges, testIdentities, testSessions, vouchers, quotes, required, requests, claimLog, room>>

----------------------------------------------------------------------------
(* Requests that await the policy of the console *)

\* verificationRequired: the policy is asked for with every request.
Arrive(r) ==
    /\ Spend(IF r.kind \in {"challenge", "session"} THEN "logins" ELSE "requests")
    /\ Cardinality(requests) < room.atOnce
    /\ \E answer \in PolicyAnswers :
          requests' = requests \cup {[r EXCEPT !.id = room.logins + room.requests, !.required = answer]}
    /\ UNCHANGED <<registry, linkChallenges, testChallenges, testIdentities, testSessions, vouchers, quotes,
                   required, claimLog>>

Request(kind, owner, token, user) ==
    [id |-> 0, kind |-> kind, pc |-> "asked", required |-> TRUE, owner |-> owner, token |-> token,
     user |-> user, account |-> 0, via |-> NoValue]

\* The host, the origin, the schema or a step of the handler refuses a request, or it fails.
Drop(r) ==
    /\ requests' = requests \ {r}
    /\ UNCHANGED <<registry, linkChallenges, testChallenges, testIdentities, testSessions, vouchers, quotes,
                   required, claimLog, room>>

\* walletTestChallenge, under requireTestMode: one per wallet.
WalletTestChallenge(r) ==
    LET kept == {c \in testChallenges : c.wallet # r.owner /\ c.live} IN
    /\ r.kind = "challenge" /\ ~r.required
    /\ Cardinality(kept) < ChallengeLimit
    /\ testChallenges' = kept \cup {[wallet |-> r.owner, used |-> FALSE, live |-> TRUE]}
    /\ requests' = requests \ {r}
    /\ UNCHANGED <<registry, linkChallenges, testIdentities, testSessions, vouchers, quotes, required, claimLog, room>>

\* The account a wallet's test session opens: by its first session, by its link, by its voucher.
OpensAs(w) ==
    IF testIdentities[w] # NoValue THEN {testIdentities[w]}
    ELSE IF AccountsWith(w) # {} THEN AccountsWith(w)
    ELSE {a \in AccountIds : vouchers[a] = w}

\* openWalletTestSession with the wallet's signature; LINKED_WALLET_REQUIRED when the account found
\* is linked to another wallet by now.  The account's earlier session ends.
OpenWalletTestSession(r) ==
    /\ r.kind = "session" /\ ~r.required
    /\ \E c \in testChallenges :
          /\ c.wallet = r.owner /\ c.live /\ ~c.used
          /\ testChallenges' = (testChallenges \ {c}) \cup {[c EXCEPT !.used = TRUE]}
          /\ \E a \in AccountIds :
                /\ \/ a \in OpensAs(r.owner) /\ registry[a].wallet = r.owner /\ UNCHANGED registry
                   \/ /\ OpensAs(r.owner) = {}
                      /\ registry[a].kind = "FREE" /\ a = NewAccount
                      /\ registry' = [registry EXCEPT ![a] = [Free EXCEPT !.kind = "WALLET_TEST", !.wallet = r.owner]]
                /\ testIdentities' = [testIdentities EXCEPT ![r.owner] = IF @ = NoValue THEN a ELSE @]
                /\ testSessions' = {s \in testSessions : s.account # a /\ s.live} \cup
                                   {[token |-> r.id, account |-> a, wallet |-> r.owner, live |-> TRUE]}
    /\ requests' = requests \ {r}
    /\ UNCHANGED <<linkChallenges, vouchers, quotes, required, claimLog, room>>

\* The session follows the account to whatever wallet it is linked to now.
WalletTestSessionMutant(token) == {s \in testSessions : s.token = token /\ s.live}

\* walletTestSession: a live session, while its account is linked to the wallet that opened it.
WalletTestSession(token) ==
    {s \in testSessions : s.token = token /\ s.live /\ registry[s.account].wallet = s.wallet}

\* authenticated and requireWallet: the session counts first, and only while verification is not
\* required; then the verified identity.
Authenticate(r) ==
    LET usable == IF r.required THEN {} ELSE WalletTestSession(r.token)
        who == IF usable # {} THEN {<<s.account, s.wallet>> : s \in usable}
               ELSE {<<a, NoValue>> : a \in IF r.user = NoValue THEN {} ELSE AccountsOf(r.user)}
    IN  /\ r.kind \in {"quote", "claim"} /\ r.pc = "asked"
        /\ \E p \in who :
              /\ registry[p[1]].wallet = r.owner
              /\ requests' = (requests \ {r}) \cup {[r EXCEPT
                     !.account = p[1], !.via = p[2], !.pc = IF r.kind = "claim" THEN "reserve" ELSE "save"]}
        /\ UNCHANGED <<registry, linkChallenges, testChallenges, testIdentities, testSessions, vouchers, quotes,
                       required, claimLog, room>>

\* Only the account's own voucher is asked for.
MayReserveForMutant(a, w) == registry[a].wallet = w /\ vouchers[a] \in {NoValue, w}

\* reserveClaim: the wallet is still linked, no other account has a voucher for it, and the account's
\* own one, if any, is for this wallet (its expiry and renewal: see MarketIndexer).
MayReserveFor(a, w) ==
    /\ registry[a].wallet = w
    /\ \A b \in AccountIds \ {a} : vouchers[b] # w
    /\ vouchers[a] \in {NoValue, w}

ReserveVoucher(r) ==
    /\ r.pc = "reserve" /\ MayReserveFor(r.account, r.owner)
    /\ vouchers' = [vouchers EXCEPT ![r.account] = r.owner]
    /\ claimLog' = claimLog \cup {[account |-> r.account, wallet |-> r.owner, email |-> registry[r.account].email]}
    /\ requests' = (requests \ {r}) \cup {[r EXCEPT !.pc = "save"]}
    /\ UNCHANGED <<registry, linkChallenges, testChallenges, testIdentities, testSessions, quotes, required, room>>

\* saveQuote, after the chain and the signer were awaited: the wallet must still be linked.
SaveQuote(r) ==
    /\ r.pc = "save" /\ registry[r.account].wallet = r.owner
    /\ quotes' = quotes \cup {[account |-> r.account, owner |-> r.owner, via |-> r.via]}
    /\ requests' = requests \ {r}
    /\ UNCHANGED <<registry, linkChallenges, testChallenges, testIdentities, testSessions, vouchers, required, claimLog, room>>

----------------------------------------------------------------------------
(* Time, and the console *)

Late(rows) == {(rows \ {x}) \cup {[x EXCEPT !.live = FALSE]} : x \in {y \in rows : y.live}}

\* A challenge or a session expires.
Expire ==
    /\ Spend("expiries")
    /\ \/ linkChallenges' \in Late(linkChallenges) /\ UNCHANGED <<testChallenges, testSessions>>
       \/ testChallenges' \in Late(testChallenges) /\ UNCHANGED <<linkChallenges, testSessions>>
       \/ testSessions' \in Late(testSessions) /\ UNCHANGED <<linkChallenges, testChallenges>>
    /\ UNCHANGED <<registry, testIdentities, vouchers, quotes, required, requests, claimLog>>

\* The console's switch.
SwitchPolicy ==
    /\ Spend("switches")
    /\ required' = ~required
    /\ UNCHANGED <<registry, linkChallenges, testChallenges, testIdentities, testSessions, vouchers, quotes,
                   requests, claimLog>>

----------------------------------------------------------------------------

\* A new store, or one migrated from the first schema, whose accounts are all Google's.
RegistryInit ==
    /\ room \in RegistryBudgets
    /\ \E first \in {Free} \cup (IF room.migrated THEN {Verified(u, w) : u \in VerifiedUsers, w \in LinkWallets} ELSE {}) :
          /\ registry = [a \in AccountIds |-> IF a = 1 THEN first ELSE Free]
          /\ vouchers = [a \in AccountIds |-> IF a = 1 THEN first.wallet ELSE NoValue]
          /\ claimLog = IF first = Free THEN {} ELSE {[account |-> 1, wallet |-> first.wallet, email |-> first.email]}
    /\ linkChallenges = {} /\ testChallenges = {} /\ testSessions = {} /\ quotes = {} /\ requests = {}
    /\ testIdentities = [w \in LinkWallets |-> NoValue]
    /\ required = FALSE

RegistryNext ==
    \/ \E u \in VerifiedUsers : SignIn(u) \/ BindWallet(u) \/ BindRefused(u)
    \/ \E u \in VerifiedUsers, w \in LinkWallets : BindingChallenge(u, w)
    \/ \E w \in LinkWallets, kind \in {"challenge", "session"} : Arrive(Request(kind, w, NoValue, NoValue))
    \/ \E w \in LinkWallets, kind \in {"quote", "claim"}, u \in IdentityAnswers,
          token \in OrNull({s.token : s \in testSessions}) : Arrive(Request(kind, w, token, u))
    \/ \E r \in requests : \/ WalletTestChallenge(r) \/ OpenWalletTestSession(r) \/ Authenticate(r)
                           \/ ReserveVoucher(r) \/ SaveQuote(r) \/ Drop(r)
    \/ Expire \/ SwitchPolicy

RegistrySpec == RegistryInit /\ [][RegistryNext]_registryVars

----------------------------------------------------------------------------
(* Properties *)

\* The registry stays one: an email and a wallet name one account each, and everything the store
\* keeps for an account keeps its account, whichever accounts were folded together meanwhile
\* (bindWallet, openWalletTestSession).
RegistrySound ==
    /\ \A a, b \in AccountIds : a # b =>
          /\ registry[a].wallet # NoValue => registry[a].wallet # registry[b].wallet
          /\ registry[a].email # NoValue => registry[a].email # registry[b].email
    /\ \A a \in AccountIds : HasHistory(a) => Open(a)

\* "Persistent account keys and wallet claim history survive login changes": no wallet and no
\* verified email ever has vouchers of two accounts, and a voucher stays with the account it was
\* reserved for, through relinking, adoption and sessions (reserveClaim, bindWallet).
ClaimsOnce ==
    /\ \A c, d \in claimLog : c.wallet = d.wallet \/ (c.email = d.email /\ c.email # NoValue) => c = d \/ c.account = d.account
    /\ \A c \in claimLog : vouchers[c.account] = c.wallet /\ Open(c.account)

\* What a wallet's session stored, it stored for that wallet: a session never speaks for the wallet
\* its account was linked to later (walletTestSession, quote, saveQuote).
SpeaksForItsWallet == \A q \in quotes : q.via \in {NoValue, q.owner}
=============================================================================
