----------------------------- MODULE WalletAuth -----------------------------
(***************************************************************************)
(* Logins of the public testnet (packages/testnet/src/wallet-auth.ts and   *)
(* the auth routes of apps/server/src/testnet-app.ts): challenges, their   *)
(* verification, which awaits the chain for a contract wallet, and         *)
(* sessions, with the clock that both are read against.                    *)
(***************************************************************************)
EXTENDS Naturals, FiniteSets

CONSTANTS
    Wallets,       \* owners
    MaxRows,       \* AuthPolicy.maxRows
    ChallengeTtl, SessionTtl,
    MaxTime,       \* last time of the clock
    MaxNonce       \* challenges issued

ASSUME AuthAssumption == {MaxRows, ChallengeTtl, SessionTtl, MaxTime, MaxNonce} \subseteq Nat \ {0}

VARIABLES
    clock,
    challenges,   \* auth_challenges: [nonce, owner, issued, expires, consumed]
    sessions,     \* auth_sessions: [nonce, owner, issued, expires], named after the challenge of the login
    checks,       \* verifications whose verifyOwner is awaited: [id, nonce, owner]
    nonces,       \* challenges issued
    logins        \* sessions created from each challenge

authVars == <<clock, challenges, sessions, checks, nonces, logins>>

Live(rows) == {r \in rows : r.expires > clock}
Current(rows) == {r \in rows : r.issued <= clock /\ r.expires > clock}

\* Date.now may also go back.
Clock ==
    /\ clock' \in {clock + 1, clock - 1} \cap (0 .. MaxTime)
    /\ UNCHANGED <<challenges, sessions, checks, nonces, logins>>

\* prune and the owner's old challenges go in any case; capacity is asked afterwards.
Issue ==
    /\ nonces < MaxNonce
    /\ \E o \in Wallets :
          LET kept == {c \in Live(challenges) : c.owner # o} IN
          /\ sessions' = Live(sessions)
          /\ IF Cardinality(kept) >= MaxRows THEN challenges' = kept /\ UNCHANGED nonces
             ELSE /\ nonces' = nonces + 1
                  /\ challenges' = kept \cup {[nonce |-> nonces + 1, owner |-> o, issued |-> clock,
                                               expires |-> clock + ChallengeTtl, consumed |-> FALSE]}
    /\ UNCHANGED <<clock, checks, logins>>

Marked(c) == (challenges \ {c}) \cup {[c EXCEPT !.consumed = TRUE]}

\* consume, before the awaited verification.
Verify ==
    /\ \E c \in Current(challenges) :
          /\ ~c.consumed /\ challenges' = Marked(c)
          /\ Cardinality(checks) < 2
          /\ checks' = checks \cup {[id |-> Cardinality(checks), nonce |-> c.nonce, owner |-> c.owner]}
    /\ UNCHANGED <<clock, sessions, nonces, logins>>

\* verifyOwner says no, or cannot say.
Refused ==
    /\ \E v \in checks : checks' = checks \ {v}
    /\ UNCHANGED <<clock, challenges, sessions, nonces, logins>>

\* createSession: the owner's earlier session ends.
Verified ==
    /\ \E v \in checks :
          LET kept == {s \in Live(sessions) : s.owner # v.owner} IN
          /\ checks' = checks \ {v}
          /\ challenges' = Live(challenges)
          /\ IF Cardinality(kept) >= MaxRows THEN sessions' = kept /\ UNCHANGED logins
             ELSE /\ sessions' = kept \cup {[nonce |-> v.nonce, owner |-> v.owner, issued |-> clock, expires |-> clock + SessionTtl]}
                  /\ logins' = [logins EXCEPT ![v.nonce] = @ + 1]
    /\ UNCHANGED <<clock, nonces>>

\* Logout by the cookie's token.
EndSession ==
    /\ \E s \in sessions : sessions' = sessions \ {s}
    /\ UNCHANGED <<clock, challenges, checks, nonces, logins>>

----------------------------------------------------------------------------
\* A signature opens at most one session, whatever requests carry it while its verification is
\* awaited, however the clock moves; and no owner has two (consume, createSession).
OneLoginPerSignature ==
    /\ \A n \in DOMAIN logins : logins[n] <= 1
    /\ \A s, t \in sessions : s.owner = t.owner => s = t
    /\ Cardinality(sessions) <= MaxRows

AuthInit ==
    /\ clock = 0 /\ challenges = {} /\ sessions = {} /\ checks = {} /\ nonces = 0
    /\ logins = [n \in 1 .. MaxNonce |-> 0]

AuthNext == Clock \/ Issue \/ Verify \/ Refused \/ Verified \/ EndSession
AuthSpec == AuthInit /\ [][AuthNext]_authVars
=============================================================================
