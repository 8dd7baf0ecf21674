----------------------------- MODULE MCServers -----------------------------
(***************************************************************************)
(* The local servers and the owner's page for TLC, one part in each        *)
(* behaviour: the public testnet's server, its logins, the owner's page,   *)
(* and the service around the paper account.                               *)
(***************************************************************************)
EXTENDS TestnetServer, WalletAuth, OwnerPage, PaperService

VARIABLE part

----------------------------------------------------------------------------
(* The public testnet *)

\* Two backups around one report; two reports, of two hashes, around one backup.
MCServerBudgets ==
    {[backups |-> 2, calls |-> 1, faults |-> 0], [backups |-> 1, calls |-> 2, faults |-> 1]}

\* Two changes of account or logouts; one of them with two actions, or with a failing call; a reload
\* and a failing call; approvals with a reload; two changes around a reload.
Quiet == [kinds |-> {TRUE}, ops |-> 2, changes |-> 0, reloads |-> 0, fails |-> 0]
MCPageBudgets ==
    {[Quiet EXCEPT !.changes = 2, !.ops = 1], [Quiet EXCEPT !.changes = 1], [Quiet EXCEPT !.changes = 1, !.ops = 1, !.fails = 1],
     [Quiet EXCEPT !.reloads = 1, !.fails = 1], [Quiet EXCEPT !.kinds = BOOLEAN, !.reloads = 1],
     [Quiet EXCEPT !.changes = 2, !.ops = 0, !.reloads = 1]}

----------------------------------------------------------------------------
(* The paper service *)

NoQuota == [sends |-> 0, fails |-> 0, crashes |-> 0, closes |-> 0, backups |-> 0]
MCServiceBudgets == {[sends |-> 3, fails |-> 1, crashes |-> 1, closes |-> 0, backups |-> 1],
                     [sends |-> 2, fails |-> 0, crashes |-> 0, closes |-> 1, backups |-> 2], NoQuota}

----------------------------------------------------------------------------

MCInit ==
    /\ part \in {"server", "auth", "page", "service"}
    /\ ServerInit /\ AuthInit /\ PageInit /\ selected = CHOOSE a \in Accounts : TRUE
    /\ ServiceInit
    /\ part # "server" => spare = CHOOSE b \in ServerBudgets : TRUE
    /\ part # "page" => purse = CHOOSE b \in PageBudgets : TRUE
    /\ part = "service" <=> quota # NoQuota

testnetVars == <<serverVars, authVars, pageVars>>

MCNext ==
    /\ UNCHANGED part
    /\ \/ part = "server" /\ ServerNext /\ UNCHANGED <<authVars, pageVars, serviceVars>>
       \/ part = "auth" /\ AuthNext /\ UNCHANGED <<serverVars, pageVars, serviceVars>>
       \/ part = "page" /\ PageNext /\ UNCHANGED <<serverVars, authVars, serviceVars>>
       \/ part = "service" /\ ServiceNext /\ UNCHANGED testnetVars

\* What the process that runs does by itself: see ServerSpec and ServiceSpec.
ProcessStep ==
    /\ UNCHANGED part
    /\ \/ part = "server" /\ JobStep /\ UNCHANGED <<authVars, pageVars, serviceVars>>
       \/ part = "service" /\ ServiceSteps /\ UNCHANGED testnetVars

MCSpec ==
    /\ MCInit /\ [][MCNext]_<<testnetVars, serviceVars, part>>
    /\ WF_<<serverVars, serviceVars>>(ProcessStep)
    /\ WF_serverVars(part = "server" /\ Closed /\ UNCHANGED <<authVars, pageVars, serviceVars, part>>)

\* A signature opens one session, and a session ends with the login of the page it was opened for, or
\* is one that a load of the page found: see WalletAuth and OwnerPage.
SessionsEnd == OneLoginPerSignature /\ NoSessionLeft

\* A journal that reopens or a backup of it restores the account it described (see PaperService), and
\* the backup a server calls verified is its newest one (see TestnetServer).
CopiesTrue == JournalsReplay /\ ReportedIsNewest

\* What pauses or queues comes to an end: the writes of a server resume after every backup (see
\* TestnetServer), and a stop of the paper account is answered (see PaperService).
NothingStuck == WritesResume /\ StopGetsThrough
=============================================================================
