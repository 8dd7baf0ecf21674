------------------------------ MODULE MCBrowser ------------------------------
(***************************************************************************)
(* The two pages that use a wallet, one of them in each behaviour: the     *)
(* launch market page and the Vault page.                                  *)
(***************************************************************************)
EXTENDS LaunchClient, M3Browser

VARIABLE pageOpen

Nothing == [owner |-> "a", acts |-> {}, connects |-> 1, reviews |-> 1, messages |-> 0, reorgs |-> 0, troubles |-> 0]

\* The launch page: a Vault transaction through a reload, a lost answer, a failed read or a
\* reorganisation, and quotes through a change of account or link.
MCBudgets ==
    {[Nothing EXCEPT !.acts = {"connect", "vault", "recover", "reload", "lost", "fail"},
                     !.connects = 2, !.troubles = 1],
     [Nothing EXCEPT !.acts = {"connect", "vault", "clear"}, !.reorgs = 1, !.messages = 1],
     [Nothing EXCEPT !.acts = {"connect", "vault", "switch", "relink"}, !.troubles = 1],
     [Nothing EXCEPT !.acts = {"connect", "bind", "max", "approve", "relink"}, !.connects = 2, !.troubles = 1],
     [Nothing EXCEPT !.acts = {"connect", "quote", "switch", "relink"}, !.troubles = 1]}

\* Two calls of the user in progress, a quote, and one failed request.
MCLockBudgets ==
    {[Nothing EXCEPT !.acts = {"connect", "bind", "quote", "fail"}, !.connects = 2, !.troubles = 1]}

Few == [users |-> {"one"}, acts |-> {}, reads |-> 1, choices |-> 0, asks |-> 1, switches |-> 0, fails |-> 0,
        reloads |-> 0, reorgs |-> 0]

\* The Vault page: account changes around deposits, a selection that changes under a confirmation,
\* reloads, reorganisations and failures with two unresolved hints, and concurrent confirmations.
MCM3Budgets ==
    {[Few EXCEPT !.acts = {"approve", "deposit"}, !.switches = 3],
     [Few EXCEPT !.acts = {"withdraw", "transfer"}, !.switches = 1],
     [Few EXCEPT !.users = {"one", "two"}, !.acts = {"approve", "withdraw"}, !.choices = 2],
     [Few EXCEPT !.acts = {"withdraw", "transfer"}, !.asks = 2, !.reads = 2, !.reloads = 1],
     [Few EXCEPT !.acts = {"close", "rescue"}, !.asks = 2, !.reads = 2, !.reorgs = 1],
     [Few EXCEPT !.acts = {"withdraw", "transfer"}, !.asks = 2, !.reads = 3, !.fails = 1],
     [Few EXCEPT !.users = {"one", "two"}, !.acts = {"withdraw"}, !.asks = 3]}

LaunchOpen == pageOpen = "launch"
VaultOpen == pageOpen = "vault"

BrowserInit ==
    /\ pageOpen \in {"launch", "vault"}
    /\ LaunchInit /\ M3Init
    /\ LaunchOpen => quota = CHOOSE b \in M3Budgets : TRUE
    /\ VaultOpen => left = (CHOOSE b \in Budgets : TRUE) /\ link = None

BrowserNext ==
    /\ \/ LaunchOpen /\ LaunchNext /\ UNCHANGED m3Vars
       \/ VaultOpen /\ M3Next /\ UNCHANGED launchVars
    /\ UNCHANGED pageOpen

\* The fairness of the launch page: see LaunchSpec.
BrowserSpec ==
    /\ BrowserInit /\ [][BrowserNext]_<<launchVars, m3Vars, pageOpen>>
    /\ \A j \in Jobs : WF_launchVars(LaunchOpen /\ Proceed(j) /\ UNCHANGED <<m3Vars, pageOpen>>)
    /\ WF_launchVars(LaunchOpen /\ Timer /\ UNCHANGED <<m3Vars, pageOpen>>)
    /\ WF_launchVars(LaunchOpen /\ StreamReorg /\ UNCHANGED <<m3Vars, pageOpen>>)
    /\ WF_launchVars(LaunchOpen /\ AccountsChanged /\ UNCHANGED <<m3Vars, pageOpen>>)

\* What either page gave to the wallet and has not read as final is in the browser's storage.
SendsRecorded == VaultSendRecorded /\ RetainedUntilResolved
\* What either page shows holds: a completed transaction on the chain, authority of the account.
ShownHolds == CompletedHolds /\ AuthorityFresh
\* Either page gives the wallet only what its user reviewed, for the account and Vault on display.
SentAsChosen == SentAsReviewed /\ SentUnderSelection
\* Either page follows the transaction it has open: the launch page to its end, the Vault page
\* until a fresh submission takes its place.
TransactionFollowed == VaultFollowed /\ WatchedStays
=============================================================================
