------------------------------ MODULE MCTools ------------------------------
(***************************************************************************)
(* Programs that run by themselves, one in each behaviour: the two         *)
(* deployment tools, each on a network of its own, the local simulator     *)
(* (its Vault and its bots), the paper account, the references of prices   *)
(* that are shown and prepared for the feed, and the capture of references *)
(* for paper trading.                                                      *)
(***************************************************************************)
EXTENDS DeploymentWallet, DeploymentEngine, LocalAutomata, ReferencePaper, StockReferences, ReferenceCaptures, TLC

VARIABLE tool

----------------------------------------------------------------------------
(* Deployment *)

Quiet == [clicks |-> 3, fails |-> 0, closes |-> 0, stops |-> 0, expiries |-> 0, drops |-> 0, foreign |-> 0, edits |-> 0]

MCPageBudgets == {Quiet, [Quiet EXCEPT !.closes = 1, !.clicks = 4], [Quiet EXCEPT !.drops = 1], [Quiet EXCEPT !.fails = 1],
                  [Quiet EXCEPT !.expiries = 1, !.edits = 1], [Quiet EXCEPT !.stops = 1, !.foreign = 1]}

Calm == [calls |-> 4, crashes |-> 0, fails |-> 0, expiries |-> 0, drops |-> 0, depth |-> 2]

MCEngineBudgets == {Calm, [Calm EXCEPT !.crashes = 1, !.expiries = 1], [Calm EXCEPT !.crashes = 1, !.fails = 1],
                    [Calm EXCEPT !.drops = 2, !.fails = 1, !.calls = 3], [Calm EXCEPT !.drops = 3, !.depth = 3, !.calls = 2]}

MCSymmetry == Permutations(Tabs)

\* No step of the plan is put before the wallet or the signer a second time (sendNext, next), and whatever
\* the engine sent is in its journal with its signature (next, reconcile after a crash).
StepTakenOnce == StepPromptedOnce /\ SignedOnce /\ (tool = "engine" => SentIsRecorded)

\* A step is taken, and receipts are handed out, only on steps that are mined as planned.
OnMinedStepsOnly == OnConfirmedOnly /\ SignedOnConfirmedOnly

----------------------------------------------------------------------------
(* The local simulator *)

MCBasket == <<"rwa-a">>
Half == [a \in Stocks |-> BotBps \div 2]
MCChoices == {[external |-> FALSE, weights |-> Half, mode |-> "percent", lower |-> -3, upper |-> 5],
              [external |-> TRUE, weights |-> Half, mode |-> "price", lower |-> 0, upper |-> 7]}

----------------------------------------------------------------------------
(* The paper account *)

MCOrder == <<"tsla", "amzn">>
MCLimits == {[mode |-> "percent", asset |-> "tsla", lower |-> -3, upper |-> 4], [mode |-> "price", asset |-> "tsla", lower |-> 1, upper |-> Unset],
             [mode |-> "off", asset |-> "tsla", lower |-> Unset, upper |-> Unset]}
MCPaperBudgets == {[batches |-> 3, funds |-> 1, stops |-> 1]}

----------------------------------------------------------------------------
(* References *)

OneEth == [sources |-> {"eth"}, reads |-> 2, failures |-> 1, ticks |-> 2, back |-> 0, keepers |-> 0]
MCReferenceBudgets == {[OneEth EXCEPT !.back = 1, !.reads = 4, !.ticks = 3],
                       [OneEth EXCEPT !.sources = {"quote", "history"}, !.reads = 3],
                       [OneEth EXCEPT !.reads = 0, !.keepers = 2, !.ticks = 3, !.back = 1]}

OneBatch == [batch |-> TRUE, of |-> {"s", "t"}, rounds |-> 1, runs |-> 0, ticks |-> 1, changes |-> 0, faults |-> 0, back |-> 0]
MCCollectBudgets == {OneBatch, [OneBatch EXCEPT !.back = 1, !.ticks = 2], [OneBatch EXCEPT !.ticks = 0, !.changes = 2],
                     [OneBatch EXCEPT !.batch = FALSE, !.of = {"s"}, !.changes = 2, !.rounds = 2],
                     [OneBatch EXCEPT !.ticks = 0, !.rounds = 3, !.faults = 2],
                     [OneBatch EXCEPT !.ticks = 0, !.rounds = 2, !.faults = 1, !.runs = 1]}

sideVars == <<referenceVars, captureVars>>

\* A price that is shown, published to the feed or accepted for paper trading is fresh and of its
\* source, and a collector that must stop stops: see StockReferences and ReferenceCaptures.
PricesHonest == PricesFresh /\ KeeperHonest /\ RowsHold /\ CollectorYields

----------------------------------------------------------------------------

ToolsInit ==
    /\ PageInit /\ EngineInit /\ LocalInit /\ PaperInit /\ ReferenceInit /\ CaptureInit
    /\ tool \in {"page", "engine", "local", "paper", "references", "captures"}
    /\ tool # "references" => lot.keepers = 2
    /\ tool # "captures" => means = OneBatch /\ assets = [s \in {"s", "t"} |-> 1]
    /\ tool # "engine" => left = Calm
    /\ tool # "page" => allowance = Quiet
    /\ tool # "local" => ~vault.lock.on /\ ~bot.choice.external
    /\ tool # "paper" => limits.mode = "off"

ToolsNext ==
    /\ UNCHANGED tool
    /\ \/ tool = "page" /\ PageNext /\ UNCHANGED <<engineVars, localVars, paperVars, sideVars>>
       \/ tool = "engine" /\ EngineNext /\ UNCHANGED <<pageVars, localVars, paperVars, sideVars>>
       \/ tool = "local" /\ LocalNext /\ UNCHANGED <<deployVars, engineVars, paperVars, sideVars>>
       \/ tool = "paper" /\ PaperNext /\ UNCHANGED <<deployVars, engineVars, localVars, sideVars>>
       \/ tool = "references" /\ ReferenceNext /\ UNCHANGED <<deployVars, engineVars, localVars, paperVars, captureVars>>
       \/ tool = "captures" /\ CaptureNext /\ UNCHANGED <<deployVars, engineVars, localVars, paperVars, referenceVars>>

ToolsSpec == ToolsInit /\ [][ToolsNext]_<<tool, deployVars, engineVars, localVars, paperVars, sideVars>>

\* The books of the simulator and of the paper account, and the simulator's vault against the run of
\* its bot, through every order of commands, trades and roundings.
AccountsBalance == GuardsKeepLedger /\ VaultMirrorsRun /\ PaperLedger

\* The terms of an account hold whatever is done to it: funding leaves the value of a paper unit
\* alone, profit is taken without touching the principal under a pass lock, and a limit that is hit or
\* a stop sells everything and is final (fundPaper, passAccounting, evaluateLimits, latch).
TermsKept == FundingKeepsUnitValue /\ ProfitLeavesPrincipal /\ LimitsEnforced
=============================================================================
