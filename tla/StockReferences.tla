--------------------------- MODULE StockReferences ---------------------------
(***************************************************************************)
(* Prices from outside the chain.  The public server reads a stock's quote *)
(* and history (apps/server/src/stock-reference) and the price of ETH      *)
(* (launch-market-adapters/eth-reference.ts), each behind a cache with one *)
(* load in flight.  A tool reads a stock's price and session               *)
(* (launch-market-adapters/stock-reference.ts) and writes the unsigned     *)
(* updates of the feed that the keeper signs later.                        *)
(*                                                                         *)
(* A step is what runs between two awaits.  The clock is in seconds, may   *)
(* be set back, and is also the chain's.  A source answers with the time   *)
(* of its observation, which may be old or ahead of the clock.             *)
(***************************************************************************)
EXTENDS Integers, FiniteSets

CONSTANTS
    Viewers,                                  \* requests in progress at once
    QuoteTtl, HistoryTtl, FailureTtl, EthTtl, \* 10, 300, 30 and 5 seconds
    Ahead,                                    \* the 60 seconds a quote may be ahead
    EthMaxAge, ServedAge,                     \* maxAgeSeconds, and the 30 seconds of ethReference
    KeeperMaxAge,                             \* the 60 seconds of fresh and of the feed
    RegularOpen, RegularClose,                \* the session of the day
    ReferenceBudgets                          \* bounds: reads, failures, ticks, clock set back, keeper runs

VARIABLES
    second,    \* now()
    kept,      \* #cache of quotes and of history, #cached of ETH
    loads,     \* requests to a source that are on their way
    pending,   \* #pending: the load others join
    viewers,   \* requests of users
    lastLoad,  \* how many loads there were
    ethFailed, \* history: the latest load of ETH that failed
    keeper,    \* VerifiedStockReference.read in progress
    updates,   \* files of unsigned updates
    onchain,   \* AlphaForgeStrategyReferenceFeed
    lot        \* what may still happen

ASSUME ReferenceAssumption ==
    /\ {QuoteTtl, HistoryTtl, FailureTtl, EthTtl, Ahead, EthMaxAge, ServedAge, KeeperMaxAge} \subseteq Nat
    /\ {RegularOpen, RegularClose} \subseteq Nat
    /\ ReferenceBudgets \subseteq [sources : SUBSET {"quote", "history", "eth"}, reads : Nat, failures : Nat, ticks : Nat,
                                   back : Nat, keepers : Nat]

referenceVars == <<second, kept, loads, pending, viewers, lastLoad, ethFailed, keeper, updates, onchain, lot>>

Sources == {"quote", "history", "eth"}
Nothing == [ok |-> FALSE, at |-> 0, fetched |-> -1, load |-> 0]
Resting == [pc |-> "idle", source |-> "none", asked |-> 0, until |-> 0, got |-> Nothing, failed |-> 0]
Take(what) == lot[what] > 0 /\ lot' = [lot EXCEPT ![what] = @ - 1]

----------------------------------------------------------------------------
(* The caches *)

Ttl(source, result) ==
    CASE source = "quote" -> QuoteTtl
      [] source = "history" -> IF result.ok THEN HistoryTtl ELSE FailureTtl
      [] source = "eth" -> EthTtl

\* read: what is kept is used for its time; a price of ETH also has to be observed lately, by a
\* clock that was not set back.
Usable(source) ==
    /\ kept[source].load > 0
    /\ second < kept[source].fetched + Ttl(source, kept[source])
    /\ source = "eth" => /\ second >= kept[source].fetched /\ second >= kept[source].at
                         /\ second - kept[source].at <= EthMaxAge

\* The price that is replaced stays until the new one is there.
RefreshingMutant == kept

\* #refresh of ETH drops what was kept before it asks; a quote or a history stays.
Refreshing == [kept EXCEPT !["eth"] = Nothing]

\* ethReference: "Provider latency consumes the same freshness window as a cached price's age."
Served(request, result) ==
    IF request.source = "eth" /\ (result.at > second \/ second - result.at > ServedAge)
    THEN [request EXCEPT !.pc = "failed"]
    ELSE [request EXCEPT !.pc = "answered", !.got = result, !.until = second, !.failed = ethFailed]

\* read: kept, joined or loaded.
View(v, source) ==
    LET request == [Resting EXCEPT !.pc = "waiting", !.source = source, !.asked = second] IN
    /\ viewers[v].pc \in {"idle", "answered", "failed"} /\ source \in lot.sources /\ Take("reads")
    /\ \/ /\ Usable(source)
          /\ viewers' = [viewers EXCEPT ![v] = Served(request, kept[source])]
          /\ UNCHANGED <<kept, loads, pending, lastLoad>>
       \/ /\ ~Usable(source) /\ pending[source] # 0
          /\ viewers' = [viewers EXCEPT ![v] = request]
          /\ UNCHANGED <<kept, loads, pending, lastLoad>>
       \/ /\ ~Usable(source) /\ pending[source] = 0
          /\ viewers' = [viewers EXCEPT ![v] = request]
          /\ lastLoad' = lastLoad + 1 /\ pending' = [pending EXCEPT ![source] = lastLoad']
          /\ loads' = loads \cup {[source |-> source, no |-> lastLoad', since |-> second]}
          /\ kept' = IF source = "eth" THEN Refreshing ELSE kept
    /\ UNCHANGED <<second, ethFailed, keeper, updates, onchain>>

Joined(source) == {v \in Viewers : viewers[v].pc = "waiting" /\ viewers[v].source = source}

\* #load, #refresh: the sources' answer, in time order.  A quote or a candle too far ahead is not
\* taken; a price of ETH is of the older of its two sources, neither of them ahead or old.
Acceptable(source, at) ==
    IF source = "eth" THEN at <= second /\ second - at <= EthMaxAge ELSE at <= second + Ahead

\* The load is over and #pending with it.
Ended(load) ==
    /\ load \in loads /\ loads' = loads \ {load}
    /\ pending' = [pending EXCEPT ![load.source] = 0]

\* The cache gets its row, and everybody who joined gets the same one.
Loaded(load, at) ==
    LET result == [ok |-> TRUE, at |-> at, fetched |-> second, load |-> load.no] IN
    /\ Ended(load) /\ Acceptable(load.source, at)
    /\ kept' = [kept EXCEPT ![load.source] = result]
    /\ viewers' = [v \in Viewers |-> IF v \in Joined(load.source) THEN Served(viewers[v], result) ELSE viewers[v]]
    /\ UNCHANGED <<second, lastLoad, ethFailed, keeper, updates, onchain, lot>>

\* A failure is an answer of its own for a quote or a history, and kept; for ETH it is an error.
LoadFails(load) ==
    LET result == [Nothing EXCEPT !.fetched = second, !.load = load.no] IN
    /\ Ended(load) /\ Take("failures")
    /\ IF load.source = "eth"
       THEN /\ ethFailed' = load.no /\ UNCHANGED kept
            /\ viewers' = [v \in Viewers |-> IF v \in Joined("eth") THEN [viewers[v] EXCEPT !.pc = "failed"] ELSE viewers[v]]
       ELSE /\ kept' = [kept EXCEPT ![load.source] = result] /\ UNCHANGED ethFailed
            /\ viewers' = [v \in Viewers |-> IF v \in Joined(load.source) THEN Served(viewers[v], result) ELSE viewers[v]]
    /\ UNCHANGED <<second, lastLoad, keeper, updates, onchain>>

----------------------------------------------------------------------------
(* The keeper's updates *)

KeeperIdle == [pc |-> "idle", calendar |-> 0, at |-> 0, open |-> FALSE, read |-> 0]
Fresh(at) == at <= second /\ second - at <= KeeperMaxAge
InSession(t) == RegularOpen <= t /\ t < RegularClose
cacheVars == <<kept, loads, pending, viewers, lastLoad, ethFailed>>

KeeperStart ==
    /\ keeper.pc = "idle" /\ Take("keepers") /\ keeper' = [KeeperIdle EXCEPT !.pc = "calendar"]
    /\ UNCHANGED <<second, cacheVars, updates, onchain>>

\* Clock and calendar: closed by the source or by the own clock, or the quote is asked for.
KeeperCalendar(observed) ==
    LET open == InSession(observed) /\ InSession(second) IN
    /\ keeper.pc = "calendar" /\ Fresh(observed)
    /\ keeper' = [keeper EXCEPT !.pc = IF open THEN "quote" ELSE "prepare", !.calendar = observed, !.at = observed,
                                !.open = open, !.read = second]
    /\ UNCHANGED <<second, cacheVars, updates, onchain, lot>>

\* The quote was waited for: everything is asked of the clock again.
KeeperQuote(at) ==
    /\ keeper.pc = "quote" /\ Fresh(at) /\ Fresh(keeper.calendar) /\ InSession(second)
    /\ keeper' = [keeper EXCEPT !.pc = "prepare", !.at = at, !.read = second]
    /\ UNCHANGED <<second, cacheVars, updates, onchain, lot>>

\* The file lasts as long as the newer of its two observations.
ExpiresAtMutant(k) == (IF k.calendar < k.at THEN k.at ELSE k.calendar) + KeeperMaxAge

ExpiresAt(k) == (IF k.calendar < k.at THEN k.calendar ELSE k.at) + KeeperMaxAge

\* prepareStockReferenceUpdate, with the time of the read; the file is written when assertCanonical
\* has answered.
PrepareUpdate ==
    /\ keeper.pc = "prepare"
    /\ updates' = updates \cup {[open |-> keeper.open, calendar |-> keeper.calendar, at |-> keeper.at,
                                 read |-> keeper.read, expires |-> ExpiresAt(keeper)]}
    /\ keeper' = KeeperIdle
    /\ UNCHANGED <<second, cacheVars, onchain, lot>>

\* A read that fails, a source that is stale or disagrees, a block that is not canonical.
KeeperGivesUp ==
    /\ keeper.pc \in {"calendar", "quote", "prepare"} /\ keeper' = KeeperIdle
    /\ UNCHANGED <<second, cacheVars, updates, onchain, lot>>

\* The keeper's transactions, when it pleases: what the feed requires of them (see ReferenceFeed).
SessionTaken(u) == Fresh(u.calendar) /\ u.calendar >= onchain.calendar
PriceTaken(u) == Fresh(u.at) /\ u.at > onchain.at

MineSession(u) ==
    /\ SessionTaken(u)
    /\ onchain' = [onchain EXCEPT !.calendar = u.calendar, !.open = u.open]
    /\ UNCHANGED <<second, cacheVars, keeper, updates, lot>>

MinePrice(u) ==
    /\ u.open /\ PriceTaken(u)
    /\ onchain' = [onchain EXCEPT !.at = u.at, !.read = u.read]
    /\ UNCHANGED <<second, cacheVars, keeper, updates, lot>>

----------------------------------------------------------------------------

MoveClock ==
    /\ \/ Take("ticks") /\ second' = second + 1
       \/ Take("back") /\ second' = second - 1
    /\ UNCHANGED <<cacheVars, keeper, updates, onchain>>

ReferenceInit ==
    /\ second = 1 /\ kept = [x \in Sources |-> Nothing] /\ loads = {} /\ pending = [x \in Sources |-> 0]
    /\ viewers = [v \in Viewers |-> Resting] /\ lastLoad = 0 /\ ethFailed = 0
    /\ keeper = KeeperIdle /\ updates = {} /\ onchain = [at |-> 0, read |-> 0, calendar |-> 0, open |-> FALSE]
    /\ lot \in ReferenceBudgets

ReferenceNext ==
    \/ \E v \in Viewers, x \in Sources : View(v, x)
    \/ \E load \in loads : LoadFails(load) \/ \E at \in 0 .. second + Ahead + 1 : Loaded(load, at)
    \/ KeeperStart \/ PrepareUpdate \/ KeeperGivesUp
    \/ \E at \in 0 .. second : KeeperCalendar(at) \/ KeeperQuote(at)
    \/ \E u \in updates : MineSession(u) \/ MinePrice(u)
    \/ MoveClock

ReferenceSpec == ReferenceInit /\ [][ReferenceNext]_referenceVars

----------------------------------------------------------------------------
(* Properties *)

\* What a user is shown was fetched after it was asked for, or is still in its time; a price of ETH
\* is in its window when it is handed out, however long it took and whatever became of the clock,
\* and it is never one from before a load that failed (read, #refresh, ethReference).
PricesFresh ==
    /\ \A v \in Viewers : viewers[v].pc = "answered" =>
          LET a == viewers[v] IN
          /\ a.got.fetched = a.until \/ a.asked < a.got.fetched + Ttl(a.source, a.got)
          /\ a.source = "eth" => /\ a.until - a.got.at \in 0 .. EthMaxAge
                                 /\ a.got.load > a.failed
    /\ \A x \in Sources : Cardinality({load \in loads : load.source = x}) <= 1

\* The feed shows only prices that were read in the regular session, although the session may have
\* ended between the two answers of the source; and a file that has not expired is taken by the
\* feed, unless that has newer observations
\* (VerifiedStockReference.read, prepareStockReferenceUpdate).
KeeperHonest ==
    /\ onchain.at # 0 => InSession(onchain.read)
    /\ \A u \in updates : second <= u.expires /\ second >= u.read =>
          /\ u.calendar >= onchain.calendar => SessionTaken(u)
          /\ u.at > onchain.at => PriceTaken(u)
=============================================================================
