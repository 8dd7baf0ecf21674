--------------------------- MODULE ReferenceFeed ---------------------------
(***************************************************************************)
(* The on-chain reference feed of one strategy                             *)
(* (AlphaForgeStrategyReferenceFeed): a keeper publishes a test-stock      *)
(* price and the regular-session window, each with the time at which its   *)
(* source observed it.  Readers decide freshness at the time they read.    *)
(*                                                                         *)
(* Time is block.timestamp in ticks, starting at 1, so that an observation *)
(* time of 0 stands for the zero digest of a feed that was never written.  *)
(***************************************************************************)
EXTENDS Integers

CONSTANTS
    Prices,          \* the USDC amounts the keeper may publish for one stock unit
    SessionWindows,  \* the <<open, close>> bounds the keeper may publish
    FeedMaxAge,      \* the 60 seconds within which an observation must arrive
    MaxSession,      \* the 8 hours a regular session may last
    MaxTime          \* bound on the clock

VARIABLES
    now,      \* block.timestamp
    feed,     \* [price, at]: quote and observed
    session   \* [opens, closes, at]: regularOpen, regularClose, calendarObservedAt

feedVars == <<now, feed, session>>

ASSUME FeedAssumption ==
    /\ Prices \subseteq Nat \ {0}
    /\ SessionWindows \subseteq Nat \X Nat
    /\ FeedMaxAge \in Nat
    /\ MaxSession \in Nat
    /\ MaxTime \in Nat \ {0}

FeedTypeOK ==
    /\ now \in 1..MaxTime
    /\ feed \in [price : Prices \cup {0}, at : 0..MaxTime]
    /\ session \in [opens : Nat, closes : Nat, at : 0..MaxTime]

FeedInit ==
    /\ now = 1
    /\ feed = [price |-> 0, at |-> 0]
    /\ session = [opens |-> 0, closes |-> 0, at |-> 0]

\* The next block: the only step that moves block.timestamp.
Tick ==
    /\ now < MaxTime
    /\ now' = now + 1
    /\ UNCHANGED <<feed, session>>

UpdatePrice(p, at) ==
    /\ at <= now
    /\ at > feed.at
    /\ now - at <= FeedMaxAge
    /\ feed' = [price |-> p, at |-> at]
    /\ UNCHANGED <<now, session>>

UpdateSession(w, at) ==
    /\ at <= now
    /\ at >= session.at
    /\ now - at <= FeedMaxAge
    /\ \/ w[1] = 0 /\ w[2] = 0
       \/ w[1] < w[2] /\ w[2] - w[1] <= MaxSession
    /\ session' = [opens |-> w[1], closes |-> w[2], at |-> at]
    /\ UNCHANGED <<now, feed>>

ExecutionAllowed ==
    /\ session.at # 0
    /\ session.at <= now
    /\ now - session.at <= FeedMaxAge
    /\ session.opens <= now
    /\ now < session.closes

\* What a reader with its own maxPriceAge (the Vault, the stock reserve) requires.
PriceFresh(maxPriceAge) ==
    /\ feed.price # 0
    /\ feed.at # 0
    /\ feed.at <= now
    /\ now - feed.at <= maxPriceAge

FeedNext ==
    \/ Tick
    \/ \E p \in Prices, at \in 1..MaxTime : UpdatePrice(p, at)
    \/ \E w \in SessionWindows, at \in 1..MaxTime : UpdateSession(w, at)
=============================================================================
