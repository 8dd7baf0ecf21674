---------------------------- MODULE PinnedReads ----------------------------
(***************************************************************************)
(* Reads of the chain that take several requests and must answer for one   *)
(* block: the market's adapter (apps/server/src/launch-market-adapters/    *)
(* rpc-chain.ts) with its shared snapshot, and the diagnostic capture      *)
(* (packages/market-data/src/pinned-rpc.ts) over the JSON-RPC client       *)
(* (packages/chain-adapter/src/rpc.ts).                                    *)
(*                                                                         *)
(* What the provider shows may change to another chain between any two     *)
(* requests.  A step is the reply to one request with what the code does   *)
(* before its next one; what a reply says is the block it speaks of.       *)
(***************************************************************************)
EXTENDS Naturals, Sequences, FiniteSets

CONSTANTS
    Heads, NoHead, HeadParent, HeadNumber,   \* a forest of blocks a provider may show
    Readers,                           \* calls in progress at once
    LagAttempts,                       \* 3 attempts of MarketReadProvider.send
    PinnedBudgets                      \* bounds: which calls and how many, and changes of the chain

VARIABLES
    view,      \* the last block of the chain the provider shows
    verified,  \* #verified
    cache,     \* #cache: whose read it is, while that one is pending
    calls,     \* what each reader does
    budget     \* what may still happen

pinnedVars == <<view, verified, cache, calls, budget>>

Chain[b \in Heads] == IF HeadParent[b] = NoHead THEN {b} ELSE {b} \cup Chain[HeadParent[b]]

\* The blocks are a forest, and the names of readers are other ones.
PinnedConstants ==
    /\ NoHead \notin Heads \cup Readers
    /\ HeadParent \in [Heads -> Heads \cup {NoHead}] /\ HeadNumber \in [Heads -> Nat]
    /\ \A b \in Heads : HeadParent[b] # NoHead => HeadNumber[b] = HeadNumber[HeadParent[b]] + 1

ASSUME PinnedAssumption == PinnedConstants

At(n) == {b \in Chain[view] : HeadNumber[b] = n}
OnChain(b) == b \in Chain[view]

----------------------------------------------------------------------------
(* What the calls read, in order *)

SnapshotReads == <<"markets", "reserves">>    \* #snapshot
WalletReads == <<"balances", "vaults">>       \* wallet, vault
QuoteReads == <<"pool", "amounts">>           \* quoteAmm
SimulateReads == <<"allowances", "gas">>      \* requiredApprovals, simulate
PolicyReads == <<"signers">>                  \* signingPolicy
CaptureReads == <<"code", "calls">>           \* capturePinnedState

ReadsOf(kind) ==
    CASE kind \in {"snapshot", "indexed"} -> SnapshotReads
      [] kind = "wallet" -> WalletReads
      [] kind = "quote" -> QuoteReads
      [] kind = "simulate" -> SimulateReads
      [] kind = "policy" -> PolicyReads
      [] kind = "capture" -> CaptureReads

\* How often one request is sent: MarketReadProvider.send repeats it while the provider lags behind;
\* "Do not rotate providers inside a snapshot" leaves a capture one attempt of JsonRpcClient.#request.
Attempts(kind) == IF kind = "capture" THEN 1 ELSE LagAttempts

Idle == [kind |-> "none", pc |-> "idle", at |-> NoHead, block |-> NoHead, got |-> <<>>,
         tries |-> 0, left |-> "never", by |-> NoHead]
NoCache == [block |-> NoHead, by |-> NoHead, got |-> <<>>, left |-> "never"]

Failed(c) == [Idle EXCEPT !.kind = c.kind, !.pc = "failed"]

----------------------------------------------------------------------------

\* initialize
Initialize ==
    /\ ~verified /\ verified' = TRUE
    /\ UNCHANGED <<view, cache, calls, budget>>

\* A call starts.  A snapshot of an indexed block and a quote name the block they want, a capture may.
Ask(r, kind, at) ==
    /\ calls[r].pc \in {"idle", "answered", "failed"}
    /\ budget.calls > 0 /\ kind \in budget.kinds
    /\ kind \in {"snapshot", "indexed"} => verified
    /\ IF at = NoHead THEN kind \notin {"indexed", "quote"} ELSE kind \in {"indexed", "quote", "capture"}
    /\ calls' = [calls EXCEPT ![r] = [Idle EXCEPT !.kind = kind, !.pc = "block", !.at = at]]
    /\ budget' = [budget EXCEPT !.calls = @ - 1]
    /\ UNCHANGED <<view, verified, cache>>

\* The block of the same height will do.
CacheHitMutant(b) == cache.block # NoHead /\ HeadNumber[cache.block] = HeadNumber[b]

\* snapshot: the read in #cache is of this very block.
CacheHit(b) == cache.block = b

\* The block a call is about: latest; by number, and it must be the one named (snapshot, capture);
\* or by hash, which a provider answers for a block that left its chain too (quoteAmm).
BlockFor(c) ==
    CASE c.at = NoHead -> {view}
      [] c.kind = "quote" -> {c.at}
      [] OTHER -> At(HeadNumber[c.at]) \cap {c.at}

\* The reply that pins a call.  A snapshot joins the read of its block, or starts it.
Pin(r, b) ==
    LET c == calls[r]
        pinned == [c EXCEPT !.pc = "reading", !.block = b, !.left = IF OnChain(b) THEN "never" ELSE "away"]
    IN  /\ c.pc = "block" /\ b \in BlockFor(c)
        /\ \/ /\ c.kind \in {"snapshot", "indexed"} /\ CacheHit(b)
              /\ calls' = [calls EXCEPT ![r] =
                     IF cache.by = NoHead
                     THEN [c EXCEPT !.pc = "answered", !.block = cache.block, !.got = cache.got, !.left = cache.left]
                     ELSE [c EXCEPT !.pc = "joined", !.block = cache.block, !.by = cache.by]]
              /\ UNCHANGED cache
           \/ /\ c.kind \in {"snapshot", "indexed"} /\ ~CacheHit(b)
              /\ calls' = [calls EXCEPT ![r] = pinned]
              /\ cache' = [NoCache EXCEPT !.block = b, !.by = r]
           \/ /\ c.kind \notin {"snapshot", "indexed"}
              /\ calls' = [calls EXCEPT ![r] = pinned]
              /\ UNCHANGED cache
        /\ UNCHANGED <<view, verified, budget>>

\* What a provider answers for a pinned block: by number whatever its chain has there; by hash, with
\* requireCanonical, that block or an error.
Replies(c) ==
    IF c.kind = "capture" THEN {c.block} \cap Chain[view] ELSE At(HeadNumber[c.block])

\* One round of reads is answered.
Read(r) ==
    LET c == calls[r] IN
    /\ c.pc = "reading" /\ Len(c.got) < Len(ReadsOf(c.kind))
    /\ \E b \in Replies(c) : calls' = [calls EXCEPT ![r].got = Append(@, b), ![r].tries = 0]
    /\ UNCHANGED <<view, verified, cache, budget>>

\* "unsupported block number": the request is repeated.
Retry(r) ==
    LET c == calls[r] IN
    /\ c.pc = "reading" /\ c.tries + 1 < Attempts(c.kind)
    /\ At(HeadNumber[c.block]) = {}
    /\ calls' = [calls EXCEPT ![r].tries = @ + 1]
    /\ UNCHANGED <<view, verified, cache, budget>>

\* assertCanonical, and the second block() of a capture.
StillCanonical(b) == OnChain(b)

\* All readers of one read get its answer or its error.
Sharing(r) == {r} \cup {q \in Readers : calls[q].pc = "joined" /\ calls[q].by = r}

\* assertCanonical holds: the call is answered, and with it those that joined it.
Answer(r) ==
    LET c == calls[r] IN
    /\ c.pc = "reading" /\ Len(c.got) = Len(ReadsOf(c.kind))
    /\ StillCanonical(c.block)
    /\ calls' = [q \in Readers |->
           IF q \in Sharing(r)
           THEN [calls[q] EXCEPT !.pc = "answered", !.got = c.got, !.left = c.left, !.by = NoHead] ELSE calls[q]]
    /\ cache' = IF cache.by = r THEN [cache EXCEPT !.by = NoHead, !.got = c.got, !.left = c.left] ELSE cache
    /\ UNCHANGED <<view, verified, budget>>

\* The failed read stays in the cache.
ForgetMutant(r) == cache

\* snapshot's catch: #cache is emptied if it still is this read.
Forget(r) == IF cache.by = r THEN NoCache ELSE cache

\* A request fails for good, its answer is refused, or the block is not canonical any more.
Fail(r) ==
    LET c == calls[r] IN
    /\ c.pc \in {"block", "reading"}
    /\ calls' = [q \in Readers |-> IF q \in Sharing(r) THEN Failed(calls[q]) ELSE calls[q]]
    /\ cache' = Forget(r)
    /\ UNCHANGED <<view, verified, budget>>

\* History: whether the chain left a pinned block while it was read, and came back.
Left(left, on) == IF ~on THEN "away" ELSE IF left = "away" THEN "back" ELSE left

\* The chain grows, or the provider shows another one.
Change(b) ==
    /\ budget.changes > 0 /\ b # view
    /\ view' = b
    /\ calls' = [r \in Readers |-> IF calls[r].pc = "reading" THEN [calls[r] EXCEPT !.left = Left(@, calls[r].block \in Chain[b])]
                                  ELSE calls[r]]
    /\ budget' = [budget EXCEPT !.changes = @ - 1]
    /\ UNCHANGED <<verified, cache>>

----------------------------------------------------------------------------

Kinds == {"snapshot", "indexed", "wallet", "quote", "simulate", "policy", "capture"}

PinnedInit ==
    /\ view \in Heads /\ verified = FALSE /\ cache = NoCache
    /\ calls = [r \in Readers |-> Idle]
    /\ budget \in PinnedBudgets

PinnedNext ==
    \/ Initialize
    \/ \E r \in Readers : \/ \E kind \in Kinds, at \in Heads \cup {NoHead} : Ask(r, kind, at)
                          \/ \E b \in Heads : Pin(r, b)
                          \/ Read(r) \/ Retry(r) \/ Answer(r) \/ Fail(r)
    \/ \E b \in Heads : Change(b)

PinnedSpec == PinnedInit /\ [][PinnedNext]_pinnedVars

----------------------------------------------------------------------------
(* Properties *)

\* An answer is of the block it names and of the block that was asked for, and that block was still
\* canonical: whatever happened to the chain between its reads, every part of it comes from that
\* block, unless the chain left the block and came back to it before assertCanonical; a capture, which
\* reads by hash, has no such exception (snapshot, wallet, quoteAmm, simulate, signingPolicy,
\* capturePinnedState).
AnswersPinned ==
    \A r \in Readers : calls[r].pc = "answered" =>
        LET c == calls[r] IN
        /\ c.at \in {NoHead, c.block}
        /\ c.left # "away"
        /\ \A i \in 1 .. Len(c.got) : c.got[i] = c.block \/ (c.left = "back" /\ c.kind # "capture")

\* The shared snapshot is a finished one, or one somebody still reads: a failed read is never handed
\* to later callers, and never removes the read of another block (snapshot).
CacheIsLive ==
    /\ cache.by # NoHead => calls[cache.by].pc = "reading" /\ calls[cache.by].block = cache.block
    /\ cache.block # NoHead /\ cache.by = NoHead => Len(cache.got) = Len(SnapshotReads)
    /\ \A r \in Readers : calls[r].pc = "joined" => calls[calls[r].by].pc = "reading"
=============================================================================
