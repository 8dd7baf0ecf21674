----------------------------- MODULE ToolsProofs -----------------------------
(***************************************************************************)
(* The two deployment tools, for every plan, set of tabs and budget, and   *)
(* the references of prices, for every asset, policy, clock and fault.     *)
(*                                                                         *)
(* A confirmed row or entry is a promise about the chain: its transaction  *)
(* is in a block deep enough for every reorganisation that may still come. *)
(* That is what makes OnMinedStepsOnly inductive: depth is stated against  *)
(* what is left of the budget of dropped blocks, not against the moment    *)
(* of the check.  The page needs the discipline of the wallet lock besides *)
(* (only its holder works, and the copy it works on is as long as the      *)
(* journal), the engine that its journal and its signatures number each    *)
(* other.                                                                  *)
(*                                                                         *)
(* PricesHonest needs that a source has one load at a time and that a      *)
(* failed load of ETH is older than all that is kept; for the captures,    *)
(* how what was read so far relates to the registry as it is now, and that *)
(* the collector's count is that of the rejected rows at the end of the    *)
(* journal.                                                                *)
(***************************************************************************)
EXTENDS MCTools, FiniteSetTheorems, WellFoundedInduction, TLAPS

----------------------------------------------------------------------------
(* The engine: the inductive invariant *)

Blocks == [id : Nat, tx : Nat, ok : BOOLEAN]
Receipts == [block : Nat, id : Nat, ok : BOOLEAN]
MaybeReceipt == Receipts \cup {Nil}
SignedTxs == [step : Nat, nonce : Nat, planned : BOOLEAN, sig : Nat]
RowStates == {"RESERVED", "SIGNED", "BROADCAST_UNCERTAIN", "CONFIRMED", "REORGED", "REVERTED", "VERIFICATION_FAILED"}
Rows == [state : RowStates, nonce : Nat, sig : Nat, receipt : MaybeReceipt]
CallPoints == {"idle", "canonical", "reserve", "deadline", "signing", "signed", "recheck", "send", "receipt", "verify",
               "confirm"}
Signings == [step : Nat, nonce : Nat]
Calls == [at : CallPoints, call : {"none", "next", "reconcile"}, i : Nat, nonce : Nat, head : Nat,
          receipt : MaybeReceipt, sig : Nat]

ChainType ==
    /\ chain \in Seq(Blocks)
    /\ blocks \in Nat
    /\ DOMAIN txs = 1..Len(txs) /\ Len(txs) \in Nat
    /\ pool \subseteq DOMAIN txs
    /\ \A b \in DOMAIN chain : chain[b].tx \in 0..Len(txs) /\ chain[b].id <= blocks

EngineType ==
    /\ txs \in Seq(SignedTxs)
    /\ rows \in Seq(Rows)
    /\ engine \in Calls
    /\ signatures \in Seq(Signings)
    /\ lapsed \in BOOLEAN
    /\ left \in EngineBudget /\ left.drops <= left.depth

\* A signature is of a row of the journal, and of no row twice; a row that left RESERVED names its signature.
SignaturesNumbered ==
    /\ \A p \in DOMAIN signatures : signatures[p].step \in DOMAIN rows /\ signatures[p].nonce = signatures[p].step - 1
    /\ \A p, q \in DOMAIN signatures : signatures[p].step = signatures[q].step => p = q

RowsSigned ==
    \A i \in DOMAIN rows :
        /\ rows[i].state = "RESERVED" <=> rows[i].sig = 0
        /\ rows[i].sig # 0 => rows[i].sig \in DOMAIN signatures /\ signatures[rows[i].sig].step = i

SentNumbered ==
    \A h \in DOMAIN txs : /\ txs[h].step \in DOMAIN rows /\ txs[h].planned
                          /\ txs[h].sig # 0 /\ rows[txs[h].step].sig = txs[h].sig

\* Step s succeeded in a block that outlasts n more dropped tips.
Embedded(s, n) == \E b \in DOMAIN chain :
    chain[b].tx # 0 /\ chain[b].ok /\ txs[chain[b].tx].step = s /\ txs[chain[b].tx].planned /\ b + n <= Len(chain)

ConfirmedRowsSettled ==
    left.depth <= Confirmations => \A i \in DOMAIN rows : rows[i].state = "CONFIRMED" => Embedded(i, left.drops)

AllConfirmed(n) == \A i \in 1..n : rows[i].state = "CONFIRMED"

\* The row that was reserved for the step at hand and is not signed yet.
Unsigned ==
    /\ engine.i = Len(rows) /\ engine.i # 0 /\ engine.nonce = engine.i - 1
    /\ rows[engine.i].state = "RESERVED"

\* The receipt at hand: as long as its block is canonical it holds the row's transaction.
ReceiptHolds ==
    /\ engine.i \in DOMAIN rows /\ rows[engine.i].sig # 0
    /\ engine.receipt \in Receipts /\ engine.receipt.block # 0 /\ engine.receipt.id <= blocks
    /\ engine.receipt.block <= Len(chain) /\ chain[engine.receipt.block].id = engine.receipt.id =>
          /\ chain[engine.receipt.block].tx # 0 /\ chain[engine.receipt.block].ok = engine.receipt.ok
          /\ txs[chain[engine.receipt.block].tx].step = engine.i

CallKnows ==
    /\ engine.at = "canonical" => engine.i # 0
    /\ engine.at = "canonical" /\ engine.call = "next" => AllConfirmed(Len(rows))
    /\ engine.at = "reserve" => AllConfirmed(Len(rows)) /\ engine.nonce = Len(rows)
    /\ engine.at \in {"deadline", "signing"} =>
          Unsigned /\ AllConfirmed(Len(rows) - 1) /\ \A p \in DOMAIN signatures : signatures[p].step # engine.i
    /\ engine.at = "signed" => Unsigned /\ engine.sig \in DOMAIN signatures /\ signatures[engine.sig].step = engine.i
    /\ engine.at \in {"recheck", "send"} => engine.i \in DOMAIN rows /\ engine.sig # 0 /\ rows[engine.i].sig = engine.sig
    /\ engine.at \in {"receipt", "verify", "confirm"} => ReceiptHolds
    /\ engine.at \in {"verify", "confirm"} => engine.receipt.ok
    /\ engine.at = "confirm" /\ left.depth <= Confirmations => engine.head + left.drops <= Len(chain) + Confirmations

EngineInv ==
    ChainType /\ EngineType /\ SignaturesNumbered /\ RowsSigned /\ SentNumbered /\ ConfirmedRowsSettled /\ CallKnows

----------------------------------------------------------------------------
(* The page: the inductive invariant *)

SentTxs == [step : Nat, nonce : Nat, planned : BOOLEAN]
Entries == [state : {"INTENT", "SUBMITTED", "INCLUDED", "CONFIRMED", "UNKNOWN", "REVERTED", "REORGED"},
            hash : Nat, receipt : MaybeReceipt]
TabPoints == {"idle", "connect", "lookup", "observe", "preflight", "guard", "intent", "prompt", "loop", "done"}
Jobs == {"connect", "check", "send", "continue", "recover", "export"}
TabCalls == [job : Jobs \cup {"none"}, at : TabPoints, then : {"end", "send", "continue", "guard"}, i : Nat,
             copy : Seq(Entries), prompt : Nat, hash : Nat]
TabStates == [connected : BOOLEAN, verified : BOOLEAN, aborted : BOOLEAN, call : TabCalls]

Prompts == [step : Nat, open : BOOLEAN]

\* No more blocks are taken back than a confirmation waits for.
Shallow == \A b \in PageBudgets : b.drops <= Confirmations

PageType ==
    /\ txs \in Seq(SentTxs)
    /\ tabs \in [Tabs -> TabStates]
    /\ journal \in Seq(Entries)
    /\ prompts \in Seq(Prompts)
    /\ allowance \in PageBudget /\ (Shallow => allowance.drops <= Confirmations)

\* A confirmed entry's step is settled, whoever holds the entry.
EntriesSettled(entries) ==
    Shallow => \A i \in DOMAIN entries : entries[i].state = "CONFIRMED" => Embedded(i, allowance.drops)

JournalConfirmed == \A i \in DOMAIN journal : journal[i].state = "CONFIRMED"

\* What a tab at work knows.
TabKnows(tab) ==
    /\ tab.call.at \in {"connect", "observe", "preflight"} => Len(tab.call.copy) = Len(journal) /\ EntriesSettled(tab.call.copy)
    /\ tab.call.at \in {"connect", "observe"} => tab.call.i # 0
    /\ tab.call.at = "prompt" => tab.call.prompt \in DOMAIN prompts
    /\ tab.call.at = "intent" => JournalConfirmed

OnlyHolderWorks == \A t \in Tabs : tabs[t].call.at # "idle" => lock = t

PromptsJournalled ==
    /\ \A p \in DOMAIN prompts : prompts[p].step \in DOMAIN journal
    /\ StepPromptedOnce

PageInv ==
    /\ ChainType /\ PageType
    /\ OnlyHolderWorks /\ PromptsJournalled
    /\ EntriesSettled(journal)
    /\ \A t \in Tabs : TabKnows(tabs[t])

----------------------------------------------------------------------------
(* The engine: its steps *)

\* No budget but "drops" bounds reorganisations.
LEMMA SpendKeepsDepth ==
    ASSUME NEW what \in {"calls", "crashes", "fails", "expiries"}, left \in EngineBudget, Spend(what)
    PROVE  left' \in EngineBudget /\ left'.drops = left.drops /\ left'.depth = left.depth
BY DEF Spend, EngineBudget

LEMMA IdleIsCall == Idle \in Calls /\ Idle.at = "idle"
<1>1. Nil \in MaybeReceipt
  BY DEF MaybeReceipt
<1> QED
  BY <1>1 DEF Idle, Calls, CallPoints

\* A call that returned knows nothing.
LEMMA ReturnKnows == ASSUME Return PROVE engine' \in Calls /\ CallKnows'
<1>1. engine'.at = "idle" /\ engine' \in Calls
  BY IdleIsCall DEF Return
<1> QED
  BY <1>1 DEF CallKnows

\* A step that changes the call alone.
LEMMA CallMoves ==
    ASSUME EngineInv, UNCHANGED <<networkVars, rows, signatures>>, lapsed' \in BOOLEAN,
           left' \in EngineBudget, left'.drops = left.drops, left'.depth = left.depth,
           engine' \in Calls, CallKnows'
    PROVE  EngineInv'
<1>1. ChainType'
  BY DEF EngineInv, ChainType, networkVars
<1>2. EngineType'
  BY DEF EngineInv, EngineType, networkVars
<1>3. SignaturesNumbered' /\ RowsSigned' /\ SentNumbered'
  BY DEF EngineInv, SignaturesNumbered, RowsSigned, SentNumbered, networkVars
<1>4. ConfirmedRowsSettled'
  BY DEF EngineInv, ConfirmedRowsSettled, Embedded, networkVars
<1> QED
  BY <1>1, <1>2, <1>3, <1>4 DEF EngineInv

\* A step that gives a signed row another state and returns.
LEMMA RowMoves ==
    ASSUME EngineInv, UNCHANGED <<networkVars, signatures, lapsed>>,
           left' \in EngineBudget, left'.drops = left.drops, left'.depth = left.depth,
           NEW i \in DOMAIN rows, NEW state \in RowStates, NEW receipt \in MaybeReceipt,
           SetState(i, state, receipt), state # "RESERVED", rows[i].sig # 0, Return,
           state = "CONFIRMED" /\ left.depth <= Confirmations => Embedded(i, left.drops)
    PROVE  EngineInv'
<1>0. engine' \in Calls /\ CallKnows'
  BY ReturnKnows
<1>1. ChainType'
  BY DEF EngineInv, ChainType, networkVars
<1>2. rows \in Seq(Rows)
  BY DEF EngineInv, EngineType
<1>3. rows[i] \in Rows
  BY <1>2
<1>4. /\ rows' \in Seq(Rows) /\ DOMAIN rows' = DOMAIN rows
      /\ rows'[i].state = state /\ rows'[i].sig = rows[i].sig
      /\ \A j \in DOMAIN rows : j # i => rows'[j] = rows[j]
  BY <1>2, <1>3 DEF SetState, Rows
<1>5. EngineType'
  BY <1>0, <1>4 DEF EngineInv, EngineType, networkVars
<1>6. \A j \in DOMAIN rows : rows'[j].sig = rows[j].sig
  BY <1>4
<1>7. SignaturesNumbered'
  BY <1>4 DEF EngineInv, SignaturesNumbered
<1>8. RowsSigned'
  BY <1>4 DEF EngineInv, RowsSigned
<1>9. SentNumbered'
  BY <1>4, <1>6 DEF EngineInv, SentNumbered, networkVars
<1>10. ConfirmedRowsSettled'
  BY <1>4 DEF EngineInv, ConfirmedRowsSettled, Embedded, networkVars
<1> QED
  BY <1>0, <1>1, <1>5, <1>7, <1>8, <1>9, <1>10 DEF EngineInv

LEMMA NextKeeps == ASSUME EngineInv, Next_ PROVE EngineInv'
<1>1. left \in EngineBudget /\ rows \in Seq(Rows) /\ lapsed \in BOOLEAN
  BY DEF EngineInv, EngineType
<1>2. left' \in EngineBudget /\ left'.drops = left.drops /\ left'.depth = left.depth
  BY <1>1, SpendKeepsDepth DEF Next_
<1>3. CASE RecoveryRequired \/ lapsed
  <2>1. Return
    BY <1>3 DEF Next_, Return
  <2> QED
    BY <1>1, <1>2, <2>1, ReturnKnows, CallMoves DEF Next_
<1>4. CASE ~(RecoveryRequired \/ lapsed)
  <2>1. engine' = [Idle EXCEPT !.at = "canonical", !.call = "next", !.i = 1]
    BY <1>4 DEF Next_
  <2>2. engine' \in Calls /\ engine'.at = "canonical" /\ engine'.i = 1
    BY <2>1, IdleIsCall DEF Calls, CallPoints
  <2>3. AllConfirmed(Len(rows))'
    BY <1>1, <1>4 DEF AllConfirmed, RecoveryRequired, Unconfirmed, Next_
  <2>4. CallKnows'
    BY <2>2, <2>3 DEF CallKnows
  <2> QED
    BY <1>1, <1>2, <2>2, <2>4, CallMoves DEF Next_
<1> QED
  BY <1>3, <1>4

LEMMA CheckRowKeeps == ASSUME EngineInv, CheckRow PROVE EngineInv'
<1> DEFINE row == rows[engine.i]
<1> DEFINE known == row.receipt.block <= Height
<1>1. left \in EngineBudget /\ rows \in Seq(Rows) /\ engine \in Calls /\ lapsed \in BOOLEAN
  BY DEF EngineInv, EngineType
<1>2. engine.i \in DOMAIN rows /\ engine.i \in Nat
  BY <1>1 DEF EngineInv, CallKnows, CheckRow, At, Calls
<1>3. row \in Rows
  BY <1>1, <1>2
<1>4. CASE row.state # "CONFIRMED" \/ (known /\ Canonical(row.receipt))
  <2>1. engine' = [engine EXCEPT !.i = @ + 1] /\ rows' = rows
    BY <1>4 DEF CheckRow
  <2>2. engine' \in Calls /\ engine'.at = "canonical" /\ engine'.i = engine.i + 1 /\ engine'.call = engine.call
    BY <1>1, <2>1 DEF Calls, CheckRow, At
  <2>3. CallKnows'
    BY <1>2, <2>1, <2>2 DEF EngineInv, CallKnows, CheckRow, At, AllConfirmed
  <2> QED
    BY <1>1, <2>1, <2>2, <2>3, CallMoves DEF CheckRow
<1>5. CASE ~(row.state # "CONFIRMED" \/ (known /\ Canonical(row.receipt))) /\ known
  <2>1. Return /\ SetState(engine.i, "REORGED", row.receipt)
    BY <1>5 DEF CheckRow
  <2>2. row.sig # 0
    BY <1>2, <1>5 DEF EngineInv, RowsSigned
  <2>3. row.receipt \in MaybeReceipt
    BY <1>3 DEF Rows
  <2> QED
    BY <1>1, <1>2, <2>1, <2>2, <2>3, RowMoves DEF CheckRow, RowStates
<1>6. CASE ~(row.state # "CONFIRMED" \/ (known /\ Canonical(row.receipt))) /\ ~known
  <2>1. Return /\ rows' = rows
    BY <1>6 DEF CheckRow
  <2> QED
    BY <1>1, <2>1, ReturnKnows, CallMoves DEF CheckRow
<1> QED
  BY <1>4, <1>5, <1>6

LEMMA PrepareKeeps == ASSUME EngineInv, Prepare PROVE EngineInv'
<1>1. left \in EngineBudget /\ rows \in Seq(Rows) /\ engine \in Calls /\ lapsed \in BOOLEAN
  BY DEF EngineInv, EngineType
<1>2. CASE Len(rows) < PlanLength /\ NonceCertain /\ LatestNonce = Len(rows)
  <2>1. engine' = [engine EXCEPT !.at = "reserve", !.nonce = Len(rows)]
    BY <1>2 DEF Prepare
  <2>2. engine' \in Calls /\ engine'.at = "reserve" /\ engine'.nonce = Len(rows)
    <3>1. Len(rows) \in Nat
      BY <1>1
    <3> QED
      BY <1>1, <2>1, <3>1 DEF Calls, CallPoints
  <2>3. AllConfirmed(Len(rows))'
    BY <1>1 DEF EngineInv, CallKnows, Prepare, At, AllConfirmed
  <2>4. CallKnows'
    BY <2>2, <2>3 DEF CallKnows, Prepare
  <2> QED
    BY <1>1, <2>2, <2>4, CallMoves DEF Prepare
<1>3. CASE ~(Len(rows) < PlanLength /\ NonceCertain /\ LatestNonce = Len(rows))
  <2>1. Return
    BY <1>3 DEF Prepare, Return
  <2> QED
    BY <1>1, <2>1, ReturnKnows, CallMoves DEF Prepare
<1> QED
  BY <1>2, <1>3

LEMMA ReserveKeeps == ASSUME EngineInv, Reserve PROVE EngineInv'
<1>1. left \in EngineBudget /\ rows \in Seq(Rows) /\ engine \in Calls /\ lapsed \in BOOLEAN
  BY DEF EngineInv, EngineType
<1>2. CASE ~lapsed /\ NonceCertain /\ LatestNonce = engine.nonce
  <2> DEFINE n == Len(rows)
  <2>0. n \in Nat /\ engine.nonce = n /\ AllConfirmed(n)
    BY <1>1 DEF EngineInv, CallKnows, Reserve, At
  <2>1. rows' = Append(rows, Reserved(n)) /\ engine' = [engine EXCEPT !.at = "deadline", !.i = n + 1]
    BY <1>2, <2>0 DEF Reserve
  <2>2. Reserved(n) \in Rows
    <3>1. Nil \in MaybeReceipt
      BY DEF MaybeReceipt
    <3> QED
      BY <2>0, <3>1 DEF Reserved, Rows, RowStates
  <2>3. /\ rows' \in Seq(Rows) /\ Len(rows') = n + 1 /\ DOMAIN rows' = 1..(n + 1) /\ DOMAIN rows = 1..n
        /\ \A i \in 1..n : rows'[i] = rows[i]
        /\ rows'[n + 1] = Reserved(n)
    BY <1>1, <2>1, <2>2
  <2>4. rows'[n + 1].state = "RESERVED" /\ rows'[n + 1].sig = 0
    BY <2>3 DEF Reserved
  <2>5. engine' \in Calls /\ engine'.at = "deadline" /\ engine'.i = n + 1 /\ engine'.nonce = n
    <3>1. PICK m \in Nat : m = n + 1
      BY <2>0
    <3>2. engine' = [engine EXCEPT !.at = "deadline", !.i = m]
      BY <2>1, <3>1
    <3> QED
      BY <1>1, <2>0, <3>1, <3>2 DEF Calls, CallPoints
  <2>6. SignaturesNumbered'
    BY <2>0, <2>3 DEF EngineInv, SignaturesNumbered, Reserve
  <2>7. RowsSigned'
    BY <2>0, <2>3, <2>4 DEF EngineInv, RowsSigned, Reserve
  <2>8. SentNumbered'
    BY <2>0, <2>3 DEF EngineInv, SentNumbered, Reserve, networkVars
  <2>9. ConfirmedRowsSettled'
    BY <2>0, <2>3, <2>4 DEF EngineInv, ConfirmedRowsSettled, Embedded, Reserve, networkVars
  <2>10. \A i \in 1..n : rows'[i].state = "CONFIRMED"
    BY <2>0, <2>3 DEF AllConfirmed
  <2>11. \A p \in DOMAIN signatures' : signatures'[p].step # n + 1
    BY <2>0, <2>3 DEF EngineInv, SignaturesNumbered, Reserve
  <2>12. CallKnows'
    BY <2>0, <2>3, <2>4, <2>5, <2>10, <2>11 DEF CallKnows, Unsigned, AllConfirmed
  <2>13. ChainType' /\ EngineType'
    BY <2>3, <2>5 DEF EngineInv, ChainType, EngineType, Reserve, networkVars
  <2> QED
    BY <2>6, <2>7, <2>8, <2>9, <2>12, <2>13 DEF EngineInv
<1>3. CASE ~(~lapsed /\ NonceCertain /\ LatestNonce = engine.nonce)
  <2>1. Return /\ rows' = rows
    BY <1>3 DEF Reserve
  <2> QED
    BY <1>1, <2>1, ReturnKnows, CallMoves DEF Reserve
<1> QED
  BY <1>2, <1>3

LEMMA SigningDeadlineKeeps == ASSUME EngineInv, SigningDeadline PROVE EngineInv'
<1>1. left \in EngineBudget /\ engine \in Calls /\ lapsed \in BOOLEAN
  BY DEF EngineInv, EngineType
<1>2. CASE lapsed
  <2>1. Return
    BY <1>2 DEF SigningDeadline
  <2> QED
    BY <1>1, <2>1, ReturnKnows, CallMoves DEF SigningDeadline
<1>3. CASE ~lapsed
  <2>1. engine' = [engine EXCEPT !.at = "signing"]
    BY <1>3 DEF SigningDeadline, Goto
  <2>2. engine' \in Calls /\ engine'.at = "signing" /\ engine'.i = engine.i /\ engine'.nonce = engine.nonce
    BY <1>1, <2>1 DEF Calls, CallPoints
  <2>3. CallKnows'
    BY <2>2 DEF EngineInv, CallKnows, SigningDeadline, At, Unsigned, AllConfirmed
  <2> QED
    BY <1>1, <2>2, <2>3, CallMoves DEF SigningDeadline
<1> QED
  BY <1>2, <1>3

\* A signature of the reserved row: the step is numbered, and every earlier one is settled.
LEMMA SignatureAdded ==
    ASSUME EngineInv, At("signing"),
           signatures' = Append(signatures, [step |-> engine.i, nonce |-> engine.nonce]), rows' = rows
    PROVE  /\ signatures' \in Seq(Signings)
           /\ Len(signatures') = Len(signatures) + 1
           /\ signatures'[Len(signatures) + 1].step = engine.i
           /\ SignaturesNumbered' /\ RowsSigned'
           /\ left.depth <= Confirmations => DependenciesMined(engine.i)
<1> DEFINE n == Len(signatures)
<1>1. rows \in Seq(Rows) /\ engine \in Calls /\ signatures \in Seq(Signings)
  BY DEF EngineInv, EngineType
<1>2. /\ Unsigned /\ AllConfirmed(Len(rows) - 1)
      /\ \A p \in DOMAIN signatures : signatures[p].step # engine.i
  BY DEF EngineInv, CallKnows, At
<1>3. engine.i \in Nat /\ engine.nonce \in Nat
  BY <1>1 DEF Calls
<1>4. [step |-> engine.i, nonce |-> engine.nonce] \in Signings
  BY <1>3 DEF Signings
<1>5. /\ signatures' \in Seq(Signings)
      /\ n \in Nat /\ Len(signatures') = n + 1 /\ DOMAIN signatures' = 1..(n + 1) /\ DOMAIN signatures = 1..n
      /\ \A p \in 1..n : signatures'[p] = signatures[p]
      /\ signatures'[n + 1] = [step |-> engine.i, nonce |-> engine.nonce]
  BY <1>1, <1>4
<1>6. signatures'[n + 1].step = engine.i /\ signatures'[n + 1].nonce = engine.nonce
  BY <1>5
<1>7. engine.i \in DOMAIN rows /\ engine.nonce = engine.i - 1
  BY <1>1, <1>2, <1>3 DEF Unsigned
<1>8. SignaturesNumbered'
  <2>1. ASSUME NEW p \in DOMAIN signatures'
        PROVE  signatures'[p].step \in DOMAIN rows' /\ signatures'[p].nonce = signatures'[p].step - 1
    BY <1>5, <1>6, <1>7 DEF EngineInv, SignaturesNumbered
  <2>2. ASSUME NEW p \in DOMAIN signatures', NEW q \in DOMAIN signatures', signatures'[p].step = signatures'[q].step
        PROVE  p = q
    BY <2>2, <1>2, <1>5, <1>6 DEF EngineInv, SignaturesNumbered
  <2> QED
    BY <2>1, <2>2 DEF SignaturesNumbered
<1>9. RowsSigned'
  BY <1>5 DEF EngineInv, RowsSigned
<1>10. ASSUME left.depth <= Confirmations PROVE DependenciesMined(engine.i)
  <2>1. \A d \in 1..(engine.i - 1) : d \in DOMAIN rows /\ rows[d].state = "CONFIRMED"
    BY <1>1, <1>2, <1>3 DEF Unsigned, AllConfirmed
  <2>2. \A d \in 1..(engine.i - 1) : Embedded(d, left.drops)
    BY <1>10, <2>1 DEF EngineInv, ConfirmedRowsSettled
  <2> QED
    BY <2>2 DEF DependenciesMined, Embedded
<1> QED
  BY <1>5, <1>6, <1>8, <1>9, <1>10

LEMMA SignKeeps == ASSUME EngineInv, Sign PROVE EngineInv'
<1> DEFINE n == Len(signatures)
<1>1. engine \in Calls /\ signatures \in Seq(Signings)
  BY DEF EngineInv, EngineType
<1>2. /\ signatures' \in Seq(Signings)
      /\ Len(signatures') = n + 1
      /\ signatures'[n + 1].step = engine.i
      /\ SignaturesNumbered' /\ RowsSigned'
  BY SignatureAdded DEF Sign
<1>3. PICK m \in Nat : m = n + 1
  BY <1>1
<1>4. engine' = [engine EXCEPT !.at = "signed", !.sig = m]
  BY <1>3 DEF Sign
<1>5. engine' \in Calls /\ engine'.at = "signed" /\ engine'.i = engine.i /\ engine'.nonce = engine.nonce /\ engine'.sig = m
  BY <1>1, <1>4 DEF Calls, CallPoints
<1>6. m \in DOMAIN signatures' /\ signatures'[m].step = engine.i
  BY <1>2, <1>3
<1>7. CallKnows'
  BY <1>5, <1>6 DEF EngineInv, CallKnows, Sign, At, Unsigned
<1>8. ChainType' /\ EngineType' /\ SentNumbered'
  BY <1>2, <1>5 DEF EngineInv, ChainType, EngineType, SentNumbered, Sign, networkVars
<1>9. ConfirmedRowsSettled'
  BY DEF EngineInv, ConfirmedRowsSettled, Embedded, Sign, networkVars
<1> QED
  BY <1>2, <1>7, <1>8, <1>9 DEF EngineInv

LEMMA RecordSignatureKeeps == ASSUME EngineInv, RecordSignature PROVE EngineInv'
<1>1. rows \in Seq(Rows) /\ engine \in Calls /\ signatures \in Seq(Signings)
  BY DEF EngineInv, EngineType
<1>2. Unsigned /\ engine.sig \in DOMAIN signatures /\ signatures[engine.sig].step = engine.i
  BY DEF EngineInv, CallKnows, RecordSignature, At
<1>3. engine.i \in DOMAIN rows /\ engine.sig \in Nat /\ engine.sig # 0 /\ engine.i \in Nat
  BY <1>1, <1>2 DEF Unsigned, Calls
<1>4. rows[engine.i] \in Rows
  BY <1>1, <1>3
<1>5. /\ rows' \in Seq(Rows) /\ DOMAIN rows' = DOMAIN rows
      /\ rows'[engine.i].state = "SIGNED" /\ rows'[engine.i].sig = engine.sig
      /\ \A j \in DOMAIN rows : j # engine.i => rows'[j] = rows[j]
  <2>1. PICK row \in Rows : row = [rows[engine.i] EXCEPT !.state = "SIGNED", !.sig = engine.sig]
    BY <1>3, <1>4 DEF Rows, RowStates
  <2>2. row.state = "SIGNED" /\ row.sig = engine.sig
    BY <1>4, <2>1 DEF Rows
  <2>3. rows' = [rows EXCEPT ![engine.i] = row]
    BY <1>1, <1>3, <2>1 DEF RecordSignature
  <2> QED
    BY <1>1, <1>3, <2>2, <2>3
<1>6. engine' = [engine EXCEPT !.at = "recheck"]
  BY DEF RecordSignature, Goto
<1>7. engine' \in Calls /\ engine'.at = "recheck" /\ engine'.i = engine.i /\ engine'.sig = engine.sig
  BY <1>1, <1>6 DEF Calls, CallPoints
<1>8. CallKnows'
  BY <1>3, <1>5, <1>7 DEF CallKnows
<1>9. ChainType' /\ EngineType' /\ SignaturesNumbered'
  BY <1>5, <1>7 DEF EngineInv, ChainType, EngineType, SignaturesNumbered, RecordSignature, networkVars
<1>10. RowsSigned'
  BY <1>2, <1>3, <1>5 DEF EngineInv, RowsSigned, RecordSignature
<1>11. rows[engine.i].sig = 0
  BY <1>2, <1>3 DEF EngineInv, RowsSigned, Unsigned
<1>12. SentNumbered'
  BY <1>5, <1>11 DEF EngineInv, SentNumbered, RecordSignature, networkVars
<1>13. ConfirmedRowsSettled'
  BY <1>5 DEF EngineInv, ConfirmedRowsSettled, Embedded, RecordSignature, networkVars
<1> QED
  BY <1>8, <1>9, <1>10, <1>12, <1>13 DEF EngineInv

LEMMA ClaimKeeps == ASSUME EngineInv, Claim PROVE EngineInv'
<1>1. rows \in Seq(Rows) /\ engine \in Calls /\ left \in EngineBudget /\ lapsed \in BOOLEAN
  BY DEF EngineInv, EngineType
<1>2. engine.i \in DOMAIN rows /\ engine.sig # 0 /\ rows[engine.i].sig = engine.sig
  BY DEF EngineInv, CallKnows, Claim, At
<1>3. CASE ~lapsed /\ NonceCertain /\ LatestNonce = engine.nonce
  <2>1. rows' = [rows EXCEPT ![engine.i].state = "BROADCAST_UNCERTAIN"] /\ engine' = [engine EXCEPT !.at = "send"]
    BY <1>3 DEF Claim, Goto
  <2>2. rows[engine.i] \in Rows
    BY <1>1, <1>2
  <2>3. /\ rows' \in Seq(Rows) /\ DOMAIN rows' = DOMAIN rows
        /\ rows'[engine.i].state = "BROADCAST_UNCERTAIN" /\ rows'[engine.i].sig = engine.sig
        /\ \A j \in DOMAIN rows : j # engine.i => rows'[j] = rows[j]
    BY <1>1, <1>2, <2>1, <2>2 DEF Rows, RowStates
  <2>4. engine' \in Calls /\ engine'.at = "send" /\ engine'.i = engine.i /\ engine'.sig = engine.sig
    BY <1>1, <2>1 DEF Calls, CallPoints
  <2>5. CallKnows'
    BY <1>2, <2>3, <2>4 DEF CallKnows
  <2>6. ChainType' /\ EngineType' /\ SignaturesNumbered'
    BY <2>3, <2>4 DEF EngineInv, ChainType, EngineType, SignaturesNumbered, Claim, networkVars
  <2>7. RowsSigned'
    BY <1>2, <2>3 DEF EngineInv, RowsSigned, Claim
  <2>8. SentNumbered'
    BY <1>2, <2>3 DEF EngineInv, SentNumbered, Claim, networkVars
  <2>9. ConfirmedRowsSettled'
    BY <2>3 DEF EngineInv, ConfirmedRowsSettled, Embedded, Claim, networkVars
  <2> QED
    BY <2>5, <2>6, <2>7, <2>8, <2>9 DEF EngineInv
<1>4. CASE ~(~lapsed /\ NonceCertain /\ LatestNonce = engine.nonce)
  <2>1. Return /\ rows' = rows
    BY <1>4 DEF Claim
  <2> QED
    BY <1>1, <2>1, ReturnKnows, CallMoves DEF Claim
<1> QED
  BY <1>3, <1>4

\* A transaction that reaches the network is the row's, whoever still sends it.
LEMMA BroadcastKeeps ==
    ASSUME EngineInv, At("send"), Return,
           Broadcast([step |-> engine.i, nonce |-> engine.nonce, planned |-> TRUE, sig |-> engine.sig]),
           UNCHANGED <<chain, blocks, rows, signatures, lapsed>>,
           left' \in EngineBudget, left'.drops = left.drops, left'.depth = left.depth
    PROVE  EngineInv'
<1> DEFINE tx == [step |-> engine.i, nonce |-> engine.nonce, planned |-> TRUE, sig |-> engine.sig]
<1>1. txs \in Seq(SignedTxs) /\ engine \in Calls /\ chain \in Seq(Blocks) /\ pool \subseteq DOMAIN txs
  BY DEF EngineInv, EngineType, ChainType
<1>2. engine.i \in DOMAIN rows /\ engine.sig # 0 /\ rows[engine.i].sig = engine.sig
  BY DEF EngineInv, CallKnows, At
<1>3. tx \in SignedTxs
  BY <1>1 DEF SignedTxs, Calls
<1>4. PICK n \in Nat : n = Len(txs)
  BY <1>1
<1>5. /\ txs' \in Seq(SignedTxs) /\ Len(txs') = n + 1 /\ DOMAIN txs' = 1..(n + 1) /\ DOMAIN txs = 1..n
      /\ \A h \in 1..n : txs'[h] = txs[h]
      /\ txs'[n + 1] = tx
      /\ pool' = pool \cup {n + 1}
  BY <1>1, <1>3, <1>4 DEF Broadcast
<1>6. ChainType'
  BY <1>1, <1>4, <1>5 DEF EngineInv, ChainType
<1>7. engine' \in Calls /\ CallKnows'
  BY ReturnKnows
<1>8. EngineType' /\ SignaturesNumbered' /\ RowsSigned'
  BY <1>5, <1>7 DEF EngineInv, EngineType, SignaturesNumbered, RowsSigned
<1>9. SentNumbered'
  BY <1>2, <1>5 DEF EngineInv, SentNumbered
<1>10. \A b \in DOMAIN chain : chain[b].tx # 0 => txs'[chain[b].tx] = txs[chain[b].tx]
  BY <1>1, <1>4, <1>5 DEF EngineInv, ChainType
<1>11. ConfirmedRowsSettled'
  BY <1>10 DEF EngineInv, ConfirmedRowsSettled, Embedded
<1> QED
  BY <1>6, <1>7, <1>8, <1>9, <1>11 DEF EngineInv

LEMMA SendKeeps == ASSUME EngineInv, Send PROVE EngineInv'
<1>1. left \in EngineBudget /\ lapsed \in BOOLEAN
  BY DEF EngineInv, EngineType
<1>2. CASE lapsed
  BY <1>1, <1>2, ReturnKnows, CallMoves DEF Send, networkVars
<1>3. CASE ~lapsed
  BY <1>1, <1>3, BroadcastKeeps DEF Send
<1> QED
  BY <1>2, <1>3

LEMMA ReconcileKeeps == ASSUME EngineInv, Reconcile PROVE EngineInv'
<1>1. left \in EngineBudget /\ lapsed \in BOOLEAN /\ chain \in Seq(Blocks)
  BY DEF EngineInv, EngineType, ChainType
<1>2. left' \in EngineBudget /\ left'.drops = left.drops /\ left'.depth = left.depth
  BY <1>1, SpendKeepsDepth DEF Reconcile
<1>3. CASE \E i \in DOMAIN rows : rows[i].state = "REORGED"
  <2>1. Return
    BY <1>3 DEF Reconcile, Return
  <2> QED
    BY <1>1, <1>2, <2>1, ReturnKnows, CallMoves DEF Reconcile
<1>4. CASE ~\E i \in DOMAIN rows : rows[i].state = "REORGED"
  <2>1. PICK n \in Nat : n = Height
    BY <1>1 DEF Height
  <2>2. engine' = [Idle EXCEPT !.at = "canonical", !.call = "reconcile", !.i = 1, !.head = n]
    BY <1>4, <2>1 DEF Reconcile
  <2>3. engine' \in Calls /\ engine'.at = "canonical" /\ engine'.call = "reconcile" /\ engine'.i = 1
    BY <2>2, IdleIsCall DEF Calls, CallPoints
  <2>4. CallKnows'
    BY <2>3 DEF CallKnows
  <2> QED
    BY <1>1, <1>2, <2>3, <2>4, CallMoves DEF Reconcile
<1> QED
  BY <1>3, <1>4

\* The receipt of a mined transaction names a block that holds it.
LEMMA ReceiptOfMined ==
    ASSUME ChainType, NEW h, Mined(h)
    PROVE  /\ Receipt(h) \in Receipts
           /\ Receipt(h).block \in DOMAIN chain /\ Receipt(h).block # 0 /\ Receipt(h).id <= blocks
           /\ chain[Receipt(h).block].id = Receipt(h).id
           /\ chain[Receipt(h).block].tx = h
           /\ chain[Receipt(h).block].ok = Receipt(h).ok
<1> DEFINE b == CHOOSE b \in DOMAIN chain : chain[b].tx = h
<1>1. chain \in Seq(Blocks) /\ \A c \in DOMAIN chain : chain[c].id <= blocks
  BY DEF ChainType
<1>2. b \in DOMAIN chain /\ chain[b].tx = h
  BY DEF Mined, MinedIn
<1>3. chain[b] \in Blocks /\ b \in Nat /\ b # 0
  BY <1>1, <1>2
<1>4. Receipt(h) = [block |-> b, id |-> chain[b].id, ok |-> chain[b].ok]
  BY DEF Receipt
<1>5. chain[b].id \in Nat /\ chain[b].ok \in BOOLEAN
  BY <1>3 DEF Blocks
<1> HIDE DEF b
<1>6. Receipt(h) \in Receipts /\ Receipt(h).block = b /\ Receipt(h).id = chain[b].id /\ Receipt(h).ok = chain[b].ok
  BY <1>3, <1>4, <1>5 DEF Receipts
<1> QED
  BY <1>1, <1>2, <1>3, <1>6

LEMMA ReadReceiptKeeps == ASSUME EngineInv, ReadReceipt PROVE EngineInv'
<1> DEFINE i == CHOOSE j \in Unconfirmed : TRUE
<1> DEFINE h == CHOOSE g \in TransactionOf(rows[i]) : TRUE
<1> DEFINE ends == Unconfirmed = {} \/ rows[i].state \notin {"SIGNED", "BROADCAST_UNCERTAIN"} \/ TransactionOf(rows[i]) = {}
<1>1. left \in EngineBudget /\ lapsed \in BOOLEAN /\ rows \in Seq(Rows) /\ engine \in Calls
  BY DEF EngineInv, EngineType
<1>2. CASE ends
  <2>1. Return
    BY <1>2 DEF ReadReceipt
  <2> QED
    BY <1>1, <2>1, ReturnKnows, CallMoves DEF ReadReceipt
<1>3. CASE ~ends
  <2>1. i \in DOMAIN rows /\ rows[i].state \in {"SIGNED", "BROADCAST_UNCERTAIN"}
    BY <1>3 DEF Unconfirmed
  <2>2. h \in DOMAIN txs /\ txs[h].sig = rows[i].sig /\ Mined(h)
    BY <1>3 DEF TransactionOf
  <2>3. engine' = [engine EXCEPT !.at = "receipt", !.i = i, !.receipt = Receipt(h)]
    BY <1>3 DEF ReadReceipt
  <2> HIDE DEF i, h
  <2>4. /\ Receipt(h) \in Receipts
        /\ Receipt(h).block \in DOMAIN chain /\ Receipt(h).block # 0 /\ Receipt(h).id <= blocks
        /\ chain[Receipt(h).block].tx = h /\ chain[Receipt(h).block].ok = Receipt(h).ok
    BY <2>2, ReceiptOfMined DEF EngineInv
  <2>5. rows[i].sig # 0 /\ signatures[rows[i].sig].step = i /\ i \in Nat
    BY <1>1, <2>1 DEF EngineInv, RowsSigned
  <2>6. txs[h].step = i /\ h # 0
    <3>1. txs[h].step \in DOMAIN rows /\ rows[txs[h].step].sig = rows[i].sig
      BY <2>2 DEF EngineInv, SentNumbered
    <3>2. signatures[rows[i].sig].step = txs[h].step
      BY <2>5, <3>1 DEF EngineInv, RowsSigned
    <3>3. txs \in Seq(SignedTxs)
      BY DEF EngineInv, EngineType
    <3> QED
      BY <2>2, <2>5, <3>2, <3>3
  <2>7. PICK r \in Receipts : r = Receipt(h)
    BY <2>4
  <2>8. r \in MaybeReceipt
    BY DEF MaybeReceipt
  <2>9. engine' \in Calls /\ engine'.at = "receipt" /\ engine'.i = i /\ engine'.receipt = r
    BY <1>1, <2>3, <2>5, <2>7, <2>8 DEF Calls, CallPoints
  <2>10. ReceiptHolds'
    BY <2>1, <2>4, <2>5, <2>6, <2>7, <2>9 DEF ReceiptHolds, ReadReceipt, networkVars
  <2>11. CallKnows'
    BY <2>9, <2>10 DEF CallKnows
  <2> QED
    BY <1>1, <2>9, <2>11, CallMoves DEF ReadReceipt
<1> QED
  BY <1>2, <1>3

LEMMA AssessKeeps == ASSUME EngineInv, Assess PROVE EngineInv'
<1> DEFINE r == engine.receipt
<1>1. left \in EngineBudget /\ lapsed \in BOOLEAN /\ rows \in Seq(Rows) /\ engine \in Calls
  BY DEF EngineInv, EngineType
<1>2. ReceiptHolds
  BY DEF EngineInv, CallKnows, Assess, At
<1>3. engine.i \in DOMAIN rows /\ rows[engine.i].sig # 0 /\ r \in MaybeReceipt
  BY <1>2 DEF ReceiptHolds, MaybeReceipt
<1>4. CASE Return /\ rows' = rows
  BY <1>1, <1>4, ReturnKnows, CallMoves DEF Assess
<1>5. CASE SetState(engine.i, "REORGED", r) /\ Return
  BY <1>1, <1>3, <1>5, RowMoves DEF Assess, RowStates
<1>6. CASE SetState(engine.i, "REVERTED", r) /\ Return
  BY <1>1, <1>3, <1>6, RowMoves DEF Assess, RowStates
<1>7. CASE r.ok /\ rows' = rows /\ Goto("verify")
  <2>1. engine' \in Calls /\ engine'.at = "verify" /\ engine'.i = engine.i /\ engine'.receipt = r
    BY <1>1, <1>7 DEF Goto, Calls, CallPoints
  <2>2. ReceiptHolds'
    BY <1>2, <1>7, <2>1 DEF ReceiptHolds, Assess, networkVars
  <2>3. CallKnows'
    BY <1>7, <2>1, <2>2 DEF CallKnows
  <2> QED
    BY <1>1, <1>7, <2>1, <2>3, CallMoves DEF Assess
<1> QED
  BY <1>4, <1>5, <1>6, <1>7 DEF Assess

LEMMA VerifyKeeps == ASSUME EngineInv, Verify PROVE EngineInv'
<1> DEFINE r == engine.receipt
<1>1. left \in EngineBudget /\ lapsed \in BOOLEAN /\ rows \in Seq(Rows) /\ engine \in Calls /\ chain \in Seq(Blocks)
      /\ left.drops <= left.depth
  BY DEF EngineInv, EngineType, ChainType
<1>2. ReceiptHolds
  BY DEF EngineInv, CallKnows, Verify, At
<1>3. engine.i \in DOMAIN rows /\ rows[engine.i].sig # 0 /\ r \in MaybeReceipt
  BY <1>2 DEF ReceiptHolds, MaybeReceipt
<1>4. CASE engine' = [engine EXCEPT !.at = "confirm", !.head = Height] /\ UNCHANGED <<rows, left>>
  <2>1. PICK n \in Nat : n = Len(chain)
    BY <1>1
  <2>2. engine' = [engine EXCEPT !.at = "confirm", !.head = n]
    BY <1>4, <2>1 DEF Height
  <2>3. engine' \in Calls /\ engine'.at = "confirm" /\ engine'.i = engine.i /\ engine'.receipt = r /\ engine'.head = n
    BY <1>1, <2>2 DEF Calls, CallPoints
  <2>4. ReceiptHolds'
    BY <1>2, <1>4, <2>3 DEF ReceiptHolds, Verify, networkVars
  <2>5. left.depth <= Confirmations => n + left.drops <= n + Confirmations
    BY <1>1 DEF EngineBudget, Confirmations
  <2>6. CallKnows'
    BY <1>4, <2>1, <2>3, <2>4, <2>5 DEF EngineInv, CallKnows, Verify, At, networkVars
  <2> QED
    BY <1>1, <1>4, <2>3, <2>6, CallMoves DEF Verify
<1>5. CASE Spend("fails") /\ SetState(engine.i, "VERIFICATION_FAILED", r) /\ Return
  <2>1. left' \in EngineBudget /\ left'.drops = left.drops /\ left'.depth = left.depth
    BY <1>1, <1>5, SpendKeepsDepth
  <2> QED
    BY <1>1, <1>3, <1>5, <2>1, RowMoves DEF Verify, RowStates
<1> QED
  BY <1>4, <1>5 DEF Verify

LEMMA ConfirmKeeps == ASSUME EngineInv, Confirm PROVE EngineInv'
<1> DEFINE r == engine.receipt
<1>1. left \in EngineBudget /\ lapsed \in BOOLEAN /\ rows \in Seq(Rows) /\ engine \in Calls /\ chain \in Seq(Blocks)
  BY DEF EngineInv, EngineType, ChainType
<1>2. ReceiptHolds
  BY DEF EngineInv, CallKnows, Confirm, At
<1>3. engine.i \in DOMAIN rows /\ rows[engine.i].sig # 0 /\ r \in MaybeReceipt
  BY <1>2 DEF ReceiptHolds, MaybeReceipt
<1>4. CASE rows' = rows
  BY <1>1, <1>4, ReturnKnows, CallMoves DEF Confirm
<1>5. CASE SetState(engine.i, "REORGED", r)
  BY <1>1, <1>3, <1>5, RowMoves DEF Confirm, RowStates
<1>6. CASE OnChain(r) /\ engine.head >= r.block + Confirmations /\ SetState(engine.i, "CONFIRMED", r)
  <2>1. ASSUME left.depth <= Confirmations PROVE Embedded(engine.i, left.drops)
    <3>1. engine.head + left.drops <= Len(chain) + Confirmations
      BY <2>1 DEF EngineInv, CallKnows, Confirm, At
    <3>2. r.block \in Nat /\ r.block # 0 /\ engine.head \in Nat /\ left.drops \in Nat /\ r.ok \in BOOLEAN
      BY <1>1, <1>2 DEF ReceiptHolds, Receipts, Calls, EngineBudget
    <3>3. r.block <= Len(chain) /\ chain[r.block].id = r.id
      BY <1>6 DEF OnChain, Canonical, Height
    <3>4. chain[r.block].tx # 0 /\ chain[r.block].ok = r.ok /\ txs[chain[r.block].tx].step = engine.i
      BY <1>2, <3>3 DEF ReceiptHolds
    <3>5. r.block \in DOMAIN chain /\ r.block + left.drops <= Len(chain)
      BY <1>1, <1>6, <3>1, <3>2, <3>3 DEF Confirmations
    <3>6. txs[chain[r.block].tx].planned
      BY <1>1, <3>4, <3>5 DEF EngineInv, ChainType, EngineType, SentNumbered
    <3>7. chain[r.block].ok
      BY <3>4 DEF EngineInv, CallKnows, Confirm, At
    <3> QED
      BY <3>4, <3>5, <3>6, <3>7 DEF Embedded
  <2> QED
    BY <1>1, <1>3, <1>6, <2>1, RowMoves DEF Confirm, RowStates
<1> QED
  BY <1>4, <1>5, <1>6 DEF Confirm

LEMMA RequestErrorKeeps == ASSUME EngineInv, RequestError PROVE EngineInv'
<1>1. left \in EngineBudget /\ lapsed \in BOOLEAN
  BY DEF EngineInv, EngineType
<1>2. left' \in EngineBudget /\ left'.drops = left.drops /\ left'.depth = left.depth
  BY <1>1, SpendKeepsDepth DEF RequestError
<1> QED
  BY <1>1, <1>2, ReturnKnows, CallMoves DEF RequestError

LEMMA CrashKeeps == ASSUME EngineInv, Crash PROVE EngineInv'
<1>1. left \in EngineBudget /\ lapsed \in BOOLEAN
  BY DEF EngineInv, EngineType
<1>2. left' \in EngineBudget /\ left'.drops = left.drops /\ left'.depth = left.depth
  BY <1>1, SpendKeepsDepth DEF Crash
<1>3. CASE UNCHANGED <<txs, pool, signatures>>
  BY <1>1, <1>2, <1>3, ReturnKnows, CallMoves DEF Crash, networkVars
<1>4. CASE At("signing") /\ signatures' = Append(signatures, [step |-> engine.i, nonce |-> engine.nonce]) /\ UNCHANGED <<txs, pool>>
  <2>1. signatures' \in Seq(Signings) /\ SignaturesNumbered' /\ RowsSigned'
    BY <1>4, SignatureAdded DEF Crash
  <2>2. engine' \in Calls /\ CallKnows'
    BY ReturnKnows DEF Crash
  <2>3. ChainType' /\ EngineType' /\ SentNumbered'
    BY <1>2, <1>4, <2>1, <2>2 DEF EngineInv, ChainType, EngineType, SentNumbered, Crash
  <2>4. ConfirmedRowsSettled'
    BY <1>2, <1>4 DEF EngineInv, ConfirmedRowsSettled, Embedded, Crash
  <2> QED
    BY <2>1, <2>2, <2>3, <2>4 DEF EngineInv
<1>5. CASE At("send") /\ Broadcast([step |-> engine.i, nonce |-> engine.nonce, planned |-> TRUE, sig |-> engine.sig])
           /\ UNCHANGED signatures
  BY <1>2, <1>5, BroadcastKeeps DEF Crash
<1> QED
  BY <1>3, <1>4, <1>5 DEF Crash

LEMMA LapseKeeps == ASSUME EngineInv, Lapse PROVE EngineInv'
<1>1. left \in EngineBudget /\ engine \in Calls
  BY DEF EngineInv, EngineType
<1>2. left' \in EngineBudget /\ left'.drops = left.drops /\ left'.depth = left.depth
  BY <1>1, SpendKeepsDepth DEF Lapse
<1>3. CallKnows'
  BY <1>2 DEF EngineInv, CallKnows, Lapse, ReceiptHolds, Unsigned, AllConfirmed, networkVars
<1> QED
  BY <1>1, <1>2, <1>3, CallMoves DEF Lapse

----------------------------------------------------------------------------
(* The network, under both tools *)

\* A new block is on top of the others, and its id was never used.
LEMMA MineGrows ==
    ASSUME ChainType, Mine
    PROVE  /\ ChainType' /\ txs' = txs
           /\ \E n \in Nat : /\ DOMAIN chain = 1..n /\ Len(chain) = n /\ DOMAIN chain' = 1..(n + 1) /\ Len(chain') = n + 1
                             /\ \A b \in 1..n : chain'[b] = chain[b]
                             /\ chain'[n + 1].id = blocks + 1
           /\ blocks \in Nat /\ blocks' = blocks + 1
<1>1. chain \in Seq(Blocks) /\ blocks \in Nat /\ pool \subseteq DOMAIN txs
  BY DEF ChainType
<1>2. PICK n \in Nat : n = Len(chain)
  BY <1>1
<1>3. PICK new \in Blocks : chain' = Append(chain, new) /\ new.id = blocks + 1 /\ new.tx \in 0..Len(txs) /\ pool' \subseteq pool
  <2>1. PICK m \in Nat : m = blocks + 1
    BY <1>1
  <2>2. ASSUME NEW h \in pool, NEW ok \in BOOLEAN,
               chain' = Append(chain, [id |-> blocks + 1, tx |-> h, ok |-> ok]),
               pool' = {g \in pool : txs[g].nonce # txs[h].nonce}
        PROVE  \E new \in Blocks : chain' = Append(chain, new) /\ new.id = blocks + 1 /\ new.tx \in 0..Len(txs) /\ pool' \subseteq pool
    <3>1. h \in DOMAIN txs
      BY <1>1
    <3>2. h \in Nat /\ h \in 0..Len(txs)
      BY <3>1 DEF ChainType
    <3>3. PICK new : new = [id |-> m, tx |-> h, ok |-> ok]
      OBVIOUS
    <3>4. new \in Blocks /\ new.id = m /\ new.tx = h
      BY <3>2, <3>3 DEF Blocks
    <3>5. chain' = Append(chain, new)
      BY <2>1, <2>2, <3>3
    <3> QED
      BY <2>1, <2>2, <3>2, <3>4, <3>5
  <2>3. ASSUME chain' = Append(chain, [id |-> blocks + 1, tx |-> 0, ok |-> TRUE]), pool' = pool
        PROVE  \E new \in Blocks : chain' = Append(chain, new) /\ new.id = blocks + 1 /\ new.tx \in 0..Len(txs) /\ pool' \subseteq pool
    <3>3. PICK new : new = [id |-> m, tx |-> 0, ok |-> TRUE]
      OBVIOUS
    <3>4. new \in Blocks /\ new.id = m /\ new.tx = 0
      BY <3>3 DEF Blocks
    <3>5. chain' = Append(chain, new)
      BY <2>1, <2>3, <3>3
    <3>6. 0 \in 0..Len(txs)
      BY DEF ChainType
    <3> QED
      BY <2>1, <2>3, <3>4, <3>5, <3>6
  <2> QED
    BY <2>2, <2>3 DEF Mine
<1>4. /\ chain' \in Seq(Blocks) /\ DOMAIN chain = 1..n /\ DOMAIN chain' = 1..(n + 1) /\ Len(chain') = n + 1
      /\ \A b \in 1..n : chain'[b] = chain[b]
      /\ chain'[n + 1] = new
  BY <1>1, <1>2, <1>3
<1>5. txs' = txs /\ blocks' = blocks + 1
  BY DEF Mine
<1>6. \A b \in DOMAIN chain' : chain'[b].tx \in 0..Len(txs') /\ chain'[b].id <= blocks'
  <2>1. ASSUME NEW b \in 1..n PROVE chain'[b].tx \in 0..Len(txs') /\ chain'[b].id <= blocks'
    <3>1. b \in DOMAIN chain /\ chain'[b] = chain[b]
      BY <1>4
    <3>2. chain[b].tx \in 0..Len(txs) /\ chain[b].id <= blocks
      BY <3>1 DEF ChainType
    <3>3. chain[b] \in Blocks
      BY <1>1, <3>1
    <3>4. chain[b].id \in Nat
      BY <3>3 DEF Blocks
    <3>5. chain[b].id <= blocks + 1
      BY <1>1, <3>2, <3>4
    <3> QED
      BY <1>5, <3>1, <3>2, <3>5
  <2>2. chain'[n + 1].tx \in 0..Len(txs') /\ chain'[n + 1].id <= blocks'
    BY <1>1, <1>3, <1>4, <1>5
  <2> QED
    BY <1>4, <2>1, <2>2
<1>7. ChainType'
  BY <1>1, <1>3, <1>4, <1>5, <1>6 DEF ChainType
<1> QED
  BY <1>1, <1>2, <1>3, <1>4, <1>5, <1>7

\* The tip goes; what is below it stays.
LEMMA DropShrinks ==
    ASSUME ChainType, DropTip
    PROVE  /\ ChainType' /\ txs' = txs /\ blocks' = blocks
           /\ \E n \in Nat : /\ DOMAIN chain = 1..(n + 1) /\ Len(chain) = n + 1 /\ DOMAIN chain' = 1..n /\ Len(chain') = n
                             /\ \A b \in 1..n : chain'[b] = chain[b]
<1>1. chain \in Seq(Blocks) /\ blocks \in Nat /\ pool \subseteq DOMAIN txs
  BY DEF ChainType
<1>2. chain # << >> /\ chain' = SubSeq(chain, 1, Len(chain) - 1)
  BY DEF DropTip, Height
<1>3. PICK n \in Nat : Len(chain) = n + 1
  BY <1>1, <1>2
<1>4. /\ chain' \in Seq(Blocks) /\ DOMAIN chain = 1..(n + 1) /\ DOMAIN chain' = 1..n /\ Len(chain') = n
      /\ \A b \in 1..n : chain'[b] = chain[b]
  <2>1. chain' = SubSeq(chain, 1, n)
    BY <1>2, <1>3
  <2> QED
    BY <1>1, <1>3, <2>1
<1>5. txs' = txs /\ blocks' = blocks
  BY DEF DropTip
<1>6. pool' \subseteq DOMAIN txs'
  <2>1. n + 1 \in DOMAIN chain /\ chain[n + 1].tx \in 0..Len(txs)
    BY <1>4 DEF ChainType
  <2>2. chain[n + 1].tx # 0 => chain[n + 1].tx \in DOMAIN txs
    BY <2>1 DEF ChainType
  <2> QED
    BY <1>1, <1>3, <1>5, <2>2 DEF DropTip, Height
<1>7. \A b \in DOMAIN chain' : chain'[b].tx \in 0..Len(txs') /\ chain'[b].id <= blocks'
  BY <1>4, <1>5 DEF ChainType
<1> QED
  BY <1>1, <1>3, <1>4, <1>5, <1>6, <1>7 DEF ChainType

LEMMA EngineNetworkKeeps == ASSUME EngineInv, EngineNetwork PROVE EngineInv'
<1>1. left \in EngineBudget /\ engine \in Calls /\ rows \in Seq(Rows) /\ left.drops <= left.depth
  BY DEF EngineInv, EngineType
<1>2. left.drops \in Nat /\ left.depth \in Nat /\ engine.head \in Nat
  BY <1>1 DEF EngineBudget, Calls
<1>3. CASE Mine /\ UNCHANGED left
  <2>1. /\ ChainType' /\ txs' = txs /\ blocks \in Nat /\ blocks' = blocks + 1
    BY <1>3, MineGrows DEF EngineInv
  <2>2. PICK n \in Nat : /\ DOMAIN chain = 1..n /\ Len(chain) = n /\ DOMAIN chain' = 1..(n + 1) /\ Len(chain') = n + 1
                         /\ \A b \in 1..n : chain'[b] = chain[b]
                         /\ chain'[n + 1].id = blocks + 1
    BY <1>3, MineGrows DEF EngineInv
  <2>3. EngineType' /\ SignaturesNumbered' /\ RowsSigned' /\ SentNumbered'
    BY <1>3, <2>1 DEF EngineInv, EngineType, SignaturesNumbered, RowsSigned, SentNumbered, EngineNetwork
  <2>4. ASSUME NEW i, Embedded(i, left.drops) PROVE Embedded(i, left.drops)'
    BY <1>2, <1>3, <2>1, <2>2, <2>4 DEF Embedded, EngineNetwork
  <2>5. ConfirmedRowsSettled'
    BY <1>3, <2>4 DEF EngineInv, ConfirmedRowsSettled, EngineNetwork
  <2>6. ASSUME ReceiptHolds PROVE ReceiptHolds'
    <3>1. engine.receipt.block \in Nat /\ engine.receipt.block # 0 /\ engine.receipt.id \in Nat /\ engine.receipt.id <= blocks
      BY <2>6 DEF ReceiptHolds, Receipts
    <3>2. ASSUME engine.receipt.block <= Len(chain'), chain'[engine.receipt.block].id = engine.receipt.id
          PROVE  engine.receipt.block \in 1..n
      BY <2>1, <2>2, <3>1, <3>2
    <3>3. engine.receipt.block \in 1..n => engine.receipt.block <= Len(chain) /\ chain'[engine.receipt.block] = chain[engine.receipt.block]
      BY <2>2
    <3>4. engine.receipt.id <= blocks + 1
      BY <2>1, <3>1
    <3> QED
      BY <2>1, <2>6, <3>2, <3>3, <3>4 DEF ReceiptHolds, EngineNetwork
  <2>7. Len(chain) + Confirmations <= Len(chain') + Confirmations
    BY <2>2 DEF Confirmations
  <2>8. engine.at = "confirm" /\ left.depth <= Confirmations => engine.head + left.drops <= Len(chain') + Confirmations
    BY <1>2, <2>2 DEF EngineInv, CallKnows, Confirmations
  <2>9. CallKnows'
    BY <1>3, <2>6, <2>8 DEF EngineInv, CallKnows, EngineNetwork, Unsigned, AllConfirmed
  <2> QED
    BY <2>1, <2>3, <2>5, <2>9 DEF EngineInv
<1>4. CASE DropTip /\ Spend("drops")
  <2>0. left' \in EngineBudget /\ left'.drops = left.drops - 1 /\ left'.depth = left.depth /\ left.drops > 0
    BY <1>1, <1>4 DEF Spend, EngineBudget
  <2>1. ChainType' /\ txs' = txs /\ blocks' = blocks
    BY <1>4, DropShrinks DEF EngineInv
  <2>2. PICK n \in Nat : /\ DOMAIN chain = 1..(n + 1) /\ Len(chain) = n + 1 /\ DOMAIN chain' = 1..n /\ Len(chain') = n
                         /\ \A b \in 1..n : chain'[b] = chain[b]
    BY <1>4, DropShrinks DEF EngineInv
  <2>3. left'.drops <= left'.depth
    BY <1>1, <1>2, <2>0
  <2>4. EngineType' /\ SignaturesNumbered' /\ RowsSigned' /\ SentNumbered'
    BY <2>0, <2>1, <2>3 DEF EngineInv, EngineType, SignaturesNumbered, RowsSigned, SentNumbered, EngineNetwork
  <2>5. ASSUME NEW i, Embedded(i, left.drops) PROVE Embedded(i, left.drops)'
    BY <1>2, <2>0, <2>1, <2>2, <2>5 DEF Embedded, EngineNetwork
  <2>6. ConfirmedRowsSettled'
    BY <2>0, <2>5 DEF EngineInv, ConfirmedRowsSettled, EngineNetwork
  <2>7. ASSUME ReceiptHolds PROVE ReceiptHolds'
    <3>1. engine.receipt.block \in Nat /\ engine.receipt.block # 0
      BY <2>7 DEF ReceiptHolds, Receipts
    <3>2. engine.receipt.block <= Len(chain') =>
            engine.receipt.block <= Len(chain) /\ chain'[engine.receipt.block] = chain[engine.receipt.block]
      BY <2>2, <3>1
    <3> QED
      BY <2>1, <2>7, <3>2 DEF ReceiptHolds, EngineNetwork
  <2>8. engine.at = "confirm" /\ left.depth <= Confirmations => engine.head + left'.drops <= Len(chain') + Confirmations
    BY <1>2, <2>0, <2>2 DEF EngineInv, CallKnows, Confirmations
  <2>9. CallKnows'
    BY <2>0, <2>7, <2>8 DEF EngineInv, CallKnows, EngineNetwork, Unsigned, AllConfirmed
  <2> QED
    BY <2>1, <2>4, <2>6, <2>9 DEF EngineInv
<1> QED
  BY <1>3, <1>4 DEF EngineNetwork

LEMMA EngineStarts == ASSUME EngineInit PROVE EngineInv
<1>1. left \in EngineBudget /\ left.drops <= left.depth
  BY EngineAssumption DEF EngineInit
<1>2. txs = << >> /\ chain = << >> /\ rows = << >> /\ signatures = << >> /\ pool = {} /\ blocks = 0 /\ lapsed = FALSE
  BY DEF EngineInit, NetworkInit
<1>3. engine \in Calls /\ engine.at = "idle"
  BY IdleIsCall DEF EngineInit
<1>4. /\ txs \in Seq(SignedTxs) /\ chain \in Seq(Blocks) /\ rows \in Seq(Rows) /\ signatures \in Seq(Signings)
      /\ DOMAIN txs = {} /\ DOMAIN chain = {} /\ DOMAIN rows = {} /\ DOMAIN signatures = {} /\ Len(txs) = 0
  BY <1>2
<1>5. ChainType /\ EngineType
  <2>1. 1..0 = {} /\ blocks \in Nat
    BY <1>2
  <2>2. lapsed \in BOOLEAN
    BY <1>2, Zenon
  <2> QED
    BY <1>1, <1>2, <1>3, <1>4, <2>1, <2>2 DEF ChainType, EngineType
<1>6. SignaturesNumbered /\ RowsSigned /\ SentNumbered /\ ConfirmedRowsSettled
  BY <1>4 DEF SignaturesNumbered, RowsSigned, SentNumbered, ConfirmedRowsSettled
<1>7. CallKnows
  BY <1>3 DEF CallKnows
<1> QED
  BY <1>5, <1>6, <1>7 DEF EngineInv

LEMMA EngineStep == ASSUME EngineInv, EngineNext PROVE EngineInv'
BY NextKeeps, CheckRowKeeps, PrepareKeeps, ReserveKeeps, SigningDeadlineKeeps, SignKeeps, RecordSignatureKeeps, ClaimKeeps,
   SendKeeps, ReconcileKeeps, ReadReceiptKeeps, AssessKeeps, VerifyKeeps, ConfirmKeeps, RequestErrorKeeps, CrashKeeps,
   LapseKeeps, EngineNetworkKeeps DEF EngineNext

\* Whatever adds a signature signs on settled steps only.
LEMMA SigningStep ==
    ASSUME EngineInv, EngineNext, left.depth <= Confirmations, Len(signatures') > Len(signatures)
    PROVE  DependenciesMined(signatures'[Len(signatures')].step)
<1>1. signatures \in Seq(Signings)
  BY DEF EngineInv, EngineType
<1>2. signatures' # signatures
  BY <1>1
<1>3. At("signing") /\ rows' = rows /\ signatures' = Append(signatures, [step |-> engine.i, nonce |-> engine.nonce])
  BY <1>2 DEF EngineNext, Next_, CheckRow, Prepare, Reserve, SigningDeadline, Sign, RecordSignature, Claim, Send,
              Reconcile, ReadReceipt, Assess, Verify, Confirm, RequestError, Crash, Lapse, EngineNetwork
<1> QED
  BY <1>3, SignatureAdded

LEMMA EngineImplies == ASSUME EngineInv PROVE SignedOnce /\ SentIsRecorded
<1>1. signatures \in Seq(Signings) /\ rows \in Seq(Rows)
  BY DEF EngineInv, EngineType
<1>2. ASSUME NEW p \in DOMAIN signatures, NEW q \in DOMAIN signatures,
             signatures[p].step = signatures[q].step \/ signatures[p].nonce = signatures[q].nonce
      PROVE  p = q
  <2>1. signatures[p] \in Signings /\ signatures[q] \in Signings
    BY <1>1
  <2>2. signatures[p].step \in Nat /\ signatures[q].step \in Nat
    BY <2>1 DEF Signings
  <2>3. signatures[p].nonce = signatures[p].step - 1 /\ signatures[q].nonce = signatures[q].step - 1
    BY DEF EngineInv, SignaturesNumbered
  <2>4. signatures[p].step = signatures[q].step
    BY <1>2, <2>2, <2>3
  <2> QED
    BY <2>4 DEF EngineInv, SignaturesNumbered
<1>3. SentIsRecorded
  BY DEF EngineInv, SentNumbered, RowsSigned, SentIsRecorded
<1> QED
  BY <1>2, <1>3 DEF SignedOnce

----------------------------------------------------------------------------
(* The page: what its operators give *)

LEMMA AffordKeepsDrops ==
    ASSUME NEW what \in {"clicks", "fails", "closes", "stops", "expiries", "foreign", "edits"},
           allowance \in PageBudget, Afford(what)
    PROVE  allowance' \in PageBudget /\ allowance'.drops = allowance.drops
BY DEF Afford, PageBudget

LEMMA IdleTabIsCall ==
    ASSUME NEW entries \in Seq(Entries)
    PROVE  /\ [IdleTab EXCEPT !.copy = entries] \in TabCalls
           /\ [IdleTab EXCEPT !.copy = entries].at = "idle"
<1>1. << >> \in Seq(Entries)
  OBVIOUS
<1>2. IdleTab \in TabCalls /\ IdleTab.at = "idle"
  BY <1>1 DEF IdleTab, TabCalls, TabPoints, Jobs
<1> QED
  BY <1>2 DEF TabCalls

LEMMA FreshTabIsTab ==
    ASSUME NEW entries \in Seq(Entries)
    PROVE  FreshTab(entries) \in TabStates /\ FreshTab(entries).call.at = "idle"
<1>1. PICK c \in TabCalls : c = [IdleTab EXCEPT !.copy = entries] /\ c.at = "idle"
  BY IdleTabIsCall
<1>2. FreshTab(entries) = [connected |-> FALSE, verified |-> FALSE, aborted |-> FALSE, call |-> c]
  BY <1>1 DEF FreshTab
<1>3. FreshTab(entries).call = c
  BY <1>2
<1>4. FreshTab(entries) \in TabStates
  BY <1>1, <1>2 DEF TabStates
<1> QED
  BY <1>1, <1>3, <1>4

\* A set of numbers has a least one.
LEMMA LeastNumber ==
    ASSUME NEW S \in SUBSET Nat, S # {}
    PROVE  \E n \in S : \A m \in S : n <= m
<1> DEFINE R == OpToRel(<, Nat)
<1>1. IsWellFoundedOn(R, Nat)
  BY NatLessThanWellFounded
<1>2. \A x, y \in Nat : x < y => <<x, y>> \in R
  BY DEF OpToRel
<1> HIDE DEF R
<1>3. \E x \in S : \A y \in S : ~(<<y, x>> \in R)
  BY <1>1, WFMin
<1>4. PICK n \in S : \A y \in S : ~(<<y, n>> \in R)
  BY <1>3
<1>5. ASSUME NEW m \in S PROVE n <= m
  <2>1. n \in Nat /\ m \in Nat /\ ~(<<m, n>> \in R)
    BY <1>4
  <2>2. ~(m < n)
    BY <1>2, <2>1
  <2> QED
    BY <2>1, <2>2
<1> QED
  BY <1>5

\* When the next index is behind the last entry, every entry is confirmed.
LEMMA NextIndexBehind ==
    ASSUME NEW entries \in Seq(Entries), NextIndex(entries) > Len(entries)
    PROVE  \A i \in DOMAIN entries : entries[i].state = "CONFIRMED"
<1> DEFINE Open == {i \in DOMAIN entries : entries[i].state # "CONFIRMED"}
<1>1. ASSUME Open # {} PROVE FALSE
  <2>1. Open \subseteq Nat /\ Len(entries) \in Nat /\ DOMAIN entries = 1..Len(entries)
    OBVIOUS
  <2>2. PICK n \in Open : \A m \in Open : n <= m
    BY <1>1, <2>1, LeastNumber
  <2>3. n \in DOMAIN entries /\ entries[n].state # "CONFIRMED" /\ \A j \in 1..(n - 1) : entries[j].state = "CONFIRMED"
    BY <2>1, <2>2
  <2>4. NextIndex(entries) = CHOOSE i \in DOMAIN entries :
                                entries[i].state # "CONFIRMED" /\ \A j \in 1..(i - 1) : entries[j].state = "CONFIRMED"
    BY <2>3 DEF NextIndex
  <2>5. NextIndex(entries) \in DOMAIN entries
    BY <2>3, <2>4
  <2> QED
    BY <2>1, <2>5
<1> QED
  BY <1>1

LEMMA PendingIsNumber == ASSUME DOMAIN txs = 1..Len(txs), Len(txs) \in Nat PROVE PendingNonce \in Nat
<1> DEFINE H == {g \in DOMAIN txs : Mined(g) \/ g \in pool}
<1>1. IsFiniteSet(DOMAIN txs)
  BY FS_Interval
<1>2. IsFiniteSet(H)
  BY <1>1, FS_Subset
<1>3. IsFiniteSet({txs[h].nonce : h \in H})
  <2> DEFINE f == [h \in H |-> txs[h].nonce]
  <2>1. f \in Surjection(H, {txs[h].nonce : h \in H})
    BY DEF Surjection
  <2> HIDE DEF f, H
  <2> QED
    BY <1>2, <2>1, FS_Surjection
<1> QED
  BY <1>3, FS_CardinalityType DEF PendingNonce

\* What an observation makes of an entry is an entry, and confirmed only if its step is settled.
LEMMA ObservedIsSettled ==
    ASSUME PageInv, NEW entry \in Entries, NEW i \in Nat, Matches(entry.hash, i)
    PROVE  /\ Observed(entry, i) \in Entries
           /\ Shallow /\ Observed(entry, i).state = "CONFIRMED" => Embedded(i, allowance.drops)
<1> DEFINE h == entry.hash
<1> DEFINE r == Receipt(h)
<1>1. ChainType /\ txs \in Seq(SentTxs) /\ allowance \in PageBudget /\ (Shallow => allowance.drops <= Confirmations)
  BY DEF PageInv, PageType
<1>2. h \in Nat
  BY DEF Entries
<1>3. CASE h = 0 \/ h \notin (pool \cup {g \in DOMAIN txs : Mined(g)})
  <2>1. Observed(entry, i) = [entry EXCEPT !.state = "UNKNOWN"]
    BY <1>3 DEF Observed
  <2> QED
    BY <2>1 DEF Entries
<1>4. CASE h # 0 /\ h \in pool
  <2>1. Observed(entry, i) = [entry EXCEPT !.state = "SUBMITTED"]
    BY <1>4 DEF Observed
  <2> QED
    BY <2>1 DEF Entries
<1>5. CASE h # 0 /\ h \notin pool /\ h \in DOMAIN txs /\ Mined(h)
  <2>1. /\ r \in Receipts /\ r.block \in DOMAIN chain
        /\ chain[r.block].tx = h /\ chain[r.block].ok = r.ok
    BY <1>1, <1>5, ReceiptOfMined
  <2>2. CASE ~r.ok
    <3>1. Observed(entry, i) = [entry EXCEPT !.state = "REVERTED"]
      BY <1>5, <2>2 DEF Observed
    <3> QED
      BY <3>1 DEF Entries
  <2>3. CASE r.ok
    <3>1. Observed(entry, i) = [state |-> IF Confirmed(r) THEN "CONFIRMED" ELSE "INCLUDED", hash |-> h, receipt |-> r]
      BY <1>5, <2>3 DEF Observed
    <3> HIDE DEF r, h
    <3>2. r \in MaybeReceipt
      BY <2>1 DEF MaybeReceipt
    <3>3. Observed(entry, i) \in Entries
      BY <1>2, <3>1, <3>2 DEF Entries
    <3>4. ASSUME Shallow, Observed(entry, i).state = "CONFIRMED" PROVE Embedded(i, allowance.drops)
      <4>1. Confirmed(r)
        BY <3>1, <3>4
      <4>2. txs[h].step = i /\ txs[h].planned
        BY <1>5 DEF Matches, h
      <4>3. chain \in Seq(Blocks)
        BY <1>1 DEF ChainType
      <4>4. Len(chain) \in Nat /\ r.block \in Nat /\ allowance.drops \in Nat
        BY <1>1, <2>1, <4>3 DEF PageBudget
      <4>5. r.block + allowance.drops <= Len(chain)
        BY <1>1, <3>4, <4>1, <4>4 DEF Confirmed, Height, Confirmations
      <4>6. chain[r.block].ok
        BY <2>1, <2>3
      <4> QED
        BY <1>5, <2>1, <4>2, <4>5, <4>6 DEF Embedded
    <3> QED
      BY <3>3, <3>4
  <2> QED
    BY <2>2, <2>3
<1> QED
  BY <1>3, <1>4, <1>5

----------------------------------------------------------------------------
(* The page: its steps *)

LEMMA OthersIdle ==
    ASSUME PageInv, NEW t \in Tabs, tabs[t].call.at # "idle" \/ lock = Nil
    PROVE  \A u \in Tabs \ {t} : tabs[u].call.at = "idle"
BY PageAssumption DEF PageInv, OnlyHolderWorks

LEMMA HolderHoldsLock == ASSUME PageInv, NEW t \in Tabs, tabs[t].call.at # "idle" PROVE lock = t
BY DEF PageInv, OnlyHolderWorks

LEMMA TabTyped ==
    ASSUME PageInv, NEW t \in Tabs
    PROVE  tabs[t] \in TabStates /\ tabs[t].call \in TabCalls /\ tabs[t].call.copy \in Seq(Entries) /\ TabKnows(tabs[t])
<1>1. tabs[t] \in TabStates /\ TabKnows(tabs[t])
  BY DEF PageInv, PageType
<1>2. tabs[t].call \in TabCalls
  BY <1>1 DEF TabStates
<1> QED
  BY <1>1, <1>2 DEF TabCalls

\* A step of one tab while the others are idle.
LEMMA HolderMoves ==
    ASSUME PageInv, UNCHANGED networkVars,
           allowance' \in PageBudget, allowance'.drops = allowance.drops,
           NEW t \in Tabs, NEW x \in TabStates, tabs' = [tabs EXCEPT ![t] = x],
           \A u \in Tabs \ {t} : tabs[u].call.at = "idle",
           x.call.at = "idle" \/ lock' = t,
           journal' \in Seq(Entries), EntriesSettled(journal)',
           prompts' \in Seq(Prompts), PromptsJournalled', TabKnows(x)'
    PROVE  PageInv'
<1>1. tabs \in [Tabs -> TabStates]
  BY DEF PageInv, PageType
<1>2. tabs' \in [Tabs -> TabStates] /\ tabs'[t] = x /\ \A u \in Tabs \ {t} : tabs'[u] = tabs[u]
  BY <1>1
<1>3. ChainType' /\ PageType'
  BY <1>2 DEF PageInv, ChainType, PageType, networkVars
<1>4. OnlyHolderWorks'
  BY <1>2 DEF OnlyHolderWorks
<1>5. ASSUME NEW u \in Tabs PROVE TabKnows(tabs[u])'
  <2>1. CASE u = t
    BY <1>2, <2>1 DEF TabKnows, EntriesSettled, Embedded, JournalConfirmed
  <2>2. CASE u # t
    <3>1. tabs'[u].call.at = "idle"
      BY <1>2, <2>2
    <3> QED
      BY <3>1 DEF TabKnows
  <2> QED
    BY <2>1, <2>2
<1> QED
  BY <1>3, <1>4, <1>5 DEF PageInv

\* One that leaves journal and prompts alone.
LEMMA HolderWalks ==
    ASSUME PageInv, UNCHANGED <<networkVars, journal, prompts>>,
           allowance' \in PageBudget, allowance'.drops = allowance.drops,
           NEW t \in Tabs, NEW x \in TabStates, tabs' = [tabs EXCEPT ![t] = x],
           \A u \in Tabs \ {t} : tabs[u].call.at = "idle",
           x.call.at = "idle" \/ lock' = t, TabKnows(x)
    PROVE  PageInv'
<1>1. journal' \in Seq(Entries) /\ prompts' \in Seq(Prompts)
  BY DEF PageInv, PageType
<1>2. EntriesSettled(journal)'
  BY DEF PageInv, EntriesSettled, Embedded, networkVars
<1>3. PromptsJournalled'
  BY DEF PageInv, PromptsJournalled, StepPromptedOnce
<1>4. TabKnows(x)'
  BY DEF TabKnows, EntriesSettled, Embedded, JournalConfirmed, networkVars
<1> QED
  BY <1>1, <1>2, <1>3, <1>4, HolderMoves

\* An action that ends leaves an idle tab.
LEMMA LeaveIsIdle ==
    ASSUME PageInv, NEW t \in Tabs, NEW good \in BOOLEAN, Leave(t, good), journal' \in Seq(Entries)
    PROVE  \E x \in TabStates : tabs' = [tabs EXCEPT ![t] = x] /\ x.call.at = "idle"
<1>1. tabs[t] \in TabStates /\ tabs \in [Tabs -> TabStates]
  BY DEF PageInv, PageType
<1>2. PICK c \in TabCalls : c = [IdleTab EXCEPT !.copy = journal'] /\ c.at = "idle"
  BY IdleTabIsCall
<1>3. PICK x : x = [tabs[t] EXCEPT !.call = c, !.verified = good, !.aborted = FALSE]
  OBVIOUS
<1>4. x \in TabStates /\ x.call = c
  BY <1>1, <1>3 DEF TabStates
<1>5. tabs' = [tabs EXCEPT ![t] = x]
  BY <1>1, <1>2, <1>3 DEF Leave
<1> QED
  BY <1>2, <1>4, <1>5

LEMMA FailedKeeps ==
    ASSUME PageInv, NEW t \in Tabs, tabs[t].call.at # "idle", Failed(t),
           allowance' \in PageBudget, allowance'.drops = allowance.drops
    PROVE  PageInv'
<1>1. journal' \in Seq(Entries)
  BY DEF PageInv, PageType, Failed
<1>2. PICK x \in TabStates : tabs' = [tabs EXCEPT ![t] = x] /\ x.call.at = "idle"
  BY <1>1, LeaveIsIdle DEF Failed
<1>3. TabKnows(x)
  BY <1>2 DEF TabKnows
<1> QED
  BY <1>2, <1>3, OthersIdle, HolderWalks DEF Failed

\* A step of a tab at work that only changes its call.
LEMMA CallWalks ==
    ASSUME PageInv, UNCHANGED <<networkVars, journal, prompts, lock, allowance>>,
           NEW t \in Tabs, tabs[t].call.at # "idle",
           NEW connected \in BOOLEAN, NEW c \in TabCalls,
           tabs' = [tabs EXCEPT ![t].connected = connected, ![t].call = c],
           TabKnows([call |-> c])
    PROVE  PageInv'
<1>1. tabs[t] \in TabStates /\ tabs \in [Tabs -> TabStates] /\ allowance \in PageBudget
  BY DEF PageInv, PageType
<1>2. PICK x : x = [tabs[t] EXCEPT !.connected = connected, !.call = c]
  OBVIOUS
<1>3. x \in TabStates /\ x.call = c
  BY <1>1, <1>2 DEF TabStates
<1>4. tabs' = [tabs EXCEPT ![t] = x]
  BY <1>1, <1>2
<1>5. TabKnows(x)
  BY <1>3 DEF TabKnows
<1> QED
  BY <1>1, <1>3, <1>4, <1>5, OthersIdle, HolderHoldsLock, HolderWalks

\* A step that changes flags of tabs, not their calls.
LEMMA CallsKept ==
    ASSUME PageInv, UNCHANGED <<networkVars, journal, prompts, lock>>,
           allowance' \in PageBudget, allowance'.drops = allowance.drops,
           tabs' \in [Tabs -> TabStates], \A u \in Tabs : tabs'[u].call = tabs[u].call
    PROVE  PageInv'
<1>1. ChainType' /\ PageType'
  BY DEF PageInv, ChainType, PageType, networkVars
<1>2. OnlyHolderWorks' /\ PromptsJournalled'
  BY DEF PageInv, OnlyHolderWorks, PromptsJournalled, StepPromptedOnce
<1>3. EntriesSettled(journal)'
  BY DEF PageInv, EntriesSettled, Embedded, networkVars
<1>4. ASSUME NEW u \in Tabs PROVE TabKnows(tabs[u])'
  <2>1. TabKnows(tabs[u])
    BY DEF PageInv
  <2> QED
    BY <2>1 DEF TabKnows, EntriesSettled, Embedded, JournalConfirmed, networkVars
<1> QED
  BY <1>1, <1>2, <1>3, <1>4 DEF PageInv

LEMMA ClickKeeps == ASSUME PageInv, NEW t \in Tabs, NEW job \in Jobs, Click(t, job) PROVE PageInv'
<1>1. tabs[t] \in TabStates /\ tabs \in [Tabs -> TabStates] /\ allowance \in PageBudget /\ journal \in Seq(Entries)
  BY DEF PageInv, PageType
<1>2. allowance' \in PageBudget /\ allowance'.drops = allowance.drops
  BY <1>1, AffordKeepsDrops DEF Click
<1>3. CASE lock = Nil /\ ~(job = "continue" /\ expired)
  <2>1. PICK at \in {"connect", "lookup", "observe"} :
            at = IF job = "connect" THEN "connect" ELSE IF job = "recover" THEN "lookup" ELSE "observe"
    OBVIOUS
  <2>2. PICK then \in {"end", "send", "continue"} : then = IF job \in {"send", "continue"} THEN job ELSE "end"
    OBVIOUS
  <2>3. PICK c : c = [IdleTab EXCEPT !.job = job, !.copy = journal, !.at = at, !.i = 1, !.then = then]
    OBVIOUS
  <2>4. [IdleTab EXCEPT !.copy = journal] \in TabCalls
    BY <1>1, IdleTabIsCall
  <2>5. c \in TabCalls /\ c.at = at /\ c.copy = journal /\ c.i = 1
    <3>1. PICK d \in TabCalls : d = [IdleTab EXCEPT !.copy = journal]
      BY <2>4
    <3>2. PICK e : e = [d EXCEPT !.at = at, !.i = 1]
      OBVIOUS
    <3>3. e \in TabCalls /\ e.at = at /\ e.i = 1 /\ e.copy = journal
      <4>1. d.copy = journal
        BY <3>1 DEF IdleTab
      <4> QED
        BY <2>1, <3>1, <3>2, <4>1 DEF TabCalls, TabPoints
    <3>4. PICK f : f = [e EXCEPT !.job = job, !.then = then]
      OBVIOUS
    <3>5. f \in TabCalls /\ f.at = at /\ f.i = 1 /\ f.copy = journal
      BY <1>1, <2>2, <3>3, <3>4 DEF TabCalls
    <3>6. c = f
      BY <2>3, <3>1, <3>2, <3>4 DEF IdleTab
    <3> QED
      BY <3>5, <3>6
  <2>6. PICK x : x = [tabs[t] EXCEPT !.verified = FALSE, !.aborted = FALSE, !.call = c]
    OBVIOUS
  <2>7. x \in TabStates /\ x.call = c
    BY <1>1, <2>5, <2>6 DEF TabStates
  <2>8. tabs' = [tabs EXCEPT ![t] = x] /\ lock' = t
    BY <1>1, <1>3, <2>1, <2>2, <2>3, <2>6 DEF Click
  <2>9. TabKnows(x)
    BY <2>5, <2>7 DEF TabKnows, PageInv
  <2> QED
    BY <1>2, <1>3, <2>7, <2>8, <2>9, OthersIdle, HolderWalks DEF Click
<1>4. CASE ~(lock = Nil /\ ~(job = "continue" /\ expired))
  <2>1. tabs' = [tabs EXCEPT ![t].verified = FALSE] /\ lock' = lock
    BY <1>4 DEF Click
  <2>2. tabs' \in [Tabs -> TabStates] /\ \A u \in Tabs : tabs'[u].call = tabs[u].call
    BY <1>1, <2>1 DEF TabStates
  <2> QED
    BY <1>2, <2>1, <2>2, CallsKept DEF Click
<1> QED
  BY <1>3, <1>4

LEMMA ConnectKeeps == ASSUME PageInv, NEW t \in Tabs, Connect(t) PROVE PageInv'
<1>1. tabs[t] \in TabStates /\ tabs[t].call \in TabCalls /\ TabKnows(tabs[t]) /\ tabs \in [Tabs -> TabStates]
  BY TabTyped DEF PageInv, PageType
<1>2. PICK c : c = [tabs[t].call EXCEPT !.at = "observe"]
  OBVIOUS
<1>3. c \in TabCalls /\ c.at = "observe" /\ c.copy = tabs[t].call.copy /\ c.i = tabs[t].call.i
  BY <1>1, <1>2 DEF TabCalls, TabPoints
<1>4. tabs[t].call.at = "connect"
  BY DEF Connect, In
<1>5. TabKnows([call |-> c])
  BY <1>1, <1>3, <1>4 DEF TabKnows
<1>6. tabs' = [tabs EXCEPT ![t].connected = TRUE, ![t].call = c]
  BY <1>1, <1>2 DEF Connect
<1> QED
  BY <1>3, <1>4, <1>5, <1>6, CallWalks DEF Connect

\* A call that changes and leaves the page's flags alone.
LEMMA CallOnly ==
    ASSUME PageInv, UNCHANGED <<networkVars, journal, prompts, lock, allowance>>,
           NEW t \in Tabs, tabs[t].call.at # "idle", NEW c \in TabCalls,
           tabs' = [tabs EXCEPT ![t].call = c], TabKnows([call |-> c])
    PROVE  PageInv'
<1>1. tabs[t] \in TabStates /\ tabs \in [Tabs -> TabStates]
  BY DEF PageInv, PageType
<1>2. PICK b \in BOOLEAN : b = tabs[t].connected
  BY <1>1 DEF TabStates
<1>3. [tabs[t] EXCEPT !.connected = b, !.call = c] = [tabs[t] EXCEPT !.call = c]
  BY <1>1, <1>2 DEF TabStates
<1>4. tabs' = [tabs EXCEPT ![t].connected = b, ![t].call = c]
  BY <1>1, <1>3, Zenon
<1> QED
  BY <1>4, CallWalks

LEMMA ObserveFrame ==
    ASSUME NEW t \in Tabs, Observe(t)
    PROVE  /\ tabs[t].call.at = "observe" /\ tabs[t].call.i <= Len(tabs[t].call.copy)
           /\ Matches(tabs[t].call.copy[tabs[t].call.i].hash, tabs[t].call.i)
           /\ UNCHANGED <<networkVars, journal, lock, prompts, exported, allowance>>
<1>1. In(t, "observe") /\ tabs[t].call.i <= Len(tabs[t].call.copy)
  BY Zenon DEF Observe
<1>2. Matches(tabs[t].call.copy[tabs[t].call.i].hash, tabs[t].call.i)
  BY Zenon DEF Observe
<1>3. UNCHANGED <<networkVars, journal, lock, prompts, expired, identity, exported, allowance>>
  BY Zenon DEF Observe
<1> QED
  BY <1>1, <1>2, <1>3 DEF In

LEMMA ObserveKeeps == ASSUME PageInv, NEW t \in Tabs, Observe(t) PROVE PageInv'
<1> DEFINE call == tabs[t].call
<1> DEFINE i == tabs[t].call.i
<1> DEFINE copy == tabs[t].call.copy
<1>1. tabs[t] \in TabStates /\ call \in TabCalls /\ call.copy \in Seq(Entries) /\ TabKnows(tabs[t]) /\ tabs \in [Tabs -> TabStates]
  BY TabTyped DEF PageInv, PageType
<1>2. /\ call.at = "observe" /\ call.i <= Len(call.copy)
      /\ UNCHANGED <<networkVars, journal, lock, prompts, allowance>>
  BY ObserveFrame
<1>3. i \in Nat /\ i = call.i /\ i # 0 /\ i <= Len(call.copy)
  BY <1>1, <1>2 DEF TabCalls, TabKnows
<1>4. copy \in Seq(Entries) /\ copy = call.copy
  BY <1>1
<1>5. i \in DOMAIN copy /\ copy[i] \in Entries /\ Len(copy) \in Nat /\ DOMAIN copy = 1..Len(copy)
  BY <1>3, <1>4
<1>6. Matches(copy[i].hash, i)
  BY ObserveFrame
<1>7. PICK new : /\ new = Observed(copy[i], i) \/ new = [copy[i] EXCEPT !.state = "REORGED"]
                 /\ tabs' = [tabs EXCEPT
                       ![t].call.copy = [j \in DOMAIN copy |-> IF j = i THEN new
                                            ELSE IF j > i /\ new.state # "CONFIRMED" THEN [copy[j] EXCEPT !.state = "UNKNOWN"]
                                            ELSE copy[j]],
                       ![t].call.i = IF new.state = "CONFIRMED" THEN i + 1 ELSE Len(copy) + 1]
  <2>1. \E new \in {Observed(copy[i], i)} \cup
                   (IF copy[i].hash # 0 /\ copy[i].hash \in pool /\ blocks > Height THEN {[copy[i] EXCEPT !.state = "REORGED"]} ELSE {}) :
            tabs' = [tabs EXCEPT
                       ![t].call.copy = [j \in DOMAIN copy |-> IF j = i THEN new
                                            ELSE IF j > i /\ new.state # "CONFIRMED" THEN [copy[j] EXCEPT !.state = "UNKNOWN"]
                                            ELSE copy[j]],
                       ![t].call.i = IF new.state = "CONFIRMED" THEN i + 1 ELSE Len(copy) + 1]
    BY Zenon DEF Observe
  <2> QED
    BY <2>1, Zenon
<1> HIDE DEF i, copy
<1>8. new \in Entries /\ (Shallow /\ new.state = "CONFIRMED" => Embedded(i, allowance.drops))
  <2>1. CASE new = Observed(copy[i], i)
    BY <1>5, <1>6, <2>1, ObservedIsSettled
  <2>2. CASE new = [copy[i] EXCEPT !.state = "REORGED"]
    BY <1>5, <2>2 DEF Entries
  <2> QED
    BY <1>7, <2>1, <2>2
<1>9. PICK next : next = [j \in DOMAIN copy |-> IF j = i THEN new
                                          ELSE IF j > i /\ new.state # "CONFIRMED" THEN [copy[j] EXCEPT !.state = "UNKNOWN"]
                                          ELSE copy[j]]
  OBVIOUS
<1>10. \A j \in DOMAIN copy : copy[j] \in Entries /\ [copy[j] EXCEPT !.state = "UNKNOWN"] \in Entries
                              /\ [copy[j] EXCEPT !.state = "UNKNOWN"].state = "UNKNOWN"
  <2>1. ASSUME NEW j \in DOMAIN copy
        PROVE  /\ copy[j] \in Entries /\ [copy[j] EXCEPT !.state = "UNKNOWN"] \in Entries
               /\ [copy[j] EXCEPT !.state = "UNKNOWN"].state = "UNKNOWN"
    <3>1. copy[j] \in Entries
      BY <1>4
    <3> QED
      BY <3>1 DEF Entries
  <2> QED
    BY <2>1
<1>11. next \in Seq(Entries) /\ Len(next) = Len(copy) /\ DOMAIN next = DOMAIN copy
  BY <1>5, <1>8, <1>9, <1>10
<1>12. EntriesSettled(next)
  <2>1. EntriesSettled(copy)
    BY <1>1, <1>2, <1>4 DEF TabKnows
  <2>2. ASSUME Shallow, NEW j \in DOMAIN next, next[j].state = "CONFIRMED" PROVE Embedded(j, allowance.drops)
    <3>1. CASE j = i
      BY <1>8, <1>9, <1>11, <2>2, <3>1
    <3>2. CASE j # i
      <4>1. next[j] = copy[j]
        BY <1>9, <1>10, <1>11, <2>2, <3>2
      <4> QED
        BY <1>11, <2>1, <2>2, <4>1 DEF EntriesSettled
    <3> QED
      BY <3>1, <3>2
  <2> QED
    BY <2>2 DEF EntriesSettled
<1>13. PICK k \in Nat : k = (IF new.state = "CONFIRMED" THEN i + 1 ELSE Len(copy) + 1) /\ k # 0
  BY <1>5
<1>14. PICK c : c = [call EXCEPT !.copy = next, !.i = k]
  OBVIOUS
<1>15. c \in TabCalls /\ c.at = "observe" /\ c.copy = next /\ c.i = k
  BY <1>1, <1>2, <1>11, <1>13, <1>14 DEF TabCalls
<1>16. tabs' = [tabs EXCEPT ![t].call = c]
  BY <1>1, <1>7, <1>9, <1>13, <1>14 DEF TabStates
<1>17. TabKnows([call |-> c])
  BY <1>1, <1>2, <1>4, <1>11, <1>12, <1>13, <1>15 DEF TabKnows
<1> QED
  BY <1>2, <1>15, <1>16, <1>17, CallOnly

LEMMA ReconciledKeeps == ASSUME PageInv, NEW t \in Tabs, Reconciled(t) PROVE PageInv'
<1> DEFINE call == tabs[t].call
<1>1. /\ tabs[t] \in TabStates /\ call \in TabCalls /\ call.copy \in Seq(Entries) /\ TabKnows(tabs[t])
      /\ tabs \in [Tabs -> TabStates] /\ journal \in Seq(Entries) /\ prompts \in Seq(Prompts) /\ allowance \in PageBudget
  BY TabTyped DEF PageInv, PageType
<1>2. call.at = "observe" /\ journal' = call.copy
  BY DEF Reconciled, In
<1>3. Len(call.copy) = Len(journal) /\ EntriesSettled(call.copy)
  BY <1>1, <1>2 DEF TabKnows
<1>4. PICK at \in {"done", "loop", "preflight", "guard"} :
         at = CASE call.then = "end" -> "done"
                [] call.then = "continue" -> "loop"
                [] call.then = "send" -> "preflight"
                [] OTHER -> "guard"
  OBVIOUS
<1>5. PICK x : x = [tabs[t] EXCEPT !.call.at = at]
  OBVIOUS
<1>6. x \in TabStates /\ x.call.at = at /\ x.call.copy = call.copy
  BY <1>1, <1>4, <1>5 DEF TabStates, TabCalls, TabPoints
<1>7. tabs' = [tabs EXCEPT ![t] = x]
  BY <1>1, <1>4, <1>5 DEF Reconciled, Move
<1>8. EntriesSettled(journal)'
  BY <1>2, <1>3 DEF EntriesSettled, Embedded, Reconciled, networkVars
<1>9. PromptsJournalled'
  BY <1>1, <1>2, <1>3 DEF PageInv, PromptsJournalled, StepPromptedOnce, Reconciled
<1>10. TabKnows(x)'
  BY <1>2, <1>4, <1>6, <1>8 DEF TabKnows, EntriesSettled
<1>11. lock' = t /\ \A u \in Tabs \ {t} : tabs[u].call.at = "idle"
  BY <1>2, OthersIdle, HolderHoldsLock DEF Reconciled
<1> QED
  BY <1>1, <1>2, <1>6, <1>7, <1>8, <1>9, <1>10, <1>11, HolderMoves DEF Reconciled

LEMMA PreflightKeeps == ASSUME PageInv, NEW t \in Tabs, Preflight(t) PROVE PageInv'
<1> DEFINE call == tabs[t].call
<1>1. tabs[t] \in TabStates /\ call \in TabCalls /\ TabKnows(tabs[t]) /\ tabs \in [Tabs -> TabStates]
  BY TabTyped DEF PageInv, PageType
<1>2. call.at = "preflight"
  BY DEF Preflight, In
<1>3. PICK c : c = [call EXCEPT !.at = "observe", !.i = 1, !.then = "guard"]
  OBVIOUS
<1>4. c \in TabCalls /\ c.at = "observe" /\ c.i = 1 /\ c.copy = call.copy
  BY <1>1, <1>3 DEF TabCalls, TabPoints
<1>5. tabs' = [tabs EXCEPT ![t].call = c]
  BY <1>1, <1>3 DEF Preflight, StartReconcile, TabStates
<1>6. TabKnows([call |-> c])
  BY <1>1, <1>2, <1>4 DEF TabKnows
<1> QED
  BY <1>2, <1>4, <1>5, <1>6, CallOnly DEF Preflight

LEMMA GuardKeeps == ASSUME PageInv, NEW t \in Tabs, Guard(t) PROVE PageInv'
<1> DEFINE call == tabs[t].call
<1>1. tabs[t] \in TabStates /\ call \in TabCalls /\ tabs \in [Tabs -> TabStates] /\ journal \in Seq(Entries)
  BY TabTyped DEF PageInv, PageType
<1>2. call.at = "guard" /\ NextIndex(journal) = Len(journal) + 1
  BY DEF Guard, In
<1>3. JournalConfirmed
  <2>1. NextIndex(journal) > Len(journal)
    BY <1>1, <1>2
  <2> QED
    BY <1>1, <2>1, NextIndexBehind DEF JournalConfirmed
<1>4. PICK c : c = [call EXCEPT !.at = "intent"]
  OBVIOUS
<1>5. c \in TabCalls /\ c.at = "intent"
  BY <1>1, <1>4 DEF TabCalls, TabPoints
<1>6. tabs' = [tabs EXCEPT ![t].call = c]
  BY <1>1, <1>4 DEF Guard, Move, TabStates
<1>7. TabKnows([call |-> c])
  BY <1>3, <1>5 DEF TabKnows
<1> QED
  BY <1>2, <1>5, <1>6, <1>7, CallOnly DEF Guard

\* An intent that is appended is not confirmed, and no prompt is lost from the journal's range.
LEMMA IntentAppended ==
    ASSUME PageInv, journal' = SavedIntent(journal), UNCHANGED networkVars, allowance' = allowance
    PROVE  /\ journal' \in Seq(Entries) /\ EntriesSettled(journal)'
           /\ DOMAIN journal \subseteq DOMAIN journal' /\ Len(journal) \in Nat
           /\ Len(journal) + 1 \in DOMAIN journal' /\ Len(journal) + 1 \notin DOMAIN journal
<1>1. journal \in Seq(Entries)
  BY DEF PageInv, PageType
<1>2. Nil \in MaybeReceipt
  BY DEF MaybeReceipt
<1>3. Intent \in Entries /\ Intent.state = "INTENT"
  BY <1>2 DEF Intent, Entries
<1>4. PICK n \in Nat : n = Len(journal)
  BY <1>1
<1>5. /\ journal' \in Seq(Entries) /\ DOMAIN journal' = 1..(n + 1) /\ DOMAIN journal = 1..n
      /\ \A i \in 1..n : journal'[i] = journal[i]
      /\ journal'[n + 1] = Intent
  BY <1>1, <1>3, <1>4 DEF SavedIntent
<1>6. EntriesSettled(journal)'
  BY <1>3, <1>5 DEF PageInv, EntriesSettled, Embedded, networkVars
<1> QED
  BY <1>4, <1>5, <1>6

LEMMA OpenPromptKeeps == ASSUME PageInv, NEW t \in Tabs, OpenPrompt(t) PROVE PageInv'
<1> DEFINE call == tabs[t].call
<1>1. /\ tabs[t] \in TabStates /\ call \in TabCalls /\ tabs \in [Tabs -> TabStates]
      /\ journal \in Seq(Entries) /\ prompts \in Seq(Prompts) /\ allowance \in PageBudget
  BY TabTyped DEF PageInv, PageType
<1>2. call.at = "intent" /\ journal' = SavedIntent(journal)
  BY DEF OpenPrompt, In
<1>3. /\ journal' \in Seq(Entries) /\ EntriesSettled(journal)'
      /\ DOMAIN journal \subseteq DOMAIN journal' /\ Len(journal) \in Nat
      /\ Len(journal) + 1 \in DOMAIN journal' /\ Len(journal) + 1 \notin DOMAIN journal
  BY <1>2, IntentAppended DEF OpenPrompt
<1>4. lock = t /\ \A u \in Tabs \ {t} : tabs[u].call.at = "idle"
  BY <1>2, OthersIdle, HolderHoldsLock
<1>5. CASE expired
  <2>1. Leave(t, FALSE) /\ prompts' = prompts
    BY <1>5 DEF OpenPrompt
  <2>2. PICK x \in TabStates : tabs' = [tabs EXCEPT ![t] = x] /\ x.call.at = "idle"
    BY <1>3, <2>1, LeaveIsIdle
  <2>3. TabKnows(x)'
    BY <2>2 DEF TabKnows
  <2>4. PromptsJournalled'
    BY <1>3, <2>1 DEF PageInv, PromptsJournalled, StepPromptedOnce
  <2> QED
    BY <1>1, <1>3, <1>4, <2>1, <2>2, <2>3, <2>4, HolderMoves DEF OpenPrompt
<1>6. CASE ~expired
  <2>1. PICK n \in Nat : n = Len(prompts)
    BY <1>1
  <2>2. PICK step \in Nat : step = Len(journal) + 1
    BY <1>3
  <2>3. prompts' = Append(prompts, [step |-> step, open |-> TRUE])
    BY <1>6, <2>2 DEF OpenPrompt
  <2>4. [step |-> step, open |-> TRUE] \in Prompts
    BY DEF Prompts
  <2>5. /\ prompts' \in Seq(Prompts) /\ DOMAIN prompts' = 1..(n + 1) /\ DOMAIN prompts = 1..n
        /\ \A p \in 1..n : prompts'[p] = prompts[p]
        /\ prompts'[n + 1] = [step |-> step, open |-> TRUE]
    BY <1>1, <2>1, <2>3, <2>4
  <2>6. prompts'[n + 1].step = step
    BY <2>5
  <2>7. \A p \in 1..n : prompts'[p].step \in DOMAIN journal
    BY <2>5 DEF PageInv, PromptsJournalled
  <2>8. \A p \in DOMAIN prompts' : prompts'[p].step \in DOMAIN journal'
    BY <1>3, <2>2, <2>5, <2>6, <2>7
  <2>9. StepPromptedOnce'
    <3>1. ASSUME NEW p \in DOMAIN prompts', NEW q \in DOMAIN prompts', prompts'[p].step = prompts'[q].step PROVE p = q
      <4>1. CASE p \in 1..n /\ q \in 1..n
        BY <2>5, <3>1, <4>1 DEF PageInv, PromptsJournalled, StepPromptedOnce
      <4>2. CASE p = n + 1 /\ q \in 1..n
        BY <1>3, <2>2, <2>6, <2>7, <3>1, <4>2
      <4>3. CASE p \in 1..n /\ q = n + 1
        BY <1>3, <2>2, <2>6, <2>7, <3>1, <4>3
      <4> QED
        BY <2>5, <4>1, <4>2, <4>3
    <3> QED
      BY <3>1 DEF StepPromptedOnce
  <2>10. PICK m \in Nat : m = n + 1
    OBVIOUS
  <2>11. PICK x : x = [tabs[t] EXCEPT !.call.at = "prompt", !.call.prompt = m]
    OBVIOUS
  <2>12. x \in TabStates /\ x.call.at = "prompt" /\ x.call.prompt = m
    BY <1>1, <2>11 DEF TabStates, TabCalls, TabPoints
  <2>13. tabs' = [tabs EXCEPT ![t] = x] /\ lock' = lock
    BY <1>1, <1>6, <2>1, <2>10, <2>11 DEF OpenPrompt
  <2>14. TabKnows(x)'
    BY <2>5, <2>10, <2>12 DEF TabKnows
  <2>15. PromptsJournalled'
    BY <2>8, <2>9 DEF PromptsJournalled
  <2> QED
    BY <1>1, <1>3, <1>4, <2>5, <2>12, <2>13, <2>14, <2>15, HolderMoves DEF OpenPrompt
<1> QED
  BY <1>5, <1>6

LEMMA AnsweredFrame ==
    ASSUME NEW t \in Tabs, Answered(t)
    PROVE  /\ tabs[t].call.at = "prompt"
           /\ networkVars' = networkVars /\ prompts' = prompts /\ allowance' = allowance
           /\ exported' = exported
<1>1. In(t, "prompt")
  BY Zenon DEF Answered
<1>2. UNCHANGED <<networkVars, prompts, expired, identity, exported, allowance>>
  BY Zenon DEF Answered
<1> QED
  BY <1>1, <1>2 DEF In

LEMMA AnsweredKeeps == ASSUME PageInv, NEW t \in Tabs, Answered(t) PROVE PageInv'
<1> DEFINE call == tabs[t].call
<1>1. /\ tabs[t] \in TabStates /\ call \in TabCalls /\ tabs \in [Tabs -> TabStates] /\ TabKnows(tabs[t])
      /\ journal \in Seq(Entries) /\ prompts \in Seq(Prompts) /\ allowance \in PageBudget
  BY TabTyped DEF PageInv, PageType
<1>2. /\ call.at = "prompt"
      /\ networkVars' = networkVars /\ prompts' = prompts /\ allowance' = allowance
  BY AnsweredFrame
<1>3. PICK i : i = prompts[call.prompt].step /\ i \in DOMAIN journal
  BY <1>1, <1>2 DEF TabKnows, PageInv, PromptsJournalled
<1>4. PICK h \in Nat : h = call.hash
  BY <1>1 DEF TabCalls
<1>5. lock = t /\ \A u \in Tabs \ {t} : tabs[u].call.at = "idle"
  BY <1>2, OthersIdle, HolderHoldsLock
<1>6. ASSUME NEW state \in {"UNKNOWN", "SUBMITTED"}, journal' = Stamp(i, state, h)
      PROVE  journal' \in Seq(Entries) /\ Len(journal') = Len(journal) /\ EntriesSettled(journal)' /\ PromptsJournalled'
  <2>1. journal[i] \in Entries
    BY <1>1, <1>3
  <2>2. PICK e : e = [journal[i] EXCEPT !.state = state, !.hash = h]
    OBVIOUS
  <2>3. e \in Entries /\ e.state = state
    BY <2>1, <2>2 DEF Entries
  <2>4. journal' = [journal EXCEPT ![i] = e]
    BY <1>1, <1>3, <1>6, <2>2 DEF Stamp
  <2>5. /\ journal' \in Seq(Entries) /\ Len(journal') = Len(journal) /\ DOMAIN journal' = DOMAIN journal
        /\ journal'[i] = e /\ \A j \in DOMAIN journal : j # i => journal'[j] = journal[j]
    BY <1>1, <1>3, <2>3, <2>4
  <2>6. EntriesSettled(journal)'
    BY <1>2, <2>3, <2>5 DEF PageInv, EntriesSettled, Embedded, networkVars
  <2>7. PromptsJournalled'
    BY <1>2, <2>5 DEF PageInv, PromptsJournalled, StepPromptedOnce
  <2> QED
    BY <2>5, <2>6, <2>7
<1>7. CASE h = 0
  <2>1. journal' = Stamp(i, "UNKNOWN", h) /\ Leave(t, FALSE)
    BY <1>3, <1>4, <1>7 DEF Answered
  <2>2. journal' \in Seq(Entries) /\ EntriesSettled(journal)' /\ PromptsJournalled'
    BY <1>6, <2>1
  <2>3. PICK x \in TabStates : tabs' = [tabs EXCEPT ![t] = x] /\ x.call.at = "idle"
    BY <2>1, <2>2, LeaveIsIdle, Zenon
  <2>4. TabKnows(x)'
    BY <2>3 DEF TabKnows
  <2> QED
    BY <1>1, <1>5, <2>2, <2>3, <2>4, HolderMoves DEF Answered
<1>8. CASE h # 0
  <2>1. journal' = Stamp(i, "SUBMITTED", h)
    BY <1>3, <1>4, <1>8, Zenon DEF Answered
  <2>2. journal' \in Seq(Entries) /\ EntriesSettled(journal)' /\ PromptsJournalled'
    BY <1>6, <2>1
  <2>3. PICK then \in {"continue", "end"} : then = IF Job(t) = "continue" THEN "continue" ELSE "end"
    OBVIOUS
  <2>4. PICK copy \in Seq(Entries) : copy = journal'
    BY <2>2
  <2>5. PICK c : c = [call EXCEPT !.at = "observe", !.i = 1, !.copy = copy, !.hash = 0, !.prompt = 0, !.then = then]
    OBVIOUS
  <2>6. c \in TabCalls /\ c.at = "observe" /\ c.i = 1 /\ c.copy = copy
    BY <1>1, <2>3, <2>5 DEF TabCalls, TabPoints
  <2>7. PICK x : x = [tabs[t] EXCEPT !.call = c]
    OBVIOUS
  <2>8. x \in TabStates /\ x.call = c
    BY <1>1, <2>6, <2>7 DEF TabStates
  <2>9. /\ tabs' = [tabs EXCEPT ![t].call.at = "observe", ![t].call.i = 1,
                             ![t].call.copy = copy, ![t].call.hash = 0, ![t].call.prompt = 0,
                             ![t].call.then = then]
        /\ lock' = lock
    BY <1>3, <1>4, <1>8, <2>1, <2>3, <2>4, Zenon DEF Answered
  <2>10. tabs' = [tabs EXCEPT ![t] = x]
    <3>1. DOMAIN tabs' = Tabs /\ \A u \in Tabs : u # t => tabs'[u] = tabs[u]
      BY <1>1, <2>9, Zenon
    <3>2. tabs'[t] = [tabs[t] EXCEPT !.call.at = "observe", !.call.i = 1, !.call.copy = copy, !.call.hash = 0,
                                     !.call.prompt = 0, !.call.then = then]
      BY <1>1, <2>9, Zenon
    <3>3. tabs'[t] = x
      BY <1>1, <2>5, <2>7, <3>2, Zenon DEF TabStates
    <3>4. PICK g : g = [tabs EXCEPT ![t] = x]
      OBVIOUS
    <3>5. DOMAIN g = Tabs /\ g[t] = x /\ \A u \in Tabs : u # t => g[u] = tabs[u]
      BY <1>1, <3>4
    <3>6. tabs' = [u \in DOMAIN tabs' |-> tabs'[u]]
      <4>1. PICK f : f = [tabs EXCEPT ![t].call.at = "observe", ![t].call.i = 1,
                             ![t].call.copy = copy, ![t].call.hash = 0, ![t].call.prompt = 0]
        BY Zenon
      <4>2. tabs' = [f EXCEPT ![t].call.then = then]
        BY <2>9, <4>1, Zenon
      <4> QED
        BY <4>2, Zenon
    <3>7. g = [u \in DOMAIN g |-> g[u]]
      BY <3>4, Zenon
    <3> QED
      BY <3>1, <3>3, <3>4, <3>5, <3>6, <3>7
  <2>11. TabKnows(x)'
    BY <2>2, <2>4, <2>6, <2>8 DEF TabKnows, EntriesSettled
  <2> QED
    BY <1>1, <1>2, <1>5, <2>2, <2>8, <2>9, <2>10, <2>11, HolderMoves
<1> QED
  BY <1>7, <1>8

LEMMA ContinueKeeps == ASSUME PageInv, NEW t \in Tabs, Continue(t) PROVE PageInv'
<1> DEFINE call == tabs[t].call
<1>1. /\ tabs[t] \in TabStates /\ call \in TabCalls /\ tabs \in [Tabs -> TabStates]
      /\ journal \in Seq(Entries) /\ EntriesSettled(journal)
  BY TabTyped DEF PageInv, PageType
<1>2. call.at = "loop"
  BY DEF Continue, In
<1>3. CASE tabs' = [tabs EXCEPT ![t].call.at = "done"]
  <2>1. PICK c : c = [call EXCEPT !.at = "done"]
    OBVIOUS
  <2>2. c \in TabCalls /\ c.at = "done"
    BY <1>1, <2>1 DEF TabCalls, TabPoints
  <2>3. tabs' = [tabs EXCEPT ![t].call = c]
    BY <1>1, <1>3, <2>1 DEF TabStates
  <2>4. TabKnows([call |-> c])
    BY <2>2 DEF TabKnows
  <2> QED
    BY <1>2, <2>2, <2>3, <2>4, CallOnly DEF Continue
<1>4. ASSUME NEW then \in {"continue", "send"},
             tabs' = [tabs EXCEPT ![t].call.at = "observe", ![t].call.i = 1, ![t].call.copy = journal, ![t].call.then = then]
      PROVE  PageInv'
  <2>1. PICK c : c = [call EXCEPT !.at = "observe", !.i = 1, !.copy = journal, !.then = then]
    OBVIOUS
  <2>2. c \in TabCalls /\ c.at = "observe" /\ c.i = 1 /\ c.copy = journal
    BY <1>1, <2>1 DEF TabCalls, TabPoints
  <2>3. tabs' = [tabs EXCEPT ![t].call = c]
    BY <1>1, <1>4, <2>1 DEF TabStates
  <2>4. TabKnows([call |-> c])
    BY <1>1, <2>2 DEF TabKnows
  <2> QED
    BY <1>2, <2>2, <2>3, <2>4, CallOnly DEF Continue
<1> QED
  BY <1>3, <1>4 DEF Continue, Move

LEMMA RecoverKeeps == ASSUME PageInv, NEW t \in Tabs, Recover(t) PROVE PageInv'
<1> DEFINE call == tabs[t].call
<1> DEFINE i == NextIndex(journal)
<1>1. /\ tabs[t] \in TabStates /\ call \in TabCalls /\ tabs \in [Tabs -> TabStates]
      /\ journal \in Seq(Entries) /\ prompts \in Seq(Prompts) /\ allowance \in PageBudget
  BY TabTyped DEF PageInv, PageType
<1>2. call.at = "lookup"
  BY DEF Recover, In
<1>3. PICK h \in DOMAIN txs :
         /\ Matches(h, i)
         /\ journal' = [journal EXCEPT ![i] = Observed([journal[i] EXCEPT !.hash = h], i)]
         /\ tabs' = [tabs EXCEPT ![t].call.at = "observe", ![t].call.i = 1, ![t].call.copy = journal', ![t].call.then = "end"]
  BY DEF Recover
<1>4. i \in DOMAIN journal /\ i \in Nat
  <2>1. i <= Len(journal)
    BY DEF Recover
  <2>2. CASE \E j \in DOMAIN journal : journal[j].state # "CONFIRMED"
    <3> DEFINE Open == {j \in DOMAIN journal : journal[j].state # "CONFIRMED"}
    <3>1. Open \subseteq Nat /\ Open # {} /\ DOMAIN journal = 1..Len(journal) /\ Len(journal) \in Nat
      BY <1>1, <2>2
    <3>2. PICK n \in Open : \A m \in Open : n <= m
      BY <3>1, LeastNumber
    <3>3. n \in DOMAIN journal /\ journal[n].state # "CONFIRMED" /\ \A j \in 1..(n - 1) : journal[j].state = "CONFIRMED"
      BY <3>1, <3>2
    <3>4. i = CHOOSE k \in DOMAIN journal :
                journal[k].state # "CONFIRMED" /\ \A j \in 1..(k - 1) : journal[j].state = "CONFIRMED"
      BY <3>3 DEF NextIndex
    <3>5. i \in DOMAIN journal
      BY <3>3, <3>4
    <3> QED
      BY <3>1, <3>5
  <2>3. CASE ~\E j \in DOMAIN journal : journal[j].state # "CONFIRMED"
    <3>1. i = Len(journal) + 1
      BY <2>3 DEF NextIndex
    <3> QED
      BY <1>1, <2>1, <3>1
  <2> QED
    BY <2>2, <2>3
<1> HIDE DEF i
<1>5. h \in Nat
  BY DEF PageInv, ChainType
<1>6. journal[i] \in Entries
  BY <1>1, <1>4
<1>7. PICK old : old = [journal[i] EXCEPT !.hash = h]
  OBVIOUS
<1>8. old \in Entries /\ old.hash = h
  BY <1>5, <1>6, <1>7 DEF Entries
<1>9. Observed(old, i) \in Entries /\ (Shallow /\ Observed(old, i).state = "CONFIRMED" => Embedded(i, allowance.drops))
  BY <1>3, <1>4, <1>8, ObservedIsSettled
<1>10. PICK new \in Entries : new = Observed(old, i)
  BY <1>9
<1>11. /\ journal' \in Seq(Entries) /\ Len(journal') = Len(journal) /\ DOMAIN journal' = DOMAIN journal
       /\ journal'[i] = new /\ \A j \in DOMAIN journal : j # i => journal'[j] = journal[j]
  BY <1>1, <1>3, <1>4, <1>7, <1>10
<1>12. EntriesSettled(journal)'
  BY <1>9, <1>10, <1>11 DEF PageInv, EntriesSettled, Embedded, Recover, networkVars
<1>13. PromptsJournalled'
  BY <1>11 DEF PageInv, PromptsJournalled, StepPromptedOnce, Recover
<1>14. PICK copy \in Seq(Entries) : copy = journal'
  BY <1>11
<1>15. PICK c : c = [call EXCEPT !.at = "observe", !.i = 1, !.copy = copy, !.then = "end"]
  OBVIOUS
<1>16. c \in TabCalls /\ c.at = "observe" /\ c.i = 1 /\ c.copy = copy
  BY <1>1, <1>15 DEF TabCalls, TabPoints
<1>17. PICK x : x = [tabs[t] EXCEPT !.call = c]
  OBVIOUS
<1>18. x \in TabStates /\ x.call = c
  BY <1>1, <1>16, <1>17 DEF TabStates
<1>19. tabs' = [tabs EXCEPT ![t].call.at = "observe", ![t].call.i = 1, ![t].call.copy = copy, ![t].call.then = "end"]
  BY <1>3, <1>14
<1>20. tabs' = [tabs EXCEPT ![t] = x]
  BY <1>1, <1>15, <1>17, <1>19 DEF TabStates
<1>21. TabKnows(x)'
  BY <1>12, <1>14, <1>16, <1>18 DEF TabKnows, EntriesSettled
<1>22. lock' = t /\ \A u \in Tabs \ {t} : tabs[u].call.at = "idle"
  BY <1>2, OthersIdle, HolderHoldsLock DEF Recover
<1>23. UNCHANGED networkVars /\ allowance' = allowance /\ prompts' = prompts
  BY DEF Recover
<1> QED
  BY <1>1, <1>11, <1>12, <1>13, <1>18, <1>20, <1>21, <1>22, <1>23, HolderMoves

LEMMA DoneKeeps == ASSUME PageInv, NEW t \in Tabs, Done(t) PROVE PageInv'
<1>1. journal' \in Seq(Entries) /\ allowance \in PageBudget /\ tabs[t].call.at = "done"
  BY DEF PageInv, PageType, Done, In
<1>2. PICK x \in TabStates : tabs' = [tabs EXCEPT ![t] = x] /\ x.call.at = "idle"
  BY <1>1, LeaveIsIdle DEF Done
<1>3. TabKnows(x)
  BY <1>2 DEF TabKnows
<1> QED
  BY <1>1, <1>2, <1>3, OthersIdle, HolderWalks DEF Done

LEMMA RefusedKeeps == ASSUME PageInv, NEW t \in Tabs, Refused(t) PROVE PageInv'
<1>1. tabs[t].call.at # "idle" /\ Failed(t) /\ allowance' = allowance
  BY DEF Refused, In
<1>2. allowance \in PageBudget
  BY DEF PageInv, PageType
<1> QED
  BY <1>1, <1>2, FailedKeeps

LEMMA RequestFailsKeeps == ASSUME PageInv, NEW t \in Tabs, RequestFails(t) PROVE PageInv'
<1>1. tabs[t].call.at # "idle" /\ Failed(t) /\ Afford("fails")
  BY DEF RequestFails
<1>2. allowance \in PageBudget
  BY DEF PageInv, PageType
<1>3. allowance' \in PageBudget /\ allowance'.drops = allowance.drops
  BY <1>1, <1>2, AffordKeepsDrops
<1> QED
  BY <1>1, <1>3, FailedKeeps

LEMMA StopKeeps == ASSUME PageInv, NEW t \in Tabs, Stop(t) PROVE PageInv'
<1>1. tabs \in [Tabs -> TabStates] /\ allowance \in PageBudget
  BY DEF PageInv, PageType
<1>2. allowance' \in PageBudget /\ allowance'.drops = allowance.drops
  BY <1>1, AffordKeepsDrops DEF Stop
<1>3. tabs' \in [Tabs -> TabStates] /\ \A u \in Tabs : tabs'[u].call = tabs[u].call
  BY <1>1 DEF Stop, TabStates
<1> QED
  BY <1>2, <1>3, CallsKept DEF Stop

LEMMA WalletChangedKeeps == ASSUME PageInv, WalletChanged PROVE PageInv'
<1>1. tabs \in [Tabs -> TabStates] /\ allowance \in PageBudget
  BY DEF PageInv, PageType
<1>2. allowance' \in PageBudget /\ allowance'.drops = allowance.drops
  BY <1>1, AffordKeepsDrops DEF WalletChanged
<1>3. ASSUME NEW u \in Tabs PROVE tabs'[u] \in TabStates /\ tabs'[u].call = tabs[u].call
  <2>1. PICK b \in BOOLEAN : b = (Job(u) = "continue")
    OBVIOUS
  <2>2. tabs[u] \in TabStates
    BY <1>1
  <2>3. tabs'[u] = [tabs[u] EXCEPT !.connected = FALSE, !.verified = FALSE, !.aborted = b]
    BY <2>1 DEF WalletChanged
  <2> QED
    BY <2>2, <2>3 DEF TabStates
<1>4. tabs' \in [Tabs -> TabStates] /\ \A u \in Tabs : tabs'[u].call = tabs[u].call
  BY <1>3 DEF WalletChanged
<1> QED
  BY <1>2, <1>4, CallsKept DEF WalletChanged

LEMMA CloseTabKeeps == ASSUME PageInv, NEW t \in Tabs, CloseTab(t) PROVE PageInv'
<1>1. tabs \in [Tabs -> TabStates] /\ allowance \in PageBudget /\ journal \in Seq(Entries)
  BY DEF PageInv, PageType
<1>2. allowance' \in PageBudget /\ allowance'.drops = allowance.drops
  BY <1>1, AffordKeepsDrops DEF CloseTab
<1>3. PICK x \in TabStates : x = FreshTab(journal) /\ x.call.at = "idle"
  BY <1>1, FreshTabIsTab
<1>4. tabs' \in [Tabs -> TabStates] /\ tabs'[t] = x /\ \A u \in Tabs \ {t} : tabs'[u] = tabs[u]
  BY <1>1, <1>3 DEF CloseTab
<1>5. ChainType' /\ PageType'
  BY <1>2, <1>4 DEF PageInv, ChainType, PageType, CloseTab, networkVars
<1>6. OnlyHolderWorks'
  BY <1>3, <1>4 DEF PageInv, OnlyHolderWorks, CloseTab
<1>7. PromptsJournalled' /\ EntriesSettled(journal)'
  BY <1>2 DEF PageInv, PromptsJournalled, StepPromptedOnce, EntriesSettled, Embedded, CloseTab, networkVars
<1>8. ASSUME NEW u \in Tabs PROVE TabKnows(tabs[u])'
  <2>1. CASE u = t
    BY <1>3, <1>4, <2>1 DEF TabKnows
  <2>2. CASE u # t
    <3>1. TabKnows(tabs[u]) /\ tabs'[u] = tabs[u]
      BY <1>4, <2>2 DEF PageInv
    <3> QED
      BY <1>2, <3>1 DEF TabKnows, EntriesSettled, Embedded, JournalConfirmed, CloseTab, networkVars
  <2> QED
    BY <2>1, <2>2
<1> QED
  BY <1>5, <1>6, <1>7, <1>8 DEF PageInv

\* The wallet and the network: journal, lock and what the calls know stay.
LEMMA WorldMoves ==
    ASSUME PageInv, UNCHANGED <<journal, lock>>, ChainType', txs' \in Seq(SentTxs),
           allowance' \in PageBudget, Shallow => allowance'.drops <= Confirmations,
           \A s : Embedded(s, allowance.drops) => Embedded(s, allowance.drops)',
           tabs' \in [Tabs -> TabStates],
           \A u \in Tabs : /\ tabs'[u].call.at = tabs[u].call.at /\ tabs'[u].call.copy = tabs[u].call.copy
                           /\ tabs'[u].call.i = tabs[u].call.i /\ tabs'[u].call.prompt = tabs[u].call.prompt,
           prompts' \in Seq(Prompts), DOMAIN prompts' = DOMAIN prompts,
           \A p \in DOMAIN prompts : prompts'[p].step = prompts[p].step
    PROVE  PageInv'
<1>1. PageType'
  BY DEF PageInv, PageType
<1>2. OnlyHolderWorks'
  BY DEF PageInv, OnlyHolderWorks
<1>3. PromptsJournalled'
  BY DEF PageInv, PromptsJournalled, StepPromptedOnce
<1>4. ASSUME NEW entries, EntriesSettled(entries) PROVE EntriesSettled(entries)'
  BY <1>4 DEF EntriesSettled
<1>5. EntriesSettled(journal)'
  BY <1>4 DEF PageInv, EntriesSettled
<1>6. ASSUME NEW u \in Tabs PROVE TabKnows(tabs[u])'
  <2>1. TabKnows(tabs[u])
    BY DEF PageInv
  <2>2. EntriesSettled(tabs[u].call.copy) => EntriesSettled(tabs[u].call.copy)'
    BY <1>4 DEF EntriesSettled
  <2>3. JournalConfirmed => JournalConfirmed'
    BY DEF JournalConfirmed
  <2> QED
    BY <2>1, <2>2, <2>3 DEF TabKnows
<1> QED
  BY <1>1, <1>2, <1>3, <1>5, <1>6 DEF PageInv

\* A transaction that reaches the network is behind those that are there.
LEMMA BroadcastGrows ==
    ASSUME PageInv, NEW tx \in SentTxs, Broadcast(tx), UNCHANGED <<chain, blocks>>, allowance'.drops = allowance.drops
    PROVE  ChainType' /\ txs' \in Seq(SentTxs) /\ \A s : Embedded(s, allowance.drops) => Embedded(s, allowance.drops)'
<1>1. txs \in Seq(SentTxs) /\ chain \in Seq(Blocks) /\ pool \subseteq DOMAIN txs
  BY DEF PageInv, PageType, ChainType
<1>2. PICK n \in Nat : n = Len(txs)
  BY <1>1
<1>3. /\ txs' \in Seq(SentTxs) /\ Len(txs') = n + 1 /\ DOMAIN txs' = 1..(n + 1) /\ DOMAIN txs = 1..n
      /\ \A h \in 1..n : txs'[h] = txs[h]
      /\ pool' = pool \cup {n + 1}
  BY <1>1, <1>2 DEF Broadcast
<1>4. ChainType'
  BY <1>1, <1>2, <1>3 DEF PageInv, ChainType
<1>5. \A b \in DOMAIN chain : chain[b].tx # 0 => txs'[chain[b].tx] = txs[chain[b].tx]
  BY <1>2, <1>3 DEF PageInv, ChainType
<1>6. ASSUME NEW s, Embedded(s, allowance.drops) PROVE Embedded(s, allowance.drops)'
  BY <1>5, <1>6 DEF Embedded
<1> QED
  BY <1>3, <1>4, <1>6

LEMMA DecideKeeps == ASSUME PageInv, NEW p \in DOMAIN prompts, Decide(p) PROVE PageInv'
<1>1. /\ tabs \in [Tabs -> TabStates] /\ prompts \in Seq(Prompts) /\ allowance \in PageBudget /\ (Shallow => allowance.drops <= Confirmations)
      /\ journal \in Seq(Entries) /\ txs \in Seq(SentTxs) /\ ChainType
  BY DEF PageInv, PageType
<1>2. prompts[p] \in Prompts
  BY <1>1
<1>3. /\ prompts' \in Seq(Prompts) /\ DOMAIN prompts' = DOMAIN prompts
      /\ \A q \in DOMAIN prompts : prompts'[q].step = prompts[q].step
  <2>1. PICK e : e = [prompts[p] EXCEPT !.open = FALSE]
    OBVIOUS
  <2>2. e \in Prompts /\ e.step = prompts[p].step
    BY <1>2, <2>1 DEF Prompts
  <2>3. prompts' = [prompts EXCEPT ![p] = e]
    BY <1>1, <2>1 DEF Decide
  <2> QED
    BY <1>1, <2>2, <2>3
<1>4. PICK step \in Nat : step = prompts[p].step /\ step - 1 \in Nat
  BY <1>1 DEF PageInv, PromptsJournalled
<1>5. \A planned \in BOOLEAN : [step |-> step, nonce |-> step - 1, planned |-> planned] \in SentTxs
  <2>1. PICK n \in Nat : n = step - 1
    BY <1>4
  <2> QED
    BY <2>1 DEF SentTxs
<1>6. PICK h \in Nat : h = Len(txs) + 1
  BY <1>1
<1>7. /\ tabs' \in [Tabs -> TabStates]
      /\ \A u \in Tabs : /\ tabs'[u].call.at = tabs[u].call.at /\ tabs'[u].call.copy = tabs[u].call.copy
                         /\ tabs'[u].call.i = tabs[u].call.i /\ tabs'[u].call.prompt = tabs[u].call.prompt
  <2>1. CASE tabs' = tabs
    BY <1>1, <2>1
  <2>2. CASE tabs' = [t \in Tabs |-> IF t \in Waiting(p) THEN [tabs[t] EXCEPT !.call.hash = Len(txs) + 1] ELSE tabs[t]]
    <3>1. ASSUME NEW u \in Tabs
          PROVE  /\ tabs'[u] \in TabStates
                 /\ tabs'[u].call.at = tabs[u].call.at /\ tabs'[u].call.copy = tabs[u].call.copy
                 /\ tabs'[u].call.i = tabs[u].call.i /\ tabs'[u].call.prompt = tabs[u].call.prompt
      <4>1. tabs[u] \in TabStates
        BY <1>1
      <4>2. tabs'[u] = tabs[u] \/ tabs'[u] = [tabs[u] EXCEPT !.call.hash = h]
        BY <1>6, <2>2
      <4> QED
        BY <4>1, <4>2 DEF TabStates, TabCalls
    <3> QED
      BY <2>2, <3>1
  <2> QED
    BY <2>1, <2>2 DEF Decide
<1>8. allowance' \in PageBudget /\ allowance'.drops = allowance.drops
  <2>1. allowance' = allowance \/ Afford("edits") \/ Afford("fails")
    BY DEF Decide
  <2> QED
    BY <1>1, <2>1, AffordKeepsDrops
<1>9. ChainType' /\ txs' \in Seq(SentTxs) /\ \A s : Embedded(s, allowance.drops) => Embedded(s, allowance.drops)'
  <2>1. CASE UNCHANGED <<txs, pool>>
    BY <1>1, <1>8, <2>1 DEF ChainType, Embedded, Decide
  <2>2. CASE \E planned \in BOOLEAN : Broadcast([step |-> step, nonce |-> step - 1, planned |-> planned])
    BY <1>5, <1>8, <2>2, BroadcastGrows DEF Decide
  <2>3. UNCHANGED <<txs, pool>> \/ \E planned \in BOOLEAN : Broadcast([step |-> step, nonce |-> step - 1, planned |-> planned])
    BY <1>4 DEF Decide
  <2> QED
    BY <2>1, <2>2, <2>3
<1>10. (Shallow => allowance'.drops <= Confirmations) /\ UNCHANGED <<journal, lock>>
  BY <1>1, <1>8 DEF Decide
<1> QED
  BY <1>3, <1>7, <1>8, <1>9, <1>10, WorldMoves

LEMMA ForeignTransactionKeeps == ASSUME PageInv, ForeignTransaction PROVE PageInv'
<1>1. allowance \in PageBudget /\ tabs \in [Tabs -> TabStates] /\ prompts \in Seq(Prompts) /\ (Shallow => allowance.drops <= Confirmations)
  BY DEF PageInv, PageType
<1>2. allowance' \in PageBudget /\ allowance'.drops = allowance.drops
  BY <1>1, AffordKeepsDrops DEF ForeignTransaction
<1>3. PendingNonce \in Nat
  BY PendingIsNumber DEF PageInv, ChainType
<1>4. [step |-> 0, nonce |-> PendingNonce, planned |-> FALSE] \in SentTxs
  BY <1>3 DEF SentTxs
<1>5. ChainType' /\ txs' \in Seq(SentTxs) /\ \A s : Embedded(s, allowance.drops) => Embedded(s, allowance.drops)'
  BY <1>2, <1>4, BroadcastGrows DEF ForeignTransaction
<1> QED
  BY <1>1, <1>2, <1>5, WorldMoves DEF ForeignTransaction

LEMMA ExpireKeeps == ASSUME PageInv, Expire PROVE PageInv'
<1>1. allowance \in PageBudget /\ tabs \in [Tabs -> TabStates]
  BY DEF PageInv, PageType
<1>2. allowance' \in PageBudget /\ allowance'.drops = allowance.drops
  BY <1>1, AffordKeepsDrops DEF Expire
<1> QED
  BY <1>1, <1>2, CallsKept DEF Expire

LEMMA NetworkKeeps == ASSUME PageInv, Network PROVE PageInv'
<1>1. /\ allowance \in PageBudget /\ tabs \in [Tabs -> TabStates] /\ prompts \in Seq(Prompts) /\ (Shallow => allowance.drops <= Confirmations)
      /\ txs \in Seq(SentTxs) /\ ChainType
  BY DEF PageInv, PageType
<1>2. allowance.drops \in Nat
  BY <1>1 DEF PageBudget
<1>3. CASE Mine /\ UNCHANGED allowance
  <2>1. ChainType' /\ txs' = txs
    BY <1>1, <1>3, MineGrows
  <2>2. PICK n \in Nat : /\ DOMAIN chain = 1..n /\ Len(chain) = n /\ DOMAIN chain' = 1..(n + 1) /\ Len(chain') = n + 1
                         /\ \A b \in 1..n : chain'[b] = chain[b]
    BY <1>1, <1>3, MineGrows
  <2>3. ASSUME NEW s, Embedded(s, allowance.drops) PROVE Embedded(s, allowance.drops)'
    BY <1>2, <1>3, <2>1, <2>2, <2>3 DEF Embedded
  <2> QED
    BY <1>1, <1>3, <2>1, <2>3, WorldMoves DEF Network
<1>4. CASE DropTip /\ Afford("drops")
  <2>0. allowance' \in PageBudget /\ allowance'.drops = allowance.drops - 1 /\ allowance.drops > 0
    BY <1>1, <1>4 DEF Afford, PageBudget
  <2>1. ChainType' /\ txs' = txs
    BY <1>1, <1>4, DropShrinks
  <2>2. PICK n \in Nat : /\ DOMAIN chain = 1..(n + 1) /\ Len(chain) = n + 1 /\ DOMAIN chain' = 1..n /\ Len(chain') = n
                         /\ \A b \in 1..n : chain'[b] = chain[b]
    BY <1>1, <1>4, DropShrinks
  <2>3. ASSUME NEW s, Embedded(s, allowance.drops) PROVE Embedded(s, allowance.drops)'
    BY <1>2, <2>0, <2>1, <2>2, <2>3 DEF Embedded
  <2>4. Shallow => allowance'.drops <= Confirmations
    BY <1>1, <1>2, <2>0 DEF Confirmations
  <2> QED
    BY <1>1, <2>0, <2>1, <2>3, <2>4, WorldMoves DEF Network
<1> QED
  BY <1>3, <1>4 DEF Network

LEMMA PageStep == ASSUME PageInv, PageNext PROVE PageInv'
<1>1. ASSUME NEW t \in Tabs, \E job \in {"connect", "check", "send", "continue", "recover", "export"} : Click(t, job) PROVE PageInv'
  BY <1>1, ClickKeeps DEF Jobs
<1> QED
  BY <1>1, ConnectKeeps, ObserveKeeps, ReconciledKeeps, PreflightKeeps, GuardKeeps, OpenPromptKeeps, AnsweredKeeps, ContinueKeeps,
     RecoverKeeps, DoneKeeps, RefusedKeeps, RequestFailsKeeps, StopKeeps, CloseTabKeeps, DecideKeeps, WalletChangedKeeps,
     ForeignTransactionKeeps, ExpireKeeps, NetworkKeeps DEF PageNext

LEMMA PageStarts == ASSUME PageInit PROVE PageInv
<1>1. allowance \in PageBudget /\ (Shallow => allowance.drops <= Confirmations)
  BY PageAssumption DEF PageInit, Shallow
<1>2. txs = << >> /\ chain = << >> /\ journal = << >> /\ prompts = << >> /\ pool = {} /\ blocks = 0
  BY DEF PageInit, NetworkInit
<1>3. /\ txs \in Seq(SentTxs) /\ chain \in Seq(Blocks) /\ journal \in Seq(Entries) /\ prompts \in Seq(Prompts)
      /\ DOMAIN txs = {} /\ DOMAIN chain = {} /\ DOMAIN journal = {} /\ DOMAIN prompts = {} /\ Len(txs) = 0
  BY <1>2
<1>4. PICK x \in TabStates : x = FreshTab(journal) /\ x.call.at = "idle"
  BY <1>3, FreshTabIsTab
<1>5. tabs \in [Tabs -> TabStates] /\ \A t \in Tabs : tabs[t] = x
  BY <1>2, <1>4 DEF PageInit
<1>6. ChainType
  <2>1. 1..0 = {} /\ blocks \in Nat
    BY <1>2
  <2> QED
    BY <1>2, <1>3, <2>1 DEF ChainType
<1>7. PageType
  BY <1>1, <1>3, <1>5 DEF PageType
<1>8. OnlyHolderWorks /\ PromptsJournalled /\ EntriesSettled(journal)
  BY <1>3, <1>4, <1>5 DEF OnlyHolderWorks, PromptsJournalled, StepPromptedOnce, EntriesSettled
<1>9. \A t \in Tabs : TabKnows(tabs[t])
  BY <1>4, <1>5 DEF TabKnows
<1> QED
  BY <1>6, <1>7, <1>8, <1>9 DEF PageInv

\* When all of n journalled steps are confirmed, each is on the canonical chain.
LEMMA ConfirmedAreMined ==
    ASSUME PageInv, Shallow, JournalConfirmed, NEW s, s = Len(journal) + 1
    PROVE  DependenciesMined(s)
<1>1. journal \in Seq(Entries)
  BY DEF PageInv, PageType
<1>2. 1..(s - 1) = DOMAIN journal
  BY <1>1
<1>3. \A d \in 1..(s - 1) : Embedded(d, allowance.drops)
  BY <1>2 DEF PageInv, EntriesSettled, JournalConfirmed
<1> QED
  BY <1>3 DEF DependenciesMined, Embedded

\* Prompts are opened by OpenPrompt and answered by the user, nowhere else.
LEMMA PromptsElsewhere ==
    ASSUME PageNext, prompts' # prompts
    PROVE  (\E t \in Tabs : OpenPrompt(t)) \/ \E p \in DOMAIN prompts : Decide(p)
<1>1. ASSUME NEW t \in Tabs, NEW job, Click(t, job) PROVE prompts' = prompts
  BY <1>1 DEF Click
<1>2. ASSUME NEW t \in Tabs, Connect(t) PROVE prompts' = prompts
  BY <1>2 DEF Connect
<1>3. ASSUME NEW t \in Tabs, Observe(t) PROVE prompts' = prompts
  BY <1>3, ObserveFrame
<1>4. ASSUME NEW t \in Tabs, Reconciled(t) PROVE prompts' = prompts
  BY <1>4 DEF Reconciled
<1>5. ASSUME NEW t \in Tabs, Preflight(t) PROVE prompts' = prompts
  BY <1>5 DEF Preflight
<1>6. ASSUME NEW t \in Tabs, Guard(t) PROVE prompts' = prompts
  BY <1>6 DEF Guard
<1>7. ASSUME NEW t \in Tabs, Answered(t) PROVE prompts' = prompts
  BY <1>7, AnsweredFrame
<1>8. ASSUME NEW t \in Tabs, Continue(t) PROVE prompts' = prompts
  BY <1>8 DEF Continue
<1>9. ASSUME NEW t \in Tabs, Recover(t) PROVE prompts' = prompts
  BY <1>9 DEF Recover
<1>10. ASSUME NEW t \in Tabs, Refused(t) PROVE prompts' = prompts
  BY <1>10 DEF Refused, Failed
<1>11. ASSUME NEW t \in Tabs, RequestFails(t) PROVE prompts' = prompts
  BY <1>11 DEF RequestFails, Failed
<1>12. ASSUME NEW t \in Tabs, Stop(t) PROVE prompts' = prompts
  BY <1>12 DEF Stop
<1>13. ASSUME NEW t \in Tabs, CloseTab(t) PROVE prompts' = prompts
  BY <1>13 DEF CloseTab
<1>14. ASSUME NEW t \in Tabs, Done(t) PROVE prompts' = prompts
  BY <1>14 DEF Done
<1>15. WalletChanged \/ ForeignTransaction \/ Expire \/ Network => prompts' = prompts
  BY DEF WalletChanged, ForeignTransaction, Expire, Network
<1> QED
  BY <1>1, <1>2, <1>3, <1>4, <1>5, <1>6, <1>7, <1>8, <1>9, <1>10, <1>11, <1>12, <1>13, <1>14, <1>15 DEF PageNext

\* Receipts are handed out by Done, nowhere else.
LEMMA ExportsElsewhere ==
    ASSUME PageNext, exported' # exported
    PROVE  \E t \in Tabs : Done(t)
<1>1. ASSUME NEW t \in Tabs, NEW job, Click(t, job) PROVE exported' = exported
  BY <1>1 DEF Click
<1>2. ASSUME NEW t \in Tabs, Connect(t) PROVE exported' = exported
  BY <1>2 DEF Connect
<1>3. ASSUME NEW t \in Tabs, Observe(t) PROVE exported' = exported
  BY <1>3, ObserveFrame
<1>4. ASSUME NEW t \in Tabs, Reconciled(t) PROVE exported' = exported
  BY <1>4 DEF Reconciled
<1>5. ASSUME NEW t \in Tabs, Preflight(t) PROVE exported' = exported
  BY <1>5 DEF Preflight
<1>6. ASSUME NEW t \in Tabs, Guard(t) PROVE exported' = exported
  BY <1>6 DEF Guard
<1>7. ASSUME NEW t \in Tabs, Answered(t) PROVE exported' = exported
  BY <1>7, AnsweredFrame
<1>8. ASSUME NEW t \in Tabs, Continue(t) PROVE exported' = exported
  BY <1>8 DEF Continue
<1>9. ASSUME NEW t \in Tabs, Recover(t) PROVE exported' = exported
  BY <1>9 DEF Recover
<1>10. ASSUME NEW t \in Tabs, Refused(t) PROVE exported' = exported
  BY <1>10 DEF Refused, Failed
<1>11. ASSUME NEW t \in Tabs, RequestFails(t) PROVE exported' = exported
  BY <1>11 DEF RequestFails, Failed
<1>12. ASSUME NEW t \in Tabs, Stop(t) PROVE exported' = exported
  BY <1>12 DEF Stop
<1>13. ASSUME NEW t \in Tabs, CloseTab(t) PROVE exported' = exported
  BY <1>13 DEF CloseTab
<1>14. ASSUME NEW t \in Tabs, OpenPrompt(t) PROVE exported' = exported
  BY <1>14 DEF OpenPrompt
<1>15. WalletChanged \/ ForeignTransaction \/ Expire \/ Network => exported' = exported
  BY DEF WalletChanged, ForeignTransaction, Expire, Network
<1>16. ASSUME NEW p \in DOMAIN prompts, Decide(p) PROVE exported' = exported
  BY <1>16 DEF Decide
<1> QED
  BY <1>1, <1>2, <1>3, <1>4, <1>5, <1>6, <1>7, <1>8, <1>9, <1>10, <1>11, <1>12, <1>13, <1>14, <1>15, <1>16 DEF PageNext

\* Who opens a prompt or hands out receipts does so on settled steps.
LEMMA PromptingStep ==
    ASSUME PageInv, PageNext, Shallow
    PROVE  /\ Len(prompts') > Len(prompts) => DependenciesMined(prompts'[Len(prompts')].step)
           /\ exported' # exported => DependenciesMined(PlanLength + 1)
<1>1. prompts \in Seq(Prompts) /\ journal \in Seq(Entries)
  BY DEF PageInv, PageType
<1>2. ASSUME Len(prompts') > Len(prompts) PROVE DependenciesMined(prompts'[Len(prompts')].step)
  <2>1. prompts' # prompts
    BY <1>1, <1>2
  <2>2. ASSUME NEW p \in DOMAIN prompts, Decide(p) PROVE FALSE
    BY <1>1, <1>2, <2>2 DEF Decide
  <2>3. PICK t \in Tabs : OpenPrompt(t) /\ ~expired
    <3>1. PICK t \in Tabs : OpenPrompt(t)
      BY <2>1, <2>2, PromptsElsewhere
    <3> QED
      BY <2>1, <3>1 DEF OpenPrompt
  <2>4. PICK new : prompts' = Append(prompts, new) /\ new.step = Len(journal) + 1
    BY <2>3 DEF OpenPrompt
  <2>5. prompts'[Len(prompts')] = new
    BY <1>1, <2>4
  <2>6. JournalConfirmed
    BY <2>3, TabTyped DEF OpenPrompt, In, TabKnows
  <2> QED
    BY <2>4, <2>5, <2>6, ConfirmedAreMined
<1>3. ASSUME exported' # exported PROVE DependenciesMined(PlanLength + 1)
  <2>1. PICK t \in Tabs : Done(t)
    BY <1>3, ExportsElsewhere
  <2>2. Len(journal) = PlanLength /\ NextIndex(journal) > PlanLength
    BY <1>3, <2>1 DEF Done, Complete
  <2>3. JournalConfirmed
    BY <1>1, <2>2, NextIndexBehind DEF JournalConfirmed
  <2> QED
    BY <2>2, <2>3, ConfirmedAreMined
<1> QED
  BY <1>2, <1>3

----------------------------------------------------------------------------
(* The programs side by side *)

\* The tool that runs has its invariant, and the other never asked for anything.
ToolsInv ==
    /\ tool = "page" => PageInv
    /\ tool = "engine" => EngineInv
    /\ tool # "page" => prompts = << >>
    /\ tool # "engine" => signatures = << >>

toolsVars == <<tool, deployVars, engineVars, localVars, paperVars, sideVars>>

LEMMA CountsAreNumbers == ASSUME ToolsInv PROVE Len(prompts) \in Nat /\ Len(signatures) \in Nat
<1>1. Len(prompts) \in Nat
  BY DEF ToolsInv, PageInv, PageType
<1>2. Len(signatures) \in Nat
  BY DEF ToolsInv, EngineInv, EngineType
<1> QED
  BY <1>1, <1>2

LEMMA ToolsStart == ToolsInit => ToolsInv
<1> SUFFICES ASSUME ToolsInit PROVE ToolsInv
  OBVIOUS
<1>1. PageInit /\ EngineInit
  BY DEF ToolsInit
<1>2. prompts = << >> /\ signatures = << >>
  BY <1>1 DEF PageInit, EngineInit
<1> QED
  BY <1>1, <1>2, PageStarts, EngineStarts DEF ToolsInv

\* A step of a tool leaves the other's prompts or signatures alone.
LEMMA ToolsSplit ==
    ASSUME ToolsNext
    PROVE  /\ tool' = tool
           /\ \/ tool = "page" /\ PageNext /\ signatures' = signatures
              \/ tool = "engine" /\ EngineNext /\ prompts' = prompts /\ exported' = exported
              \/ UNCHANGED <<txs, pool, chain, blocks, tabs, journal, lock, prompts, expired, identity, exported, allowance,
                             rows, engine, signatures, lapsed, left>> /\ tool \notin {"page", "engine"}
BY DEF ToolsNext, deployVars, networkVars, pageVars, engineVars

LEMMA ToolsStep == ToolsInv /\ [ToolsNext]_toolsVars => ToolsInv'
<1> SUFFICES ASSUME ToolsInv, [ToolsNext]_toolsVars PROVE ToolsInv'
  OBVIOUS
<1>1. CASE tool' = tool /\ tool = "page" /\ PageNext /\ signatures' = signatures
  BY <1>1, PageStep DEF ToolsInv
<1>2. CASE tool' = tool /\ tool = "engine" /\ EngineNext /\ prompts' = prompts
  BY <1>2, EngineStep DEF ToolsInv
<1>3. CASE tool' = tool /\ UNCHANGED <<prompts, signatures>> /\ tool \notin {"page", "engine"}
  BY <1>3 DEF ToolsInv
<1>4. CASE UNCHANGED toolsVars
  <2>1. /\ tool' = tool
        /\ UNCHANGED <<txs, pool, chain, blocks, tabs, journal, lock, prompts, expired, identity, exported, allowance,
                       rows, engine, signatures, lapsed, left>>
    BY <1>4 DEF toolsVars, deployVars, networkVars, pageVars, engineVars
  <2>2. PageInv => PageInv'
    BY <2>1 DEF PageInv, ChainType, PageType, OnlyHolderWorks, PromptsJournalled, StepPromptedOnce, EntriesSettled, TabKnows,
                JournalConfirmed, Embedded
  <2>3. EngineInv => EngineInv'
    BY <2>1 DEF EngineInv, ChainType, EngineType, SignaturesNumbered, RowsSigned, SentNumbered, ConfirmedRowsSettled, CallKnows,
                Embedded, AllConfirmed, Unsigned, ReceiptHolds
  <2> QED
    BY <2>1, <2>2, <2>3 DEF ToolsInv
<1> QED
  BY <1>1, <1>2, <1>3, <1>4, ToolsSplit

\* For every plan, number of tabs and budget of clicks, crashes, failures, expiries and dropped blocks, no step
\* of the plan is put before the wallet or the signer a second time (sendNext, next), and whatever the engine sent is
\* in its journal with its signature (reconcile).
THEOREM StepsTakenOnce == ToolsSpec => []StepTakenOnce
<1>1. ToolsInv => StepTakenOnce
  <2> SUFFICES ASSUME ToolsInv PROVE StepTakenOnce
    OBVIOUS
  <2>1. StepPromptedOnce
    BY DEF ToolsInv, PageInv, PromptsJournalled, StepPromptedOnce
  <2>2. SignedOnce
    BY EngineImplies DEF ToolsInv, SignedOnce
  <2>3. tool = "engine" => SentIsRecorded
    BY EngineImplies DEF ToolsInv
  <2> QED
    BY <2>1, <2>2, <2>3 DEF StepTakenOnce
<1> QED
  BY <1>1, ToolsStart, ToolsStep, PTL DEF ToolsSpec, toolsVars

\* As long as no more than Confirmations blocks are taken back, the wallet is asked, receipts are handed out and
\* the signer is called for a step only while every earlier step is on the canonical chain as planned, through
\* reloads, stops, lost answers, crashes and reorganisations (finalPreflight, verificationReceipts, canonical).
THEOREM TakenOnMinedSteps == Shallow /\ ToolsSpec => OnMinedStepsOnly
<1> DEFINE SInv == ToolsInv /\ Shallow
<1>1. Shallow /\ ToolsInit => SInv
  BY ToolsStart
<1>2. SInv /\ [ToolsNext]_toolsVars => SInv'
  BY ToolsStep DEF Shallow
<1>3. SInv /\ [ToolsNext]_toolsVars =>
        [/\ Len(prompts') > Len(prompts) => DependenciesMined(prompts'[Len(prompts')].step)
         /\ exported' # exported => DependenciesMined(PlanLength + 1)]_deployVars
  <2> SUFFICES ASSUME SInv, ToolsNext
               PROVE  /\ Len(prompts') > Len(prompts) => DependenciesMined(prompts'[Len(prompts')].step)
                      /\ exported' # exported => DependenciesMined(PlanLength + 1)
    BY DEF toolsVars
  <2>1. CASE tool = "page" /\ PageNext
    BY <2>1, PromptingStep DEF ToolsInv
  <2>2. CASE prompts' = prompts /\ exported' = exported /\ tool # "page"
    <3>1. ~(Len(prompts') > Len(prompts))
      BY <2>2, CountsAreNumbers
    <3> QED
      BY <2>2, <3>1
  <2> QED
    BY <2>1, <2>2, ToolsSplit
<1>4. SInv /\ [ToolsNext]_toolsVars =>
        [left.depth <= Confirmations /\ Len(signatures') > Len(signatures)
            => DependenciesMined(signatures'[Len(signatures')].step)]_executionVars
  <2> SUFFICES ASSUME SInv, ToolsNext, left.depth <= Confirmations, Len(signatures') > Len(signatures)
               PROVE  DependenciesMined(signatures'[Len(signatures')].step)
    BY DEF toolsVars, executionVars, deployVars
  <2>1. CASE tool = "engine" /\ EngineNext
    BY <2>1, SigningStep DEF ToolsInv
  <2>2. CASE signatures' = signatures /\ tool # "engine"
    BY <2>2, CountsAreNumbers
  <2> QED
    BY <2>1, <2>2, ToolsSplit
<1> QED
  BY <1>1, <1>2, <1>3, <1>4, PTL DEF ToolsSpec, toolsVars, OnMinedStepsOnly, OnConfirmedOnly, SignedOnConfirmedOnly

----------------------------------------------------------------------------
(* Price references: the caches and the keeper *)

Results == [ok : BOOLEAN, at : Int, fetched : Int, load : Nat]
Requests == [pc : {"idle", "waiting", "answered", "failed"}, source : Sources \cup {"none"}, asked : Int, until : Int,
             got : Results, failed : Nat]
LoadRecords == [source : Sources, no : Nat, since : Int]
Files == [open : BOOLEAN, calendar : Int, at : Int, read : Int, expires : Int]
KeeperStates == [pc : {"idle", "calendar", "quote", "prepare"}, calendar : Int, at : Int, open : BOOLEAN, read : Int]

ReferenceTypes ==
    /\ second \in Int /\ lastLoad \in Nat /\ ethFailed \in Nat
    /\ kept \in [Sources -> Results]
    /\ loads \subseteq LoadRecords
    /\ pending \in [Sources -> Nat]
    /\ viewers \in [Viewers -> Requests]
    /\ keeper \in KeeperStates
    /\ updates \subseteq Files
    /\ onchain \in [at : Int, read : Int, calendar : Int, open : BOOLEAN]

\* One load of a source at a time, and the one others may join.
OneLoad ==
    /\ \A l \in loads : l.no # 0 /\ l.no <= lastLoad /\ pending[l.source] = l.no
    /\ \A l, m \in loads : l.source = m.source => l = m

\* A failed load of ETH is later than nothing that can still be handed out.
NewerThanFailure ==
    /\ ethFailed <= lastLoad
    /\ kept["eth"].load # 0 => kept["eth"].load > ethFailed
    /\ \A l \in loads : l.source = "eth" => l.no > ethFailed /\ kept["eth"].load = 0

\* What a request was answered.
AnswerHolds(a) ==
    a.pc = "answered" =>
       /\ a.got.fetched = a.until \/ a.asked < a.got.fetched + Ttl(a.source, a.got)
       /\ a.source = "eth" => /\ a.until - a.got.at \in 0 .. EthMaxAge
                              /\ a.got.load > a.failed

\* A waiting request has a source.
AsksSource == \A v \in Viewers : viewers[v].pc = "waiting" => viewers[v].source \in Sources

CachesInv == OneLoad /\ NewerThanFailure /\ AsksSource /\ \A v \in Viewers : AnswerHolds(viewers[v])

\* What the keeper holds in hand, and what it has written down.
ReadInSession(k) == k.calendar <= k.read /\ k.at <= k.read /\ (k.open => InSession(k.read))

KeeperInv ==
    /\ keeper.pc = "quote" => keeper.open
    /\ keeper.pc \in {"quote", "prepare"} => ReadInSession(keeper)
    /\ \A u \in updates : ReadInSession(u) /\ u.expires = ExpiresAt(u)
    /\ onchain.at # 0 => InSession(onchain.read)

ReferenceInv == ReferenceTypes /\ CachesInv /\ KeeperInv

LEMMA ReferenceConstants ==
    /\ QuoteTtl \in Nat /\ HistoryTtl \in Nat /\ FailureTtl \in Nat /\ EthTtl \in Nat /\ Ahead \in Nat
    /\ EthMaxAge \in Nat /\ ServedAge \in Nat /\ KeeperMaxAge \in Nat /\ RegularOpen \in Nat /\ RegularClose \in Nat
BY ReferenceAssumption

LEMMA ReferenceStarts == ReferenceInit => ReferenceInv
<1> SUFFICES ASSUME ReferenceInit PROVE ReferenceInv
  OBVIOUS
<1>1. Nothing \in Results
  BY DEF Nothing, Results
<1>2. Resting \in Requests /\ Resting.pc = "idle"
  BY <1>1 DEF Resting, Requests
<1>3. KeeperIdle \in KeeperStates /\ KeeperIdle.pc = "idle"
  BY DEF KeeperIdle, KeeperStates
<1>4. ReferenceTypes
  BY <1>1, <1>2, <1>3 DEF ReferenceInit, ReferenceTypes
<1>5. kept["eth"].load = 0
  BY DEF ReferenceInit, Nothing, Sources
<1>6. CachesInv
  BY <1>2, <1>5 DEF ReferenceInit, CachesInv, OneLoad, NewerThanFailure, AsksSource, AnswerHolds
<1>7. KeeperInv
  BY <1>3 DEF ReferenceInit, KeeperInv
<1> QED BY <1>4, <1>6, <1>7 DEF ReferenceInv

\* What is served keeps its request's types.
LEMMA ServedType ==
    ASSUME ReferenceTypes, NEW r \in Requests, NEW result \in Results
    PROVE  /\ Served(r, result) \in Requests /\ Served(r, result).pc \in {"answered", "failed"}
           /\ Served(r, result).pc = "answered" =>
                 /\ Served(r, result).got = result /\ Served(r, result).until = second
                 /\ Served(r, result).failed = ethFailed /\ Served(r, result).asked = r.asked
                 /\ Served(r, result).source = r.source
<1>1. [r EXCEPT !.pc = "failed"] \in Requests /\ [r EXCEPT !.pc = "failed"].pc = "failed"
  BY DEF Requests
<1>2. second \in Int /\ ethFailed \in Nat
  BY DEF ReferenceTypes
<1>3. PICK a : a = [r EXCEPT !.pc = "answered", !.got = result, !.until = second, !.failed = ethFailed]
  OBVIOUS
<1>4. /\ a \in Requests /\ a.pc = "answered" /\ a.got = result /\ a.until = second /\ a.failed = ethFailed
      /\ a.asked = r.asked /\ a.source = r.source
  BY <1>2, <1>3 DEF Requests
<1>5. Served(r, result) = [r EXCEPT !.pc = "failed"] \/ Served(r, result) = a
  BY <1>3 DEF Served
<1> QED BY <1>1, <1>4, <1>5

\* A request that is answered from what is kept.
LEMMA KeptAnswerHolds ==
    ASSUME ReferenceInv, NEW source \in Sources, Usable(source), NEW r \in Requests, r.asked = second, r.source = source
    PROVE  AnswerHolds(Served(r, kept[source]))
<1>1. kept[source] \in Results /\ ReferenceTypes /\ NewerThanFailure
  BY DEF ReferenceInv, ReferenceTypes, CachesInv
<1>2. PICK a : a = Served(r, kept[source])
  OBVIOUS
<1>3. a.pc = "answered" => /\ a.got = kept[source] /\ a.until = second /\ a.failed = ethFailed
                           /\ a.asked = second /\ a.source = source
  BY <1>1, <1>2, ServedType
<1>4. second < kept[source].fetched + Ttl(source, kept[source])
  BY DEF Usable
<1>5. source = "eth" => /\ second - kept[source].at \in 0 .. EthMaxAge
                        /\ kept[source].load > ethFailed
  BY <1>1, ReferenceConstants DEF Usable, NewerThanFailure, Results, ReferenceTypes
<1>6. AnswerHolds(a)
  BY <1>3, <1>4, <1>5 DEF AnswerHolds
<1> QED BY <1>2, <1>6

\* Everybody who joined is answered at the moment the load ends.
LEMMA LoadedAnswerHolds ==
    ASSUME ReferenceInv, NEW source \in Sources, NEW result \in Results, result.fetched = second, NEW r \in Requests,
           r.source = source,
           source = "eth" => /\ result.at <= second /\ second - result.at <= EthMaxAge
                             /\ result.load > ethFailed
    PROVE  AnswerHolds(Served(r, result))
<1>1. ReferenceTypes
  BY DEF ReferenceInv
<1>2. PICK a : a = Served(r, result)
  OBVIOUS
<1>3. a.pc = "answered" => /\ a.got = result /\ a.until = second /\ a.failed = ethFailed /\ a.source = source
  BY <1>1, <1>2, ServedType
<1>4. source = "eth" => second - result.at \in 0 .. EthMaxAge
  BY <1>1, ReferenceConstants DEF ReferenceTypes, Results
<1>5. AnswerHolds(a)
  BY <1>3, <1>4 DEF AnswerHolds
<1> QED BY <1>2, <1>5

LEMMA ViewKeeps ==
    ASSUME ReferenceInv, NEW v \in Viewers, NEW source \in Sources, View(v, source)
    PROVE  ReferenceTypes' /\ CachesInv'
<1>1. ReferenceTypes /\ CachesInv /\ second \in Int /\ lastLoad \in Nat /\ ethFailed \in Nat
  BY DEF ReferenceInv, ReferenceTypes
<1>2. PICK r : r = [Resting EXCEPT !.pc = "waiting", !.source = source, !.asked = second]
  OBVIOUS
<1>3. r \in Requests /\ r.asked = second /\ r.source = source /\ r.pc = "waiting"
  <2>1. Nothing \in Results
    BY DEF Nothing, Results
  <2>2. Resting \in Requests
    BY <2>1 DEF Resting, Requests
  <2> QED BY <1>1, <1>2, <2>2 DEF Requests
<1>4. second' = second /\ ethFailed' = ethFailed /\ keeper' = keeper /\ updates' = updates /\ onchain' = onchain
  BY DEF View
<1>5. AnswerHolds(r)
  BY <1>3 DEF AnswerHolds
<1>6. CASE /\ Usable(source) /\ viewers' = [viewers EXCEPT ![v] = Served(r, kept[source])]
           /\ UNCHANGED <<kept, loads, pending, lastLoad>>
  <2>1. kept[source] \in Results
    BY <1>1 DEF ReferenceTypes
  <2>2. PICK a \in Requests : a = Served(r, kept[source]) /\ a.pc # "waiting"
    BY <1>1, <1>3, <2>1, ServedType
  <2>3. AnswerHolds(a)
    BY <1>3, <1>6, <2>2, KeptAnswerHolds
  <2>4. viewers' = [viewers EXCEPT ![v] = a]
    BY <1>6, <2>2
  <2>5. viewers' \in [Viewers -> Requests]
    BY <1>1, <2>2, <2>4 DEF ReferenceTypes
  <2>6. \A w \in Viewers : viewers'[w] = IF w = v THEN a ELSE viewers[w]
    BY <1>1, <2>4 DEF ReferenceTypes
  <2>7. AsksSource' /\ \A w \in Viewers : AnswerHolds(viewers'[w])
    BY <1>1, <2>2, <2>3, <2>6 DEF CachesInv, AsksSource
  <2>8. ReferenceTypes'
    BY <1>1, <1>4, <1>6, <2>5 DEF ReferenceTypes
  <2> QED BY <1>1, <1>4, <1>6, <2>7, <2>8 DEF CachesInv, OneLoad, NewerThanFailure, AnswerHolds
<1>7. CASE ~Usable(source) /\ pending[source] # 0 /\ viewers' = [viewers EXCEPT ![v] = r]
           /\ UNCHANGED <<kept, loads, pending, lastLoad>>
  <2>1. viewers' \in [Viewers -> Requests] /\ \A w \in Viewers : viewers'[w] = IF w = v THEN r ELSE viewers[w]
    BY <1>1, <1>3, <1>7 DEF ReferenceTypes
  <2>2. AsksSource' /\ \A w \in Viewers : AnswerHolds(viewers'[w])
    BY <1>1, <1>3, <1>5, <2>1 DEF CachesInv, AsksSource
  <2>3. ReferenceTypes'
    BY <1>1, <1>4, <1>7, <2>1 DEF ReferenceTypes
  <2> QED BY <1>1, <1>4, <1>7, <2>2, <2>3 DEF CachesInv, OneLoad, NewerThanFailure, AnswerHolds
<1>8. CASE /\ ~Usable(source) /\ pending[source] = 0 /\ viewers' = [viewers EXCEPT ![v] = r]
           /\ lastLoad' = lastLoad + 1 /\ pending' = [pending EXCEPT ![source] = lastLoad']
           /\ loads' = loads \cup {[source |-> source, no |-> lastLoad', since |-> second]}
           /\ kept' = IF source = "eth" THEN Refreshing ELSE kept
  <2>1. viewers' \in [Viewers -> Requests] /\ \A w \in Viewers : viewers'[w] = IF w = v THEN r ELSE viewers[w]
    BY <1>1, <1>3, <1>8 DEF ReferenceTypes
  <2>2. AsksSource' /\ \A w \in Viewers : AnswerHolds(viewers'[w])
    BY <1>1, <1>3, <1>5, <2>1 DEF CachesInv, AsksSource
  <2>3. PICK new \in LoadRecords : new = [source |-> source, no |-> lastLoad + 1, since |-> second]
    <3>1. PICK n \in Nat : n = lastLoad + 1
      BY <1>1
    <3>2. [source |-> source, no |-> n, since |-> second] \in LoadRecords
      BY <1>1 DEF LoadRecords
    <3> QED BY <3>1, <3>2
  <2>4. new.source = source /\ new.no = lastLoad + 1 /\ loads' = loads \cup {new}
    BY <1>8, <2>3
  <2>5. /\ kept' \in [Sources -> Results]
        /\ source = "eth" => kept'["eth"].load = 0
        /\ source # "eth" => kept'["eth"] = kept["eth"]
    BY <1>1, <1>8 DEF ReferenceTypes, Refreshing, Nothing, Results, Sources
  <2>6. pending' \in [Sources -> Nat] /\ \A x \in Sources : pending'[x] = IF x = source THEN lastLoad + 1 ELSE pending[x]
    BY <1>1, <1>8 DEF ReferenceTypes
  <2>7. ReferenceTypes'
    BY <1>1, <1>4, <1>8, <2>1, <2>3, <2>4, <2>5, <2>6 DEF ReferenceTypes
  <2>8. loads \subseteq LoadRecords /\ \A l \in loads : l.source \in Sources /\ l.no \in Nat
    BY <1>1 DEF ReferenceTypes, LoadRecords
  <2>9. \A l \in loads : l.source # source
    BY <1>1, <1>8, <2>8 DEF CachesInv, OneLoad
  <2>10. OneLoad'
    BY <1>1, <1>8, <2>4, <2>6, <2>8, <2>9 DEF CachesInv, OneLoad
  <2>11. NewerThanFailure'
    BY <1>1, <1>4, <1>8, <2>4, <2>5, <2>9 DEF CachesInv, NewerThanFailure
  <2> QED BY <2>2, <2>7, <2>10, <2>11 DEF CachesInv, AnswerHolds
<1> QED BY <1>2, <1>6, <1>7, <1>8, Zenon DEF View

\* A load ends: nobody of its source is in flight any more.
LEMMA EndedLoads ==
    ASSUME ReferenceInv, NEW load \in loads, Ended(load), lastLoad' = lastLoad
    PROVE  /\ OneLoad' /\ loads' \subseteq LoadRecords /\ pending' \in [Sources -> Nat]
           /\ \A l \in loads' : l \in loads /\ l.source # load.source
<1>1. OneLoad /\ loads \subseteq LoadRecords /\ pending \in [Sources -> Nat]
  BY DEF ReferenceInv, ReferenceTypes, CachesInv
<1>2. \A l \in loads : l.source \in Sources
  BY <1>1 DEF LoadRecords
<1>3. loads' = loads \ {load} /\ pending' = [pending EXCEPT ![load.source] = 0]
  BY DEF Ended
<1>4. \A l \in loads' : l \in loads /\ l.source # load.source
  BY <1>1, <1>3 DEF OneLoad
<1>5. \A l \in loads' : pending'[l.source] = pending[l.source]
  BY <1>1, <1>2, <1>3, <1>4
<1> QED BY <1>1, <1>3, <1>4, <1>5 DEF OneLoad

\* Answers for everybody who joined.
LEMMA JoinedAnswers ==
    ASSUME ReferenceInv, NEW source \in Sources, NEW result \in Results,
           \A r \in Requests : r.source = source => AnswerHolds(Served(r, result)),
           viewers' = [v \in Viewers |-> IF v \in Joined(source) THEN Served(viewers[v], result) ELSE viewers[v]]
    PROVE  viewers' \in [Viewers -> Requests] /\ AsksSource' /\ \A v \in Viewers : AnswerHolds(viewers'[v])
<1>1. ReferenceTypes /\ viewers \in [Viewers -> Requests] /\ AsksSource /\ \A v \in Viewers : AnswerHolds(viewers[v])
  BY DEF ReferenceInv, ReferenceTypes, CachesInv
<1>2. ASSUME NEW v \in Viewers
      PROVE  viewers'[v] \in Requests /\ AnswerHolds(viewers'[v]) /\ (viewers'[v].pc = "waiting" => viewers'[v] = viewers[v])
  <2>1. CASE v \notin Joined(source)
    BY <1>1, <2>1
  <2>2. CASE v \in Joined(source)
    <3>1. PICK r \in Requests : r = viewers[v]
      BY <1>1
    <3>2. r.source = source /\ viewers'[v] = Served(r, result)
      BY <2>2, <3>1 DEF Joined
    <3>3. Served(r, result) \in Requests /\ Served(r, result).pc \in {"answered", "failed"}
      BY <1>1, ServedType
    <3> QED BY <3>2, <3>3
  <2> QED BY <2>1, <2>2
<1>3. viewers' \in [Viewers -> Requests]
  BY <1>2
<1> QED BY <1>1, <1>2, <1>3 DEF AsksSource

LEMMA LoadedKeeps ==
    ASSUME ReferenceInv, NEW load \in loads, NEW at \in Int, Loaded(load, at)
    PROVE  ReferenceTypes' /\ CachesInv'
<1>1. ReferenceTypes /\ CachesInv /\ second \in Int /\ ethFailed \in Nat /\ kept \in [Sources -> Results]
  BY DEF ReferenceInv, ReferenceTypes
<1>2. load.source \in Sources /\ load.no \in Nat \ {0}
  BY <1>1 DEF ReferenceTypes, LoadRecords, CachesInv, OneLoad
<1>3. PICK source \in Sources : source = load.source
  BY <1>2
<1>4. PICK result : result = [ok |-> TRUE, at |-> at, fetched |-> second, load |-> load.no]
  OBVIOUS
<1>5. result \in Results /\ result.at = at /\ result.fetched = second /\ result.load = load.no
  BY <1>1, <1>2, <1>4 DEF Results
<1>6. /\ kept' = [kept EXCEPT ![source] = result] /\ Ended(load) /\ Acceptable(source, at)
      /\ viewers' = [v \in Viewers |-> IF v \in Joined(source) THEN Served(viewers[v], result) ELSE viewers[v]]
      /\ UNCHANGED <<second, lastLoad, ethFailed, keeper, updates, onchain, lot>>
  BY <1>3, <1>4, Zenon DEF Loaded
<1>7. source = "eth" => result.at <= second /\ second - result.at <= EthMaxAge /\ result.load > ethFailed
  BY <1>1, <1>3, <1>5, <1>6 DEF Acceptable, CachesInv, NewerThanFailure
<1>8. \A r \in Requests : r.source = source => AnswerHolds(Served(r, result))
  BY <1>5, <1>7, LoadedAnswerHolds
<1>9. viewers' \in [Viewers -> Requests] /\ AsksSource' /\ \A v \in Viewers : AnswerHolds(viewers'[v])
  BY <1>5, <1>6, <1>8, JoinedAnswers
<1>10. /\ OneLoad' /\ loads' \subseteq LoadRecords /\ pending' \in [Sources -> Nat]
       /\ \A l \in loads' : l \in loads /\ l.source # load.source
  BY <1>6, EndedLoads
<1>11. kept' \in [Sources -> Results] /\ (source # "eth" => kept'["eth"] = kept["eth"]) /\ (source = "eth" => kept'["eth"] = result)
  BY <1>1, <1>5, <1>6 DEF Sources
<1>12. NewerThanFailure'
  BY <1>1, <1>3, <1>6, <1>7, <1>10, <1>11 DEF CachesInv, NewerThanFailure
<1>13. ReferenceTypes'
  BY <1>1, <1>6, <1>9, <1>10, <1>11 DEF ReferenceTypes
<1> QED BY <1>9, <1>10, <1>12, <1>13 DEF CachesInv, AnswerHolds

LEMMA LoadFailsKeeps ==
    ASSUME ReferenceInv, NEW load \in loads, LoadFails(load)
    PROVE  ReferenceTypes' /\ CachesInv'
<1>1. ReferenceTypes /\ CachesInv /\ second \in Int /\ ethFailed \in Nat /\ kept \in [Sources -> Results]
  BY DEF ReferenceInv, ReferenceTypes
<1>2. load.source \in Sources /\ load.no \in Nat \ {0} /\ load.no <= lastLoad
  BY <1>1 DEF ReferenceTypes, LoadRecords, CachesInv, OneLoad
<1>3. Ended(load) /\ UNCHANGED <<second, lastLoad, keeper, updates, onchain>>
  BY DEF LoadFails
<1>4. /\ OneLoad' /\ loads' \subseteq LoadRecords /\ pending' \in [Sources -> Nat]
      /\ \A l \in loads' : l \in loads /\ l.source # load.source
  BY <1>3, EndedLoads
<1>5. CASE load.source = "eth"
  <2>1. /\ ethFailed' = load.no /\ kept' = kept
        /\ viewers' = [v \in Viewers |-> IF v \in Joined("eth") THEN [viewers[v] EXCEPT !.pc = "failed"] ELSE viewers[v]]
    BY <1>5 DEF LoadFails
  <2>2. ASSUME NEW v \in Viewers
        PROVE  viewers'[v] \in Requests /\ (viewers'[v] = viewers[v] \/ viewers'[v].pc = "failed")
    BY <1>1, <2>1 DEF ReferenceTypes, Requests
  <2>3. viewers' \in [Viewers -> Requests] /\ AsksSource' /\ \A v \in Viewers : AnswerHolds(viewers'[v])
    <3>1. viewers' \in [Viewers -> Requests]
      BY <2>1, <2>2
    <3>2. \A v \in Viewers : AnswerHolds(viewers'[v])
      BY <1>1, <2>2 DEF CachesInv, AnswerHolds
    <3> QED BY <1>1, <2>2, <3>1, <3>2 DEF CachesInv, AsksSource
  <2>4. NewerThanFailure'
    BY <1>1, <1>2, <1>3, <1>4, <1>5, <2>1 DEF CachesInv, NewerThanFailure
  <2>5. ReferenceTypes'
    BY <1>1, <1>2, <1>3, <1>4, <2>1, <2>3 DEF ReferenceTypes
  <2> QED BY <1>4, <2>3, <2>4, <2>5 DEF CachesInv, AnswerHolds
<1>6. CASE load.source # "eth"
  <2>1. PICK source \in Sources : source = load.source
    BY <1>2
  <2>2. PICK result : result = [Nothing EXCEPT !.fetched = second, !.load = load.no]
    OBVIOUS
  <2>3. result \in Results /\ result.fetched = second
    <3>1. Nothing \in Results
      BY DEF Nothing, Results
    <3> QED BY <1>1, <1>2, <2>2, <3>1 DEF Results
  <2>4. /\ kept' = [kept EXCEPT ![source] = result] /\ ethFailed' = ethFailed
        /\ viewers' = [v \in Viewers |-> IF v \in Joined(source) THEN Served(viewers[v], result) ELSE viewers[v]]
    BY <1>6, <2>1, <2>2, Zenon DEF LoadFails
  <2>5. \A r \in Requests : r.source = source => AnswerHolds(Served(r, result))
    BY <1>6, <2>1, <2>3, LoadedAnswerHolds
  <2>6. viewers' \in [Viewers -> Requests] /\ AsksSource' /\ \A v \in Viewers : AnswerHolds(viewers'[v])
    BY <2>3, <2>4, <2>5, JoinedAnswers
  <2>7. kept' \in [Sources -> Results] /\ kept'["eth"] = kept["eth"]
    BY <1>1, <1>6, <2>1, <2>3, <2>4 DEF Sources
  <2>8. NewerThanFailure'
    BY <1>1, <1>3, <1>4, <2>4, <2>7 DEF CachesInv, NewerThanFailure
  <2>9. ReferenceTypes'
    BY <1>1, <1>3, <1>4, <2>4, <2>6, <2>7 DEF ReferenceTypes
  <2> QED BY <1>4, <2>6, <2>8, <2>9 DEF CachesInv, AnswerHolds
<1> QED BY <1>5, <1>6

\* Where nothing of the caches moves, they hold.
LEMMA CachesRest ==
    ASSUME ReferenceInv, UNCHANGED cacheVars
    PROVE  CachesInv'
BY DEF ReferenceInv, CachesInv, OneLoad, NewerThanFailure, AsksSource, AnswerHolds, cacheVars, Ttl

LEMMA KeeperKeeps ==
    ASSUME ReferenceInv,
           \/ KeeperStart \/ PrepareUpdate \/ KeeperGivesUp
           \/ \E at \in 0 .. second : KeeperCalendar(at) \/ KeeperQuote(at)
           \/ \E u \in updates : MineSession(u) \/ MinePrice(u)
    PROVE  ReferenceInv'
<1>1. ReferenceTypes /\ KeeperInv /\ second \in Int /\ keeper \in KeeperStates /\ updates \subseteq Files
      /\ onchain \in [at : Int, read : Int, calendar : Int, open : BOOLEAN]
  BY DEF ReferenceInv, ReferenceTypes
<1>2. UNCHANGED cacheVars /\ second' = second
  BY DEF KeeperStart, PrepareUpdate, KeeperGivesUp, KeeperCalendar, KeeperQuote, MineSession, MinePrice
<1>3. CachesInv'
  BY <1>2, CachesRest
<1>4. \A k \in KeeperStates : k.calendar \in Int /\ k.at \in Int /\ k.read \in Int /\ k.open \in BOOLEAN
  BY DEF KeeperStates
<1>5. ASSUME keeper' \in KeeperStates, updates' \subseteq Files,
             onchain' \in [at : Int, read : Int, calendar : Int, open : BOOLEAN]
      PROVE  ReferenceTypes'
  BY <1>1, <1>2, <1>5 DEF ReferenceTypes, cacheVars
<1>6. CASE KeeperStart \/ KeeperGivesUp
  <2>1. keeper' \in KeeperStates /\ keeper'.pc \in {"idle", "calendar"} /\ updates' = updates /\ onchain' = onchain
    <3>1. KeeperIdle \in KeeperStates /\ KeeperIdle.pc = "idle"
      BY DEF KeeperIdle, KeeperStates
    <3>2. [KeeperIdle EXCEPT !.pc = "calendar"] \in KeeperStates /\ [KeeperIdle EXCEPT !.pc = "calendar"].pc = "calendar"
      BY <3>1 DEF KeeperStates
    <3> QED BY <1>6, <3>1, <3>2 DEF KeeperStart, KeeperGivesUp
  <2>2. ReferenceTypes'
    BY <1>1, <1>5, <2>1
  <2>3. KeeperInv'
    BY <1>1, <2>1 DEF KeeperInv, ReadInSession, ExpiresAt, InSession
  <2> QED BY <1>3, <2>2, <2>3 DEF ReferenceInv
<1>7. CASE PrepareUpdate
  <2>1. PICK file : file = [open |-> keeper.open, calendar |-> keeper.calendar, at |-> keeper.at,
                            read |-> keeper.read, expires |-> ExpiresAt(keeper)]
    OBVIOUS
  <2>2. /\ updates' = updates \cup {file} /\ keeper' = KeeperIdle /\ onchain' = onchain /\ keeper.pc = "prepare"
    BY <1>7, <2>1 DEF PrepareUpdate
  <2>3. /\ file.open = keeper.open /\ file.calendar = keeper.calendar /\ file.at = keeper.at
        /\ file.read = keeper.read /\ file.expires = ExpiresAt(keeper)
    BY <2>1
  <2>4. ExpiresAt(keeper) \in Int /\ ExpiresAt(file) = ExpiresAt(keeper)
    BY <1>1, <1>4, <2>3, ReferenceConstants DEF ExpiresAt
  <2>5. file \in Files
    BY <1>1, <1>4, <2>1, <2>4 DEF Files
  <2>6. KeeperIdle \in KeeperStates /\ KeeperIdle.pc = "idle"
    BY DEF KeeperIdle, KeeperStates
  <2>7. ReferenceTypes'
    BY <1>1, <1>5, <2>2, <2>5, <2>6
  <2>8. ReadInSession(file)
    BY <1>1, <2>2, <2>3 DEF KeeperInv, ReadInSession
  <2>9. KeeperInv'
    BY <1>1, <2>2, <2>3, <2>4, <2>6, <2>8 DEF KeeperInv
  <2> QED BY <1>3, <2>7, <2>9 DEF ReferenceInv
<1>8. ASSUME NEW at \in 0 .. second, KeeperCalendar(at) PROVE ReferenceInv'
  <2>1. PICK open \in BOOLEAN : open = (InSession(at) /\ InSession(second))
    OBVIOUS
  <2>2. at \in Int /\ at <= second
    BY <1>1
  <2>3. /\ keeper' = [keeper EXCEPT !.pc = IF open THEN "quote" ELSE "prepare", !.calendar = at, !.at = at,
                                    !.open = open, !.read = second]
        /\ updates' = updates /\ onchain' = onchain
    BY <1>8, <2>1 DEF KeeperCalendar
  <2>4. /\ keeper' \in KeeperStates /\ keeper'.pc = (IF open THEN "quote" ELSE "prepare") /\ keeper'.calendar = at
        /\ keeper'.at = at /\ keeper'.open = open /\ keeper'.read = second
    BY <1>1, <2>2, <2>3 DEF KeeperStates
  <2>5. ReadInSession(keeper')
    BY <2>1, <2>2, <2>4 DEF ReadInSession
  <2>6. ReferenceTypes'
    BY <1>1, <1>5, <2>3, <2>4
  <2>7. KeeperInv'
    BY <1>1, <2>3, <2>4, <2>5 DEF KeeperInv
  <2> QED BY <1>3, <2>6, <2>7 DEF ReferenceInv
<1>9. ASSUME NEW at \in 0 .. second, KeeperQuote(at) PROVE ReferenceInv'
  <2>1. at \in Int /\ at <= second /\ keeper.calendar <= second /\ InSession(second)
    <3>1. at \in Int /\ at <= second
      BY <1>1
    <3> QED BY <1>9, <3>1 DEF KeeperQuote, Fresh
  <2>2. /\ keeper' = [keeper EXCEPT !.pc = "prepare", !.at = at, !.read = second]
        /\ updates' = updates /\ onchain' = onchain
    BY <1>9 DEF KeeperQuote
  <2>3. /\ keeper' \in KeeperStates /\ keeper'.pc = "prepare" /\ keeper'.calendar = keeper.calendar
        /\ keeper'.at = at /\ keeper'.read = second
    BY <1>1, <2>1, <2>2 DEF KeeperStates
  <2>4. ReadInSession(keeper')
    BY <2>1, <2>3 DEF ReadInSession
  <2>5. ReferenceTypes'
    BY <1>1, <1>5, <2>2, <2>3
  <2>6. KeeperInv'
    BY <1>1, <2>2, <2>3, <2>4 DEF KeeperInv
  <2> QED BY <1>3, <2>5, <2>6 DEF ReferenceInv
<1>10. ASSUME NEW u \in updates, MineSession(u) \/ MinePrice(u) PROVE ReferenceInv'
  <2>1. u.calendar \in Int /\ u.open \in BOOLEAN /\ u.at \in Int /\ u.read \in Int /\ ReadInSession(u)
    BY <1>1 DEF Files, KeeperInv
  <2>2. /\ onchain' \in [at : Int, read : Int, calendar : Int, open : BOOLEAN]
        /\ \/ onchain'.at = onchain.at /\ onchain'.read = onchain.read
           \/ u.open /\ onchain'.read = u.read
    BY <1>1, <1>10, <2>1 DEF MineSession, MinePrice
  <2>3. keeper' = keeper /\ updates' = updates
    BY <1>10 DEF MineSession, MinePrice
  <2>4. ReferenceTypes'
    BY <1>1, <1>5, <2>2, <2>3
  <2>5. KeeperInv'
    BY <1>1, <2>1, <2>2, <2>3 DEF KeeperInv, ReadInSession
  <2> QED BY <1>3, <2>4, <2>5 DEF ReferenceInv
<1> QED BY <1>6, <1>7, <1>8, <1>9, <1>10

LEMMA ReferenceKeeps == ReferenceInv /\ [ReferenceNext]_referenceVars => ReferenceInv'
<1> SUFFICES ASSUME ReferenceInv, [ReferenceNext]_referenceVars PROVE ReferenceInv'
  OBVIOUS
<1>1. ASSUME UNCHANGED <<keeper, updates, onchain>> PROVE KeeperInv'
  BY <1>1 DEF ReferenceInv, KeeperInv
<1>2. CASE UNCHANGED referenceVars \/ MoveClock
  <2>1. UNCHANGED cacheVars /\ UNCHANGED <<keeper, updates, onchain>> /\ second' \in Int
    BY <1>2 DEF referenceVars, MoveClock, ReferenceInv, ReferenceTypes, cacheVars
  <2>2. ReferenceTypes'
    BY <2>1 DEF ReferenceInv, ReferenceTypes, cacheVars
  <2> QED BY <1>1, <2>1, <2>2, CachesRest DEF ReferenceInv
<1>3. ASSUME NEW v \in Viewers, NEW x \in Sources, View(v, x) PROVE ReferenceInv'
  <2>1. UNCHANGED <<keeper, updates, onchain>>
    BY <1>3 DEF View
  <2> QED BY <1>1, <1>3, <2>1, ViewKeeps DEF ReferenceInv
<1>4. ASSUME NEW load \in loads, LoadFails(load) PROVE ReferenceInv'
  <2>1. UNCHANGED <<keeper, updates, onchain>>
    BY <1>4 DEF LoadFails
  <2> QED BY <1>1, <1>4, <2>1, LoadFailsKeeps DEF ReferenceInv
<1>5. ASSUME NEW load \in loads, NEW at \in 0 .. second + Ahead + 1, Loaded(load, at) PROVE ReferenceInv'
  <2>1. UNCHANGED <<keeper, updates, onchain>>
    BY <1>5 DEF Loaded
  <2>2. at \in Int
    OBVIOUS
  <2> QED BY <1>1, <1>5, <2>1, <2>2, LoadedKeeps DEF ReferenceInv
<1> QED BY <1>2, <1>3, <1>4, <1>5, KeeperKeeps DEF ReferenceNext

LEMMA AtMostOne ==
    ASSUME NEW S, \A a, b \in S : a = b
    PROVE  Cardinality(S) <= 1
<1>1. CASE S = {}
  BY <1>1, FS_EmptySet
<1>2. CASE S # {}
  <2>1. PICK a : S = {a}
    BY <1>2
  <2> QED BY <2>1, FS_Singleton
<1> QED BY <1>1, <1>2

LEMMA ShownFresh ==
    ASSUME ReferenceInv
    PROVE  PricesFresh
<1>1. \A v \in Viewers : AnswerHolds(viewers[v])
  BY DEF ReferenceInv, CachesInv
<1>2. ASSUME NEW x \in Sources PROVE Cardinality({load \in loads : load.source = x}) <= 1
  <2>1. \A a, b \in {load \in loads : load.source = x} : a = b
    BY DEF ReferenceInv, CachesInv, OneLoad
  <2> QED BY <2>1, AtMostOne
<1> QED BY <1>1, <1>2 DEF PricesFresh, AnswerHolds

LEMMA PublishedHonest ==
    ASSUME ReferenceInv
    PROVE  KeeperHonest
<1>1. ASSUME NEW u \in updates, second <= u.expires, second >= u.read
      PROVE  Fresh(u.calendar) /\ Fresh(u.at)
  <2>1. u.calendar \in Int /\ u.at \in Int /\ u.read \in Int /\ second \in Int
    BY DEF ReferenceInv, ReferenceTypes, Files
  <2>2. u.calendar <= u.read /\ u.at <= u.read /\ u.expires = ExpiresAt(u)
    BY DEF ReferenceInv, KeeperInv, ReadInSession
  <2> QED BY <1>1, <2>1, <2>2, ReferenceConstants DEF Fresh, ExpiresAt
<1> QED BY <1>1 DEF KeeperHonest, SessionTaken, PriceTaken, ReferenceInv, KeeperInv

\* The caches of the public server and the keeper's files hold, for any number of requests, times of
\* validity, and moves of the clock (StockReferenceQuotes, VerifiedEthReference, VerifiedStockReference).
THEOREM ShownPricesFresh == ReferenceSpec => [](PricesFresh /\ KeeperHonest)
<1>1. ReferenceInv => PricesFresh /\ KeeperHonest
  BY ShownFresh, PublishedHonest
<1> QED BY <1>1, ReferenceStarts, ReferenceKeeps, PTL DEF ReferenceSpec

----------------------------------------------------------------------------
(* Price references: captures *)

Registered == Multipliers \cup {Unresolved}
Documents == [pc : {"first", "quote", "last", "accepted", "rejected"}, before : Registered, after : Registered, at : Int,
              since : Int, received : Int, held : {"same", "away", "back"}, quoted : Registered]
CaptureRows == [accepted : BOOLEAN, batch : BOOLEAN, members : SUBSET Selections, of : [Selections -> Documents],
                gone : SUBSET {"operator", "timeout", "denied"}, completed : Int, run : Nat]
CollectorStates == [status : {"waiting", "capturing", "STOPPED", "REJECTED", "COMPLETED", "FAILED"}, consecutive : Nat, run : Nat]

Rounds == [started : Int, gone : SUBSET {"operator", "timeout", "denied"}, of : [Selections -> Documents]]
Means == [batch : BOOLEAN, of : SUBSET Selections, rounds : Int, runs : Int, ticks : Int, changes : Int, faults : Int,
          back : Int]

CaptureTypes ==
    /\ wall \in Int
    /\ assets \in [Selections -> Registered]
    /\ round \in Rounds
    /\ collector \in CollectorStates
    /\ captured \in Seq(CaptureRows)
    /\ means \in Means

\* How what a capture has read so far relates to the registry as it is now.
Follows(c, now) ==
    /\ c.pc = "first" => c.held = "same"
    /\ c.pc \in {"quote", "last"} => (c.held = "away" <=> now # c.before)
    /\ c.pc = "last" /\ c.held = "same" => c.quoted = c.before
    /\ c.pc = "accepted" => c.quoted = c.after \/ c.held = "back"

RowHolds(row) ==
    row.accepted =>
       /\ \A s \in row.members : row.of[s].quoted = row.of[s].after \/ row.of[s].held = "back"
       /\ row.batch => /\ \A s \in row.members : row.completed - row.of[s].at \in 0 .. MaxQuoteAge
                       /\ \A s, t \in row.members : row.of[s].at - row.of[t].at <= MaxQuoteSkew

\* A collector that still runs has not been told to go away in this run, and knows how many of its
\* latest rows were rejected.
LoopInv ==
    /\ \A i \in 1 .. Len(captured) : captured[i].run <= collector.run
    /\ collector.status \in {"waiting", "capturing"} =>
          /\ collector.consecutive < RejectionLimit
          /\ \A i \in 1 .. Len(captured) : captured[i].run = collector.run =>
                /\ captured[i].gone \cap {"operator", "denied"} = {}
                /\ i <= Len(captured) - collector.consecutive => captured[Len(captured) - collector.consecutive].accepted

CaptureInv ==
    /\ CaptureTypes
    /\ \A s \in Selections : Follows(round.of[s], assets[s])
    /\ \A i \in 1 .. Len(captured) : RowHolds(captured[i])
    /\ LoopInv
    /\ CollectorYields

LEMMA CaptureConstants ==
    MaxQuoteAge \in Nat /\ MaxQuoteSkew \in Nat /\ MaxCaptureSpan \in Nat /\ RejectionLimit \in Nat \ {0}
BY CaptureAssumption

LEMMA MeansKept ==
    ASSUME means \in Means, NEW what \in {"rounds", "runs", "ticks", "changes", "faults", "back"}, UseMeans(what)
    PROVE  means' \in Means /\ means'.of = means.of /\ means'.batch = means.batch
BY DEF Means, UseMeans

LEMMA FreshRounds ==
    /\ Unread \in Documents /\ Unread.pc = "first" /\ Unread.held = "same"
    /\ Rejected \in Documents /\ Rejected.pc = "rejected"
    /\ NoRound \in Rounds /\ \A s \in Selections : NoRound.of[s] = Unread
<1>1. Unread \in Documents /\ Unread.pc = "first" /\ Unread.held = "same"
  BY DEF Unread, Documents, Registered
<1>2. Rejected \in Documents /\ Rejected.pc = "rejected"
  BY <1>1 DEF Rejected, Documents
<1>3. NoRound \in Rounds /\ \A s \in Selections : NoRound.of[s] = Unread
  BY <1>1 DEF NoRound, Rounds
<1> QED BY <1>1, <1>2, <1>3

\* A round that has not begun agrees with any registry.
LEMMA FreshFollows ==
    ASSUME NEW now
    PROVE  Follows(Unread, now) /\ Follows(Rejected, now)
BY FreshRounds DEF Follows

LEMMA CaptureStarts == CaptureInit => CaptureInv
<1> SUFFICES ASSUME CaptureInit PROVE CaptureInv
  OBVIOUS
<1>1. means \in Means
  BY CaptureAssumption DEF CaptureInit, Means
<1>2. CaptureTypes
  <2>1. captured \in Seq(CaptureRows)
    BY DEF CaptureInit
  <2>2. collector \in CollectorStates
    BY DEF CaptureInit, CollectorStates
  <2> QED BY <1>1, <2>1, <2>2, FreshRounds DEF CaptureInit, CaptureTypes, Registered
<1>3. \A s \in Selections : Follows(round.of[s], assets[s])
  BY FreshRounds, FreshFollows DEF CaptureInit
<1>4. captured = <<>> /\ Len(captured) = 0
  BY DEF CaptureInit
<1>5. 1 .. Len(captured) = {}
  BY <1>4
<1>6. LoopInv
  BY <1>5, CaptureConstants DEF CaptureInit, LoopInv
<1>7. CollectorYields
  BY <1>5 DEF CollectorYields
<1> QED BY <1>2, <1>3, <1>5, <1>6, <1>7 DEF CaptureInv

\* The journal and the loop rest.
LEMMA JournalRests ==
    ASSUME CaptureInv, UNCHANGED <<collector, captured>>
    PROVE  LoopInv' /\ CollectorYields' /\ (\A i \in 1 .. Len(captured) : RowHolds(captured[i]))'
BY DEF CaptureInv, LoopInv, CollectorYields, RowHolds

\* One member of the round moves on.
LEMMA MemberMoves ==
    ASSUME CaptureInv, NEW s \in Selections, NEW c \in Documents, Member(s, c), Follows(c, assets'[s]),
           assets' \in [Selections -> Registered], \A t \in Selections : t # s => assets'[t] = assets[t]
    PROVE  round' \in Rounds /\ \A t \in Selections : Follows(round'.of[t], assets'[t])
<1>1. round \in Rounds /\ round.of \in [Selections -> Documents] /\ \A t \in Selections : Follows(round.of[t], assets[t])
  BY DEF CaptureInv, CaptureTypes, Rounds
<1>2. PICK of \in [Selections -> Documents] : of = [round.of EXCEPT ![s] = c]
  BY <1>1
<1>3. round' = [round EXCEPT !.of = of]
  BY <1>1, <1>2 DEF Member, Rounds
<1>4. round' \in Rounds /\ round'.of = of
  BY <1>1, <1>3 DEF Rounds
<1>5. \A t \in Selections : of[t] = IF t = s THEN c ELSE round.of[t]
  BY <1>1, <1>2
<1> QED BY <1>1, <1>4, <1>5

LEMMA ReadRegistryKeeps ==
    ASSUME CaptureInv, NEW s \in Selections, ReadRegistry(s)
    PROVE  CaptureInv'
<1>1. CaptureTypes /\ round.of[s] \in Documents /\ wall \in Int /\ assets[s] \in Registered /\ Follows(round.of[s], assets[s])
  BY DEF CaptureInv, CaptureTypes, Rounds
<1>2. PICK c : c = [round.of[s] EXCEPT !.pc = "quote", !.before = assets[s], !.since = wall, !.received = wall]
  OBVIOUS
<1>3. Member(s, c) /\ round.of[s].pc = "first" /\ UNCHANGED <<wall, assets, collector, captured, means>>
  BY <1>2 DEF ReadRegistry
<1>4. c \in Documents /\ c.pc = "quote" /\ c.before = assets[s] /\ c.held = round.of[s].held
  BY <1>1, <1>2 DEF Documents
<1>5. Follows(c, assets[s])
  BY <1>1, <1>3, <1>4 DEF Follows
<1>6. round' \in Rounds /\ \A t \in Selections : Follows(round'.of[t], assets'[t])
  BY <1>1, <1>3, <1>4, <1>5, MemberMoves DEF CaptureTypes
<1> QED BY <1>1, <1>3, <1>6, JournalRests DEF CaptureInv, CaptureTypes

LEMMA ReadQuoteKeeps ==
    ASSUME CaptureInv, NEW s \in Selections, NEW at \in Int, ReadQuote(s, at)
    PROVE  CaptureInv'
<1>1. CaptureTypes /\ round.of[s] \in Documents /\ wall \in Int /\ assets[s] \in Registered /\ Follows(round.of[s], assets[s])
  BY DEF CaptureInv, CaptureTypes, Rounds
<1>2. PICK c : c = [round.of[s] EXCEPT !.pc = "last", !.at = at, !.received = wall, !.quoted = assets[s]]
  OBVIOUS
<1>3. Member(s, c) /\ round.of[s].pc = "quote" /\ UNCHANGED <<wall, assets, collector, captured, means>>
  BY <1>2 DEF ReadQuote
<1>4. /\ c \in Documents /\ c.pc = "last" /\ c.before = round.of[s].before /\ c.held = round.of[s].held
      /\ c.quoted = assets[s]
  BY <1>1, <1>2 DEF Documents
<1>5. Follows(c, assets[s])
  BY <1>1, <1>3, <1>4 DEF Follows
<1>6. round' \in Rounds /\ \A t \in Selections : Follows(round'.of[t], assets'[t])
  BY <1>1, <1>3, <1>4, <1>5, MemberMoves DEF CaptureTypes
<1> QED BY <1>1, <1>3, <1>6, JournalRests DEF CaptureInv, CaptureTypes

LEMMA ReadAgainKeeps ==
    ASSUME CaptureInv, NEW s \in Selections, ReadAgain(s)
    PROVE  CaptureInv'
<1>1. CaptureTypes /\ round.of[s] \in Documents /\ wall \in Int /\ assets[s] \in Registered /\ Follows(round.of[s], assets[s])
  BY DEF CaptureInv, CaptureTypes, Rounds
<1>2. PICK c : c = [round.of[s] EXCEPT !.after = assets[s], !.received = wall]
  OBVIOUS
<1>3. PICK d : d = IF wall >= round.of[s].received /\ SameObservation(c) /\ QuoteFresh(c)
                   THEN [c EXCEPT !.pc = "accepted"] ELSE Rejected
  OBVIOUS
<1>4. Member(s, d) /\ c.pc = "last" /\ UNCHANGED <<wall, assets, collector, captured, means>>
  BY <1>2, <1>3 DEF ReadAgain
<1>5. /\ c \in Documents /\ c.pc = round.of[s].pc /\ c.before = round.of[s].before /\ c.held = round.of[s].held
      /\ c.after = assets[s] /\ c.quoted = round.of[s].quoted
  BY <1>1, <1>2 DEF Documents
<1>6. PICK e : e = [c EXCEPT !.pc = "accepted"]
  OBVIOUS
<1>7. /\ e \in Documents /\ e.pc = "accepted" /\ e.held = c.held /\ e.after = c.after /\ e.quoted = c.quoted
  BY <1>5, <1>6 DEF Documents
<1>8. c.held \in {"same", "away", "back"}
  BY <1>5 DEF Documents
<1>9. c.before = c.after => Follows(e, assets[s])
  BY <1>1, <1>4, <1>5, <1>7, <1>8 DEF Follows
<1>10. d \in Documents /\ Follows(d, assets[s])
  BY <1>3, <1>6, <1>7, <1>9, FreshRounds, FreshFollows DEF SameObservation
<1>11. round' \in Rounds /\ \A t \in Selections : Follows(round'.of[t], assets'[t])
  BY <1>1, <1>4, <1>10, MemberMoves DEF CaptureTypes
<1> QED BY <1>1, <1>4, <1>11, JournalRests DEF CaptureInv, CaptureTypes

\* Rounds that are cut short: what was not accepted is rejected.
LEMMA CutShort ==
    ASSUME CaptureInv, \/ \E s \in Members, why \in {"denied", "failed"} : CaptureFails(s, why)
                       \/ \E why \in {"operator", "timeout"} : Abort(why)
    PROVE  CaptureInv'
<1>1. /\ CaptureTypes /\ round \in Rounds /\ means \in Means /\ round.of \in [Selections -> Documents]
      /\ \A s \in Selections : Follows(round.of[s], assets[s])
  BY DEF CaptureInv, CaptureTypes, Rounds
<1>2. UseMeans("faults") /\ UNCHANGED <<wall, assets, collector, captured>>
  BY DEF CaptureFails, Abort
<1>3. means' \in Means
  BY <1>1, <1>2, MeansKept
<1> DEFINE Cut(of, gone) ==
             /\ round' = [round EXCEPT !.of = of, !.gone = gone]
             /\ \A t \in Selections : of[t] = round.of[t] \/ of[t] = Rejected
           Aborted == \E of \in [Selections -> Documents], gone \in SUBSET {"operator", "timeout", "denied"} : Cut(of, gone)
<1>4. Aborted
  <2>1. ASSUME NEW s \in Members, NEW why, CaptureFails(s, why) PROVE Aborted
    <3>1. s \in Selections
      BY <1>1 DEF Members, Means
    <3>2. PICK of \in [Selections -> Documents] : of = [round.of EXCEPT ![s] = Rejected]
      BY <1>1, <3>1, FreshRounds
    <3>3. \A t \in Selections : of[t] = round.of[t] \/ of[t] = Rejected
      BY <1>1, <3>1, <3>2
    <3>4. PICK gone \in SUBSET {"operator", "timeout", "denied"} : gone = IF why = "denied" THEN {"denied"} ELSE {}
      OBVIOUS
    <3>5. round' = [round EXCEPT !.of = of, !.gone = gone]
      BY <1>1, <2>1, <3>2, <3>4 DEF CaptureFails, Rounds
    <3> QED BY <3>3, <3>5
  <2>2. ASSUME NEW why \in {"operator", "timeout"}, Abort(why) PROVE Aborted
    <3>1. PICK of \in [Selections -> Documents] :
             of = [s \in Selections |-> IF round.of[s].pc = "accepted" THEN round.of[s] ELSE Rejected]
      BY <1>1, FreshRounds
    <3>2. PICK gone \in SUBSET {"operator", "timeout", "denied"} : gone = round.gone \cup {why}
      BY <1>1 DEF Rounds
    <3>3. round' = [round EXCEPT !.of = of, !.gone = gone]
      BY <1>1, <2>2, <3>1, <3>2 DEF Abort, Rounds
    <3> QED BY <3>1, <3>3
  <2> QED BY <2>1, <2>2
<1>5. PICK of \in [Selections -> Documents], gone \in SUBSET {"operator", "timeout", "denied"} : Cut(of, gone)
  BY <1>4
<1>6. round' \in Rounds /\ round'.of = of
  BY <1>1, <1>5 DEF Rounds
<1>7. \A t \in Selections : Follows(round'.of[t], assets'[t])
  BY <1>1, <1>2, <1>5, <1>6, FreshFollows
<1> QED BY <1>1, <1>2, <1>3, <1>6, <1>7, JournalRests DEF CaptureInv, CaptureTypes

LEMMA ChangeRegistryKeeps ==
    ASSUME CaptureInv, NEW s \in Selections, NEW m \in Registered, ChangeRegistry(s, m)
    PROVE  CaptureInv'
<1>1. CaptureTypes /\ means \in Means /\ assets \in [Selections -> Registered] /\ round.of[s] \in Documents
      /\ Follows(round.of[s], assets[s])
  BY DEF CaptureInv, CaptureTypes, Rounds
<1>2. m # assets[s] /\ assets' = [assets EXCEPT ![s] = m] /\ UseMeans("changes") /\ UNCHANGED <<wall, collector, captured>>
  BY DEF ChangeRegistry
<1>3. means' \in Means
  BY <1>1, <1>2, MeansKept
<1>4. assets' \in [Selections -> Registered] /\ assets'[s] = m /\ \A t \in Selections : t # s => assets'[t] = assets[t]
  BY <1>1, <1>2
<1>5. PICK h : h = IF round.of[s].pc \in {"quote", "last"} THEN StillHeld(round.of[s], m) ELSE round.of[s].held
  OBVIOUS
<1>6. /\ h \in {"same", "away", "back"}
      /\ round.of[s].pc \in {"quote", "last"} => (h = "away" <=> m # round.of[s].before) /\ h # "same"
      /\ round.of[s].pc \notin {"quote", "last"} => h = round.of[s].held
  <2>1. round.of[s].held \in {"same", "away", "back"}
    BY <1>1 DEF Documents
  <2> QED BY <1>1, <1>2, <1>5, <2>1 DEF StillHeld, Follows
<1>7. PICK c : c = [round.of[s] EXCEPT !.held = h]
  OBVIOUS
<1>8. Member(s, c)
  BY <1>1, <1>5, <1>7 DEF ChangeRegistry, Documents
<1>9. /\ c \in Documents /\ c.pc = round.of[s].pc /\ c.before = round.of[s].before /\ c.held = h
      /\ c.after = round.of[s].after /\ c.quoted = round.of[s].quoted
  BY <1>1, <1>6, <1>7 DEF Documents
<1>10. Follows(c, m)
  BY <1>1, <1>6, <1>9 DEF Follows
<1>11. round' \in Rounds /\ \A t \in Selections : Follows(round'.of[t], assets'[t])
  BY <1>4, <1>8, <1>9, <1>10, MemberMoves
<1> QED BY <1>1, <1>2, <1>3, <1>4, <1>11, JournalRests DEF CaptureInv, CaptureTypes

\* The round is over or begins, without a row.
LEMMA LoopSteps ==
    ASSUME CaptureInv, AppendFails \/ NextRound \/ StopWaiting \/ StartCollector
    PROVE  CaptureInv'
<1>1. CaptureTypes /\ means \in Means /\ wall \in Int /\ collector \in CollectorStates /\ round \in Rounds
  BY DEF CaptureInv, CaptureTypes
<1>2. means' \in Means
  BY <1>1, MeansKept DEF AppendFails, NextRound, StopWaiting, StartCollector
<1>3. UNCHANGED <<wall, assets, captured>>
  BY DEF AppendFails, NextRound, StopWaiting, StartCollector
<1>4. round' \in Rounds /\ \A s \in Selections : Follows(round'.of[s], assets'[s])
  <2>1. round' = round \/ round' = NoRound \/ round' = [NoRound EXCEPT !.started = wall]
    BY DEF AppendFails, NextRound, StopWaiting, StartCollector
  <2>2. [NoRound EXCEPT !.started = wall] \in Rounds /\ [NoRound EXCEPT !.started = wall].of = NoRound.of
    BY <1>1, FreshRounds DEF Rounds
  <2> QED BY <1>1, <1>3, <2>1, <2>2, FreshRounds, FreshFollows DEF CaptureInv
<1>5. /\ collector' \in CollectorStates
      /\ \/ collector'.run = collector.run /\ collector'.status \notin {"waiting", "capturing"}
         \/ /\ collector'.run = collector.run /\ collector'.consecutive = collector.consecutive
            /\ collector.status = "waiting"
         \/ collector'.run = collector.run + 1 /\ collector'.consecutive = 0
  <2>1. CASE AppendFails \/ StopWaiting
    BY <1>1, <2>1 DEF AppendFails, StopWaiting, CollectorStates
  <2>2. CASE NextRound
    BY <1>1, <2>2 DEF NextRound, CollectorStates
  <2>3. CASE StartCollector
    <3>1. PICK n \in Nat : n = collector.run + 1
      BY <1>1 DEF CollectorStates
    <3>2. collector' = [status |-> "waiting", consecutive |-> 0, run |-> n]
      BY <2>3, <3>1 DEF StartCollector
    <3> QED BY <3>1, <3>2 DEF CollectorStates
  <2> QED BY <2>1, <2>2, <2>3
<1>6. captured \in Seq(CaptureRows) /\ \A i \in 1 .. Len(captured) : captured[i].run \in Nat
  <2>1. captured \in Seq(CaptureRows)
    BY <1>1 DEF CaptureTypes
  <2>2. \A i \in 1 .. Len(captured) : captured[i] \in CaptureRows
    BY <2>1
  <2> QED BY <2>1, <2>2 DEF CaptureRows
<1>7. LoopInv'
  <2>1. collector.run \in Nat /\ LoopInv
    BY <1>1 DEF CollectorStates, CaptureInv
  <2> QED BY <1>3, <1>5, <1>6, <2>1, CaptureConstants DEF LoopInv
<1>8. CollectorYields' /\ (\A i \in 1 .. Len(captured) : RowHolds(captured[i]))'
  BY <1>3 DEF CaptureInv, CollectorYields, RowHolds
<1> QED BY <1>1, <1>2, <1>3, <1>4, <1>5, <1>7, <1>8 DEF CaptureInv, CaptureTypes

\* The row of an accepted round.
LEMMA AcceptedRowHolds ==
    ASSUME CaptureInv, NEW row, row.members = means.of, row.batch = means.batch, row.of = round.of, row.completed = wall,
           RoundAccepted
    PROVE  RowHolds(row)
<1>1. means.of \subseteq Selections /\ wall \in Int /\ \A s \in Selections : round.of[s].at \in Int
  BY DEF CaptureInv, CaptureTypes, Means, Rounds, Documents
<1>2. \A s \in means.of : round.of[s].pc = "accepted"
  BY DEF RoundAccepted, Derives, Members
<1>3. \A s \in means.of : round.of[s].quoted = round.of[s].after \/ round.of[s].held = "back"
  BY <1>1, <1>2 DEF CaptureInv, Follows
<1>4. means.batch => /\ \A s \in means.of : wall - round.of[s].at \in 0 .. MaxQuoteAge
                     /\ \A s, t \in means.of : round.of[s].at - round.of[t].at <= MaxQuoteSkew
  BY <1>1, CaptureConstants DEF RoundAccepted, Derives, Members
<1> QED BY <1>3, <1>4 DEF RowHolds

LEMMA AppendRowKeeps ==
    ASSUME CaptureInv, AppendRow
    PROVE  CaptureInv'
<1>1. /\ CaptureTypes /\ means \in Means /\ wall \in Int /\ collector \in CollectorStates /\ round \in Rounds
      /\ captured \in Seq(CaptureRows) /\ LoopInv /\ CollectorYields
  BY DEF CaptureInv, CaptureTypes
<1>2. /\ collector.run \in Nat /\ collector.consecutive \in Nat /\ collector.status = "capturing"
      /\ UNCHANGED <<wall, assets, means>> /\ round' = NoRound
  BY <1>1 DEF CollectorStates, AppendRow, Running
<1>3. PICK acc \in BOOLEAN : acc = RoundAccepted
  BY DEF RoundAccepted
<1>4. PICK of \in [Selections -> Documents] : of = IF acc THEN round.of ELSE NoRound.of
  BY <1>1, FreshRounds DEF Rounds
<1>5. PICK row : row = [accepted |-> acc, batch |-> means.batch, members |-> means.of, of |-> of,
                        gone |-> round.gone, completed |-> wall, run |-> collector.run]
  OBVIOUS
<1>6. captured' = Append(captured, row)
  BY <1>3, <1>4, <1>5, Zenon DEF AppendRow, Members
<1>7. /\ row.accepted = acc /\ row.batch = means.batch /\ row.members = means.of /\ row.of = of
      /\ row.gone = round.gone /\ row.completed = wall /\ row.run = collector.run
  BY <1>5
<1>8. row \in CaptureRows
  <2>1. means.batch \in BOOLEAN /\ means.of \subseteq Selections /\ round.gone \subseteq {"operator", "timeout", "denied"}
    BY <1>1 DEF Means, Rounds
  <2> QED BY <1>1, <1>2, <1>5, <2>1 DEF CaptureRows
<1>9. PICK len \in Nat : len = Len(captured)
  BY <1>1
<1>10. /\ captured' \in Seq(CaptureRows) /\ Len(captured') = len + 1 /\ captured'[len + 1] = row
       /\ \A i \in 1 .. len : captured'[i] = captured[i]
  BY <1>1, <1>6, <1>8, <1>9
<1>11. RowHolds(row)
  <2>1. CASE acc
    BY <1>3, <1>4, <1>7, <2>1, AcceptedRowHolds
  <2>2. CASE ~acc
    BY <1>7, <2>2 DEF RowHolds
  <2> QED BY <2>1, <2>2
<1>12. \A i \in 1 .. Len(captured') : RowHolds(captured'[i])
  BY <1>9, <1>10, <1>11 DEF CaptureInv
<1>13. PICK c \in Nat : c = Consecutive(acc)
  BY <1>2 DEF Consecutive
<1>14. collector' = [collector EXCEPT !.consecutive = c, !.status = Ends(c)]
  BY <1>3, <1>13, Zenon DEF AppendRow
<1>15. /\ Ends(c) \in {"waiting", "STOPPED", "REJECTED", "COMPLETED"}
       /\ Ends(c) = "waiting" => c < RejectionLimit /\ "operator" \notin round.gone /\ "denied" \notin round.gone
  BY CaptureConstants DEF Ends
<1>16. /\ collector' \in CollectorStates /\ collector'.run = collector.run /\ collector'.consecutive = c
       /\ collector'.status = Ends(c)
  BY <1>1, <1>14, <1>15 DEF CollectorStates
<1>17. \A i \in 1 .. len : captured[i].run \in Nat /\ captured[i].run <= collector.run
  <2>1. \A i \in 1 .. len : captured[i] \in CaptureRows
    BY <1>1, <1>9
  <2>2. \A i \in 1 .. len : captured[i].run \in Nat
    BY <2>1 DEF CaptureRows
  <2> QED BY <1>1, <1>9, <2>2 DEF LoopInv
<1>18. /\ collector.consecutive < RejectionLimit
       /\ \A i \in 1 .. len : captured[i].run = collector.run =>
             /\ captured[i].gone \cap {"operator", "denied"} = {}
             /\ i <= len - collector.consecutive => captured[len - collector.consecutive].accepted
  BY <1>1, <1>2, <1>9 DEF LoopInv
<1>19. LoopInv'
  <2>1. \A i \in 1 .. Len(captured') : captured'[i].run <= collector'.run
    BY <1>2, <1>7, <1>10, <1>16, <1>17
  <2>2. ASSUME collector'.status = "waiting", NEW i \in 1 .. Len(captured'), captured'[i].run = collector'.run
        PROVE  /\ captured'[i].gone \cap {"operator", "denied"} = {}
               /\ i <= Len(captured') - c => captured'[Len(captured') - c].accepted
    <3>1. CASE i = len + 1
      <4>1. captured'[i] = row /\ row.gone = round.gone
        BY <1>7, <1>10, <3>1
      <4>2. row.gone \cap {"operator", "denied"} = {}
        BY <1>15, <1>16, <2>2, <4>1
      <4>3. i <= Len(captured') - c => c = 0
        BY <1>10, <3>1
      <4>4. c = 0 => acc
        BY <1>2, <1>13 DEF Consecutive
      <4> QED BY <1>7, <1>10, <3>1, <4>1, <4>2, <4>3, <4>4
    <3>2. CASE i \in 1 .. len
      <4>1. captured'[i] = captured[i] /\ captured[i].run = collector.run
        BY <1>10, <1>16, <2>2, <3>2
      <4>2. CASE acc
        <5>1. c = 0
          BY <1>13, <4>2 DEF Consecutive
        <5>2. Len(captured') - c = len + 1
          BY <1>10, <5>1
        <5>3. captured'[len + 1].accepted
          BY <1>7, <1>10, <4>2
        <5> QED BY <1>18, <3>2, <4>1, <5>2, <5>3
      <4>3. CASE ~acc
        <5>1. c = collector.consecutive + 1
          BY <1>13, <4>3 DEF Consecutive
        <5>2. Len(captured') - c = len - collector.consecutive
          BY <1>2, <1>10, <5>1
        <5>3. ASSUME i <= len - collector.consecutive PROVE captured'[len - collector.consecutive].accepted
          <6>1. len - collector.consecutive \in 1 .. len
            BY <1>2, <3>2, <5>3
          <6> QED BY <1>10, <1>18, <3>2, <4>1, <5>3, <6>1
        <5> QED BY <1>18, <3>2, <4>1, <5>2, <5>3
      <4> QED BY <4>2, <4>3
    <3> QED BY <1>10, <2>2, <3>1, <3>2
  <2>3. collector'.status \in {"waiting", "capturing"} => collector'.status = "waiting" /\ collector'.consecutive < RejectionLimit
    BY <1>15, <1>16
  <2> QED BY <1>16, <2>1, <2>2, <2>3 DEF LoopInv
<1>20. CollectorYields'
  <2> SUFFICES ASSUME NEW i \in 1 .. len + 1, NEW j \in 1 .. len + 1, i < j, captured'[i].run = captured'[j].run
               PROVE  /\ captured'[i].gone \cap {"operator", "denied"} = {}
                      /\ j - i >= RejectionLimit => \E k \in i .. j - 1 : captured'[k].accepted
    BY <1>10 DEF CollectorYields
  <2>1. i \in 1 .. len /\ captured'[i] = captured[i]
    BY <1>10
  <2>2. CASE j \in 1 .. len
    <3>1. captured'[j] = captured[j] /\ captured[i].run = captured[j].run
      BY <1>10, <2>1, <2>2
    <3>2. /\ captured[i].gone \cap {"operator", "denied"} = {}
          /\ j - i >= RejectionLimit => \E k \in i .. j - 1 : captured[k].accepted
      BY <1>1, <1>9, <2>1, <2>2, <3>1 DEF CollectorYields
    <3>3. \A k \in i .. j - 1 : captured'[k] = captured[k]
      BY <1>10, <2>2
    <3> QED BY <2>1, <3>2, <3>3
  <2>3. CASE j = len + 1
    <3>1. captured[i].run = collector.run
      BY <1>7, <1>10, <2>1, <2>3
    <3>2. ASSUME j - i >= RejectionLimit PROVE \E k \in i .. j - 1 : captured'[k].accepted
      <4>1. PICK k \in 1 .. len : k = len - collector.consecutive /\ i <= k
        BY <1>2, <1>18, <2>1, <2>3, <3>2, CaptureConstants
      <4>2. captured[k].accepted
        BY <1>18, <2>1, <3>1, <4>1
      <4>3. k \in i .. j - 1 /\ captured'[k].accepted
        BY <1>10, <2>3, <4>1, <4>2
      <4> QED BY <4>3
    <3> QED BY <1>18, <2>1, <3>1, <3>2
  <2> QED BY <2>2, <2>3
<1>21. round' \in Rounds /\ \A s \in Selections : Follows(round'.of[s], assets'[s])
  BY <1>2, FreshRounds, FreshFollows
<1> QED BY <1>1, <1>2, <1>10, <1>12, <1>16, <1>19, <1>20, <1>21 DEF CaptureInv, CaptureTypes

LEMMA CaptureKeeps == CaptureInv /\ [CaptureNext]_captureVars => CaptureInv'
<1> SUFFICES ASSUME CaptureInv, [CaptureNext]_captureVars PROVE CaptureInv'
  OBVIOUS
<1>1. Members \subseteq Selections /\ means \in Means /\ wall \in Int
  BY DEF CaptureInv, CaptureTypes, Means, Members
<1>2. CASE UNCHANGED captureVars \/ SetClock
  <2>1. means' \in Means /\ wall' \in Int
    BY <1>1, <1>2, MeansKept DEF captureVars, SetClock
  <2>2. UNCHANGED <<assets, round, collector, captured>>
    BY <1>2 DEF captureVars, SetClock
  <2> QED BY <2>1, <2>2, JournalRests DEF CaptureInv, CaptureTypes
<1>3. ASSUME NEW s \in Members, NEW at \in 0 .. wall + 1, ReadQuote(s, at) PROVE CaptureInv'
  <2>1. s \in Selections /\ at \in Int
    BY <1>1
  <2> QED BY <1>3, <2>1, ReadQuoteKeeps
<1>4. ASSUME NEW s \in Members, NEW m \in Multipliers \cup {Unresolved}, ChangeRegistry(s, m) PROVE CaptureInv'
  BY <1>1, <1>4, ChangeRegistryKeeps DEF Registered
<1>5. ASSUME NEW s \in Members, ReadRegistry(s) \/ ReadAgain(s) PROVE CaptureInv'
  BY <1>1, <1>5, ReadRegistryKeeps, ReadAgainKeeps
<1> QED BY <1>2, <1>3, <1>4, <1>5, CutShort, AppendRowKeeps, LoopSteps DEF CaptureNext

\* Accepted rows and the end of a collector hold, for any assets, policy, clock and faults
\* (captureReference, captureReferenceBatch, collectReferences, collectReferenceBatches).
THEOREM CapturesHonest == CaptureSpec => [](RowsHold /\ CollectorYields)
<1>1. CaptureInv => RowsHold /\ CollectorYields
  BY DEF CaptureInv, RowsHold, RowHolds
<1> QED BY <1>1, CaptureStarts, CaptureKeeps, PTL DEF CaptureSpec

----------------------------------------------------------------------------
(* Price references together *)

LEMMA ReferencesApart ==
    [ToolsNext]_toolsVars => [ReferenceNext]_referenceVars /\ [CaptureNext]_captureVars
  BY DEF ToolsNext, toolsVars, sideVars

\* A price that is shown, published to the feed or accepted for paper trading is fresh and of its
\* source, and a collector that must stop stops, whatever is asked for, fails or is changed in
\* between (stock-reference.ts, reference-feed.ts, captureReferenceBatch, collectReferenceBatches).
THEOREM PricesStayHonest == ToolsSpec => []PricesHonest
<1>1. ToolsInit => ReferenceInit /\ CaptureInit
  BY DEF ToolsInit
<1>2. PricesFresh /\ KeeperHonest /\ RowsHold /\ CollectorYields => PricesHonest
  BY DEF PricesHonest
<1> QED
  BY <1>1, <1>2, ReferencesApart, ShownPricesFresh, CapturesHonest, PTL DEF ToolsSpec, ReferenceSpec, CaptureSpec, toolsVars
=============================================================================
