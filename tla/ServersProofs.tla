----------------------------- MODULE ServersProofs -----------------------------
(***************************************************************************)
(* The invariants of the local servers and the owner's page, for all       *)
(* values of their constants, component by component:                      *)
(*   - the owner's page.  The record of what the wallet was asked for is   *)
(*     written by a call that goes on when its card is gone, so PageInv    *)
(*     follows the calls: which of them belong to the card on the page,    *)
(*     and that a call before its record is the only one;                  *)
(*   - logins.  AuthInv follows a challenge from its issue over its one    *)
(*     verification to its one session;                                    *)
(*   - the testnet's server.  ServerInv says what of a backup under way is *)
(*     already what the databases hold, and that nothing writes meanwhile; *)
(*   - the paper service.  ServiceInv says the same of its backups against *)
(*     a journal that grows while they are made, and counts the batches of *)
(*     every prefix of that journal.                                       *)
(***************************************************************************)
EXTENDS MCServers, FiniteSetTheorems, WellFoundedInduction, TLAPS

----------------------------------------------------------------------------
(* The owner's page: the inductive invariant *)

States == {"previewed", "asked", "sent", "rejected", "done", "failed"}
Previewed == [owner : Accounts, tracked : BOOLEAN, state : States]
Intents == [op : Nat, hash : BOOLEAN]
Logins == [step : {"idle", "asked", "signing", "verifying", "checking", "refreshing"}, owner : Keys, current : BOOLEAN]
Readers == [owner : Keys, phase : {"DISCONNECTED", "LOADING", "READY", "STALE"}, reading : BOOLEAN]
Cards == [up : BOOLEAN, key : Keys, busy : BOOLEAN, pending : Intents, prepared : Nat]
Confirms == [op : Nat, key : Keys, step : {"latest", "assert", "asked", "observe"}, live : BOOLEAN, current : BOOLEAN]
Marks == [overtaken : BOOLEAN, troubled : BOOLEAN, kept : Keys]
Purses == [kinds : SUBSET BOOLEAN, ops : Nat, changes : Nat, reloads : Nat, fails : Nat]

PageTypeOK ==
    /\ selected \in Accounts /\ cookie \in Keys /\ client \in Keys
    /\ storage \in [Keys -> Intents]
    /\ ops \in Seq(Previewed)
    /\ login \in Logins
    /\ logouts \in Nat
    /\ reader \in Readers
    /\ card \in Cards
    /\ confirms \subseteq Confirms
    /\ purse \in Purses
    /\ marks \in Marks

\* The card is of the reader's owner, or has lost the client's; a login under way has no reader yet.
CardOfSession ==
    /\ card.up => reader.owner # Nobody /\ card.key \in {reader.owner, Nobody} /\ (card.key = Nobody => client = Nobody)
    /\ reader.reading => reader.owner # Nobody
    /\ reader.owner # Nobody => client \in {Nobody, reader.owner} /\ login.step \in {"idle", "refreshing"}
    /\ card.prepared # 0 => card.up /\ card.prepared \in OpIds /\ ops[card.prepared].owner = reader.owner

\* At most one call belongs to the card, which is busy for it.
LiveCalls ==
    /\ \A c \in confirms : c.op \in OpIds /\ (c.live => card.up /\ card.busy /\ ops[c.op].owner = reader.owner)
    /\ \A c, d \in confirms : c.live /\ d.live => c = d

\* The wallet may still send it, or sent it and the server follows it.
Open(i) == ops[i].state = "asked" \/ (ops[i].tracked /\ ops[i].state = "sent")

\* An intent is about an operation of the owner it is kept for; it has a hash once that was sent.
Known(intent, a) ==
    /\ intent.op # 0 => intent.op \in OpIds /\ ops[intent.op].owner = a
    /\ intent.hash => intent.op # 0 /\ ops[intent.op].state \in {"sent", "done", "failed"}

Unsent(i) == [op |-> i, hash |-> FALSE]

\* A call before its record is the only one.  It belongs to the card unless nobody is logged in; nothing
\* of its owner is open; and between record and prompt the record is its own.
BeforeRecord ==
    /\ \A c, d \in confirms : c.step \in {"latest", "assert"} /\ d.step \in {"latest", "assert"} => c = d
    /\ \A c \in confirms : c.step \in {"latest", "assert"} =>
          /\ ~c.live => reader.owner = Nobody
          /\ c.key \in {ops[c.op].owner, Nobody}
          /\ c.key = Nobody => c.step = "latest" /\ client = Nobody /\ (c.live => card.key = Nobody)
          /\ c.key # Nobody => \A i \in OpIds : ops[i].owner = c.key => ~Open(i)
          /\ c.step = "assert" => storage[c.key] = Unsent(c.op)
          /\ c.live /\ card.key # Nobody => card.pending = IF c.step = "assert" THEN Unsent(c.op) ELSE NoIntent

\* A prompt is open under the key of its owner, and no other call asks for the same.
Prompts ==
    /\ \A c \in confirms : c.step = "asked" => ops[c.op].state = "asked" /\ c.key = ops[c.op].owner
    /\ \A c, d \in confirms : c.step = "asked" /\ d.step = "asked" /\ c.op = d.op => c = d

\* What is open is in its owner's record, and on the card.
IntentsRecorded ==
    /\ \A a \in Accounts : Known(storage[a], a)
    /\ \A i \in OpIds : Open(i) => storage[ops[i].owner].op = i

Shown ==
    card.up /\ card.key # Nobody =>
        /\ Known(card.pending, card.key)
        /\ \A i \in OpIds : ops[i].owner = card.key /\ Open(i) => card.pending.op = i

\* A session is the page's or was found at its load, or is a login's or a logout's to end.
SessionAccounted ==
    ~marks.troubled =>
        /\ login.step = "checking" => cookie \in {Nobody, login.owner}
        /\ login.step # "checking" /\ logouts = 0 => cookie \in {Nobody, reader.owner, marks.kept}

PageInv ==
    /\ PageTypeOK
    /\ CardOfSession
    /\ LiveCalls
    /\ ~marks.overtaken => BeforeRecord /\ Prompts /\ IntentsRecorded /\ Shown

----------------------------------------------------------------------------
(* Types *)

\* A transaction changes state; nothing else of the previewed operations does.
LEMMA OpMoves ==
    ASSUME PageTypeOK, NEW i \in OpIds, NEW to \in States, ops' = [ops EXCEPT ![i].state = to]
    PROVE  /\ ops' \in Seq(Previewed)
           /\ OpIds' = OpIds
           /\ ops'[i].state = to
           /\ \A j \in OpIds : ops'[j].owner = ops[j].owner /\ (ops'[j].tracked <=> ops[j].tracked)
           /\ \A j \in OpIds : j # i => ops'[j].state = ops[j].state
  <1>0. ops \in Seq(Previewed) /\ i \in DOMAIN ops /\ ops[i] \in Previewed
    BY DEF PageTypeOK, OpIds
  <1>1. PICK r : r = [ops[i] EXCEPT !.state = to]
    OBVIOUS
  <1>2. r \in Previewed /\ r.state = to /\ r.owner = ops[i].owner /\ (r.tracked <=> ops[i].tracked)
    BY <1>0, <1>1 DEF Previewed
  <1>3. ops' = [ops EXCEPT ![i] = r]
    BY <1>1
  <1>4. ops' \in Seq(Previewed) /\ DOMAIN ops' = DOMAIN ops /\ ops'[i] = r /\ \A j \in DOMAIN ops : j # i => ops'[j] = ops[j]
    BY <1>0, <1>2, <1>3
  <1> QED BY <1>2, <1>4 DEF OpIds

LEMMA OpAdded ==
    ASSUME PageTypeOK, NEW r \in Previewed, ops' = Append(ops, r)
    PROVE  /\ ops' \in Seq(Previewed)
           /\ OpIds' = OpIds \cup {Len(ops) + 1}
           /\ Len(ops) + 1 \notin OpIds /\ Len(ops) + 1 \in Nat
           /\ ops'[Len(ops) + 1] = r
           /\ \A j \in OpIds : ops'[j] = ops[j]
  <1>1. ops \in Seq(Previewed)
    BY DEF PageTypeOK
  <1> QED BY <1>1 DEF OpIds

LEMMA OpTyped ==
    ASSUME PageTypeOK, NEW i \in OpIds
    PROVE  ops[i] \in Previewed /\ ops[i].owner \in Accounts /\ i \in Nat /\ i # 0
  <1>1. ops \in Seq(Previewed) /\ i \in DOMAIN ops
    BY DEF PageTypeOK, OpIds
  <1>2. ops[i] \in Previewed /\ i \in Nat /\ i # 0
    BY <1>1
  <1> QED BY <1>2 DEF Previewed

LEMMA FixedTyped ==
    /\ NoIntent \in Intents /\ NoCard \in Cards /\ NoLogin \in Logins /\ Disconnected \in Readers
    /\ Nobody \in Keys /\ Accounts \subseteq Keys
    /\ \A i \in Nat : Unsent(i) \in Intents /\ [op |-> i, hash |-> TRUE] \in Intents
  BY DEF NoIntent, Intents, NoCard, Cards, NoLogin, Logins, Disconnected, Readers, Keys, Unsent

LEMMA FailingTyped ==
    ASSUME PageTypeOK, Failing
    PROVE  purse' \in Purses
  <1>1. purse \in Purses
    BY DEF PageTypeOK
  <1> QED BY <1>1 DEF Failing, Purses

LEMMA UnmountedTyped ==
    ASSUME PageTypeOK, Unmounted
    PROVE  card' \in Cards /\ confirms' \subseteq Confirms
  <1>1. ASSUME NEW d \in confirms' PROVE d \in Confirms
    <2>1. PICK c \in confirms : d = [c EXCEPT !.live = FALSE, !.current = FALSE]
      BY <1>1 DEF Unmounted
    <2>2. c \in Confirms
      BY DEF PageTypeOK
    <2> QED BY <2>1, <2>2 DEF Confirms
  <1> QED BY <1>1, FixedTyped DEF Unmounted

LEMMA InitTyped == PageInit => PageTypeOK
  <1> SUFFICES ASSUME PageInit PROVE PageTypeOK
    OBVIOUS
  <1>1. storage \in [Keys -> Intents]
    BY FixedTyped DEF PageInit
  <1>2. purse \in Purses
    BY PageAssumption DEF PageInit, Purses
  <1>3. marks \in Marks
    BY FixedTyped DEF PageInit, Marks, Keys
  <1>4. ops \in Seq(Previewed)
    BY DEF PageInit
  <1> QED BY <1>1, <1>2, <1>3, <1>4, FixedTyped DEF PageInit, PageTypeOK

LEMMA LoginTyped ==
    ASSUME PageTypeOK,
           \/ Login \/ LoginChallenge \/ LoginSigned \/ LoginVerified \/ LoginChecked \/ LoginDone \/ LoginFails
    PROVE  PageTypeOK'
  <1> USE FixedTyped
  <1>1. CASE Login
    BY <1>1, UnmountedTyped DEF Login, PageTypeOK, Logins
  <1>2. CASE LoginChallenge
    BY <1>2 DEF LoginChallenge, PageTypeOK, Logins
  <1>3. CASE LoginSigned
    BY <1>3 DEF LoginSigned, PageTypeOK, Logins
  <1>4. CASE LoginVerified
    <2>1. marks' \in Marks
      BY <1>4 DEF LoginVerified, PageTypeOK, Marks, Keys
    <2>2. login' \in Logins /\ cookie' \in Keys
      BY <1>4 DEF LoginVerified, PageTypeOK, Logins
    <2> QED BY <1>4, <2>1, <2>2 DEF LoginVerified, PageTypeOK
  <1>5. CASE LoginChecked
    <2>1. login' \in Logins /\ client' \in Keys /\ logouts' \in Nat
      BY <1>5 DEF LoginChecked, StaleLogin, LogsOut, PageTypeOK, Logins
    <2>2. login.owner \in Keys
      BY DEF PageTypeOK, Logins
    <2>3. reader' \in Readers
      <3>1. [owner |-> login.owner, phase |-> "LOADING", reading |-> TRUE] \in Readers
        BY <2>2 DEF Readers
      <3> QED BY <1>5, <3>1 DEF LoginChecked, PageTypeOK
    <2>4. marks' \in Marks
      <3>1. PICK e \in BOOLEAN : e = (marks.overtaken \/ \E c \in confirms : c.step \in {"latest", "assert"})
        OBVIOUS
      <3>2. marks' = [marks EXCEPT !.overtaken = e] \/ marks' = marks
        BY <1>5, <3>1 DEF LoginChecked
      <3> QED BY <3>1, <3>2 DEF PageTypeOK, Marks
    <2> QED BY <1>5, <2>1, <2>3, <2>4 DEF LoginChecked, PageTypeOK
  <1>6. CASE LoginDone
    BY <1>6 DEF LoginDone, PageTypeOK, Logins
  <1>7. CASE LoginFails
    <2>1. PICK e \in BOOLEAN : e = (marks.troubled \/ login.step = "checking")
      OBVIOUS
    <2>2. marks' = [marks EXCEPT !.troubled = e]
      BY <1>7, <2>1 DEF LoginFails
    <2>3. marks' \in Marks
      BY <2>1, <2>2 DEF PageTypeOK, Marks
    <2> QED BY <1>7, <2>3, FailingTyped DEF LoginFails, PageTypeOK
  <1> QED BY <1>1, <1>2, <1>3, <1>4, <1>5, <1>6, <1>7

LEMMA SessionTyped ==
    ASSUME PageTypeOK,
           \/ AccountsChanged \/ Logout \/ LoggedOut \/ LogoutLost \/ Reload \/ Refresh \/ ReadDone \/ ReadFails
    PROVE  PageTypeOK'
  <1> USE FixedTyped
  <1>a. ASSUME AccountsChanged \/ Logout PROVE PageTypeOK'
    <2>1. card' \in Cards /\ confirms' \subseteq Confirms
      BY <1>a, UnmountedTyped DEF AccountsChanged, Logout, Leave
    <2>2. purse' \in Purses
      BY <1>a DEF AccountsChanged, Logout, PageTypeOK, Purses
    <2>3. login' \in Logins /\ client' \in Keys /\ logouts' \in Nat /\ reader' \in Readers
      <3>1. [login EXCEPT !.current = FALSE] \in Logins
        BY DEF PageTypeOK, Logins
      <3>2. Leave
        BY <1>a DEF AccountsChanged, Logout
      <3> QED BY <3>1, <3>2 DEF Leave, LogsOut, PageTypeOK
    <2> QED BY <1>a, <2>1, <2>2, <2>3 DEF AccountsChanged, Logout, PageTypeOK
  <1>1. CASE LoggedOut
    <2>1. marks' \in Marks
      BY <1>1 DEF LoggedOut, PageTypeOK, Marks, Keys
    <2> QED BY <1>1, <2>1 DEF LoggedOut, PageTypeOK
  <1>2. CASE LogoutLost
    <2>1. marks' \in Marks
      BY <1>2 DEF LogoutLost, PageTypeOK, Marks
    <2> QED BY <1>2, <2>1, FailingTyped DEF LogoutLost, PageTypeOK
  <1>3. CASE Reload
    <2>1. login.owner \in Keys /\ Nobody \in Keys
      BY DEF PageTypeOK, Logins, Keys
    <2>2. cookie' \in Keys
      BY <1>3, <2>1 DEF Reload, PageTypeOK
    <2>3. marks' \in Marks
      BY <1>3, <2>2 DEF Reload, PageTypeOK, Marks
    <2>4. purse' \in Purses
      BY <1>3 DEF Reload, PageTypeOK, Purses
    <2> QED BY <1>3, <2>2, <2>3, <2>4 DEF Reload, PageTypeOK
  <1>4. CASE Refresh
    BY <1>4 DEF Refresh, PageTypeOK, Readers
  <1>5. ASSUME AfterReading PROVE login' \in Logins
    BY <1>5 DEF AfterReading, PageTypeOK
  <1>6. CASE ReadDone
    <2>1. Drawn \in Cards
      <3>1. PICK f : f = IF card.up THEN card ELSE [NoCard EXCEPT !.up = TRUE]
        OBVIOUS
      <3>2. f \in Cards
        BY <3>1 DEF PageTypeOK, Cards
      <3>3. PICK p : p = IF storage[client] # NoIntent THEN storage[client] ELSE f.pending
        OBVIOUS
      <3>4. p \in Intents
        BY <3>2, <3>3 DEF PageTypeOK, Cards
      <3>5. [f EXCEPT !.key = client, !.pending = p] \in Cards
        BY <3>2, <3>4 DEF PageTypeOK, Cards
      <3>6. Drawn = card \/ Drawn = [f EXCEPT !.key = client, !.pending = p]
        BY <3>1, <3>2, <3>3 DEF Drawn, Cards
      <3> QED BY <3>5, <3>6 DEF PageTypeOK
    <2>2. card' \in Cards
      BY <1>6, <2>1 DEF ReadDone
    <2>3. reader' \in Readers
      BY <1>6 DEF ReadDone, PageTypeOK, Readers
    <2>4. confirms' \subseteq Confirms
      <3>1. ASSUME NEW c \in confirms PROVE [c EXCEPT !.live = FALSE] \in Confirms
        <4>1. c \in Confirms
          BY DEF PageTypeOK
        <4> QED BY <4>1 DEF Confirms
      <3> QED BY <1>6, <3>1 DEF ReadDone, PageTypeOK
    <2>5. login' \in Logins
      BY <1>5, <1>6 DEF ReadDone
    <2> QED BY <1>6, <2>2, <2>3, <2>4, <2>5 DEF ReadDone, PageTypeOK
  <1>7. CASE ReadFails
    <2>1. card' \in Cards
      BY <1>7 DEF ReadFails, PageTypeOK, Cards
    <2>2. PICK p \in {"STALE", "DISCONNECTED"} : p = IF card.up THEN "STALE" ELSE "DISCONNECTED"
      OBVIOUS
    <2>3. reader' = [reader EXCEPT !.reading = FALSE, !.phase = p]
      BY <1>7, <2>2 DEF ReadFails
    <2>4. reader' \in Readers
      BY <2>2, <2>3 DEF PageTypeOK, Readers
    <2>5. login' \in Logins
      BY <1>5, <1>7 DEF ReadFails
    <2> QED BY <1>7, <2>1, <2>4, <2>5, FailingTyped DEF ReadFails, PageTypeOK
  <1> QED BY <1>a, <1>1, <1>2, <1>3, <1>4, <1>6, <1>7

LEMMA CardTyped ==
    ASSUME PageTypeOK, LiveCalls,
           \/ Preview \/ Confirm \/ Settles \/ Poll \/ AckFailure \/ AckApproval \/ Recover
    PROVE  PageTypeOK'
  <1> USE FixedTyped
  <1>1. CASE Preview
    <2>1. PICK t \in purse.kinds : ops' = Append(ops, [owner |-> reader.owner, tracked |-> t, state |-> "previewed"])
      BY <1>1 DEF Preview
    <2>2. reader.owner \in Accounts
      BY <1>1, PageAssumption DEF Preview, AssertOwner, PageTypeOK, Keys
    <2>3. t \in BOOLEAN
      BY <2>1 DEF PageTypeOK, Purses
    <2>4. [owner |-> reader.owner, tracked |-> t, state |-> "previewed"] \in Previewed
      BY <2>2, <2>3 DEF Previewed, States
    <2>5. ops' \in Seq(Previewed) /\ Len(ops) + 1 \in Nat
      BY <2>1, <2>4 DEF PageTypeOK
    <2>6. card' \in Cards
      BY <1>1, <2>5 DEF Preview, PageTypeOK, Cards
    <2> QED BY <1>1, <2>5, <2>6 DEF Preview, PageTypeOK
  <1>2. CASE Confirm
    <2>1. card' \in Cards
      BY <1>2 DEF Confirm, PageTypeOK, Cards
    <2>2. card.prepared \in Nat /\ card.key \in Keys
      BY DEF PageTypeOK, Cards
    <2>3. [op |-> card.prepared, key |-> card.key, step |-> "latest", live |-> TRUE, current |-> TRUE] \in Confirms
      BY <2>2 DEF Confirms
    <2>4. confirms' \subseteq Confirms
      BY <1>2, <2>3 DEF Confirm, PageTypeOK
    <2> QED BY <1>2, <2>1, <2>4 DEF Confirm, PageTypeOK
  <1>3. CASE Settles
    <2>1. PICK i \in OpIds, to \in {"sent", "rejected", "done", "failed"} : ops' = [ops EXCEPT ![i].state = to]
      BY <1>3 DEF Settles
    <2>2. ops' \in Seq(Previewed)
      BY <2>1, OpMoves DEF States
    <2> QED BY <1>3, <2>2 DEF Settles, PageTypeOK
  <1>4. ASSUME Resolved PROVE card' \in Cards /\ storage' \in [Keys -> Intents]
    <2>1. card.key \in Keys
      BY DEF PageTypeOK, Cards
    <2> QED BY <1>4, <2>1 DEF Resolved, PageTypeOK, Cards
  <1>5. ASSUME Poll \/ AckFailure \/ AckApproval PROVE PageTypeOK'
    BY <1>4, <1>5 DEF Poll, AckFailure, AckApproval, PageTypeOK
  <1>6. CASE Recover
    <2>1. card.key \in Keys /\ card.pending \in Intents /\ card.pending.op \in Nat
      BY DEF PageTypeOK, Cards, Intents
    <2>2. [op |-> card.pending.op, hash |-> TRUE] \in Intents
      BY <2>1 DEF Intents
    <2>3. card' \in Cards
      BY <1>6, <2>2 DEF Recover, PageTypeOK, Cards
    <2>4. storage' \in [Keys -> Intents]
      BY <1>6, <2>1 DEF Recover, PageTypeOK
    <2> QED BY <1>6, <2>3, <2>4 DEF Recover, PageTypeOK
  <1> QED BY <1>1, <1>2, <1>3, <1>5, <1>6

LEMMA CallTyped ==
    ASSUME PageTypeOK, LiveCalls, NEW c \in confirms,
           \/ ConfirmLatest(c) \/ ConfirmAssert(c) \/ ConfirmSent(c) \/ ConfirmRejected(c)
           \/ ConfirmUnknown(c) \/ ConfirmObserved(c) \/ ConfirmFails(c)
    PROVE  PageTypeOK'
  <1>1. c \in Confirms /\ c.op \in OpIds /\ c.key \in Keys /\ c.op \in Nat
    BY DEF PageTypeOK, LiveCalls, Confirms
  <1>2. card' \in Cards
    <2>1. ASSUME NEW i \in Intents
          PROVE  /\ [card EXCEPT !.pending = i] \in Cards
                 /\ [card EXCEPT !.pending = i, !.busy = FALSE] \in Cards
                 /\ [card EXCEPT !.pending = i, !.prepared = 0] \in Cards
      BY DEF PageTypeOK, Cards
    <2>2. [card EXCEPT !.busy = FALSE] \in Cards
      BY DEF PageTypeOK, Cards
    <2>3. [op |-> c.op, hash |-> FALSE] \in Intents /\ [op |-> c.op, hash |-> TRUE] \in Intents
      BY <1>1 DEF Intents
    <2> QED BY <2>1, <2>2, <2>3, FixedTyped
            DEF PageTypeOK, ConfirmLatest, ConfirmAssert, ConfirmSent, ConfirmRejected, ConfirmUnknown, ConfirmObserved, ConfirmFails
  <1>3. storage' \in [Keys -> Intents]
    <2>1. [op |-> c.op, hash |-> FALSE] \in Intents /\ [op |-> c.op, hash |-> TRUE] \in Intents
      BY <1>1 DEF Intents
    <2> QED BY <1>1, <2>1, FixedTyped
            DEF PageTypeOK, ConfirmLatest, ConfirmAssert, ConfirmSent, ConfirmRejected, ConfirmUnknown, ConfirmObserved, ConfirmFails, Record
  <1>4. ops' \in Seq(Previewed)
    <2>1. ops' = ops \/ \E to \in States : ops' = [ops EXCEPT ![c.op].state = to]
      BY DEF States, ConfirmLatest, ConfirmAssert, ConfirmSent, ConfirmRejected, ConfirmUnknown, ConfirmObserved, ConfirmFails
    <2> QED BY <1>1, <2>1, OpMoves DEF PageTypeOK
  <1>5. confirms' \subseteq Confirms
    <2>1. /\ [c EXCEPT !.step = "assert"] \in Confirms
          /\ [c EXCEPT !.step = "asked", !.current = TRUE] \in Confirms
          /\ [c EXCEPT !.step = "observe"] \in Confirms
      BY <1>1 DEF Confirms
    <2> QED BY <2>1
            DEF PageTypeOK, ConfirmLatest, ConfirmAssert, ConfirmSent, ConfirmRejected, ConfirmUnknown, ConfirmObserved, ConfirmFails,
                Becomes, Ends
  <1>6. purse' \in Purses
    BY FailingTyped
       DEF PageTypeOK, ConfirmLatest, ConfirmAssert, ConfirmSent, ConfirmRejected, ConfirmUnknown, ConfirmObserved, ConfirmFails
  <1> QED
    BY <1>2, <1>3, <1>4, <1>5, <1>6, FixedTyped
       DEF PageTypeOK, ConfirmLatest, ConfirmAssert, ConfirmSent, ConfirmRejected, ConfirmUnknown, ConfirmObserved, ConfirmFails

----------------------------------------------------------------------------
(* Steps that leave record, operations and calls alone *)

\* The card stays what it is, but for its key and what is prepared; the client may forget its owner.
LEMMA QuietStep ==
    ASSUME PageInv, PageTypeOK', CardOfSession',
           UNCHANGED <<storage, ops, confirms>>,
           marks.overtaken => marks'.overtaken,
           reader'.owner = reader.owner, client' \in {client, Nobody},
           card'.up <=> card.up, card'.busy <=> card.busy,
           card'.key \in {card.key, Nobody}, card'.key # Nobody => card'.pending = card.pending
    PROVE  PageInv'
  <1>1. LiveCalls'
    BY DEF PageInv, LiveCalls, OpIds
  <1>2. ASSUME ~marks'.overtaken PROVE BeforeRecord' /\ Prompts' /\ IntentsRecorded' /\ Shown'
    <2>1. BeforeRecord /\ Prompts /\ IntentsRecorded /\ Shown
      BY <1>2 DEF PageInv
    <2>2. BeforeRecord'
      BY <2>1 DEF BeforeRecord, OpIds, Open, Unsent, NoIntent
    <2>3. Prompts' /\ IntentsRecorded'
      BY <2>1 DEF Prompts, IntentsRecorded, Known, Open, OpIds
    <2>4. Shown'
      BY <2>1 DEF Shown, Known, Open, OpIds
    <2> QED BY <2>2, <2>3, <2>4
  <1> QED BY <1>1, <1>2 DEF PageInv

\* A login opens a session: a call still before its record is marked, and no card is up.
LEMMA SessionOpens ==
    ASSUME PageInv, PageTypeOK', CardOfSession', UNCHANGED <<storage, ops, confirms, card>>, ~card.up,
           marks.overtaken => marks'.overtaken,
           ~marks'.overtaken => \A c \in confirms : c.step \notin {"latest", "assert"}
    PROVE  PageInv'
  <1>1. LiveCalls'
    BY DEF PageInv, LiveCalls, OpIds
  <1>2. ASSUME ~marks'.overtaken PROVE BeforeRecord' /\ Prompts' /\ IntentsRecorded' /\ Shown'
    <2>1. BeforeRecord /\ Prompts /\ IntentsRecorded /\ Shown
      BY <1>2 DEF PageInv
    <2>2. BeforeRecord'
      BY <1>2 DEF BeforeRecord
    <2>3. Prompts' /\ IntentsRecorded'
      BY <2>1 DEF Prompts, IntentsRecorded, Known, Open, OpIds
    <2> QED BY <2>2, <2>3 DEF Shown
  <1> QED BY <1>1, <1>2 DEF PageInv

LEMMA NoCardFields == NoCard.up = FALSE /\ NoCard.prepared = 0 /\ NoCard.busy = FALSE /\ NoCard.key = Nobody /\ NoCard.pending = NoIntent
  BY DEF NoCard

\* The session ends and the card goes; its calls lose it, and go on.
LEMMA SessionCloses ==
    ASSUME PageInv, PageTypeOK', UNCHANGED <<storage, ops>>, marks.overtaken => marks'.overtaken,
           card' = NoCard, reader' = Disconnected, client' \in {client, Nobody},
           NEW gone \in [Confirms -> Confirms],
           \A c \in Confirms : gone[c].op = c.op /\ gone[c].key = c.key /\ gone[c].step = c.step /\ ~gone[c].live,
           confirms' \subseteq {gone[c] : c \in confirms}
    PROVE  PageInv'
  <1>0. confirms \subseteq Confirms /\ reader'.owner = Nobody /\ ~reader'.reading /\ ~card'.up /\ card'.prepared = 0
    BY NoCardFields DEF PageInv, PageTypeOK, Disconnected
  <1>c. CardOfSession'
    BY <1>0 DEF CardOfSession
  <1>g. ASSUME NEW d \in confirms'
        PROVE  \E c \in confirms : d = gone[c] /\ d.op = c.op /\ d.key = c.key /\ d.step = c.step /\ ~d.live
    BY <1>0
  <1>1. LiveCalls'
    BY <1>g DEF PageInv, LiveCalls, OpIds
  <1>2. ASSUME ~marks'.overtaken PROVE BeforeRecord' /\ Prompts' /\ IntentsRecorded' /\ Shown'
    <2>1. BeforeRecord /\ Prompts /\ IntentsRecorded /\ Shown
      BY <1>2 DEF PageInv
    <2>2. BeforeRecord'
      <3>1. ASSUME NEW c \in confirms', NEW d \in confirms', c.step \in {"latest", "assert"}, d.step \in {"latest", "assert"}
            PROVE  c = d
        BY <2>1, <3>1, <1>g DEF BeforeRecord
      <3>2. ASSUME NEW d \in confirms', d.step \in {"latest", "assert"}
            PROVE  /\ ~d.live => reader'.owner = Nobody
                   /\ d.key \in {ops'[d.op].owner, Nobody}
                   /\ d.key = Nobody => d.step = "latest" /\ client' = Nobody /\ (d.live => card'.key = Nobody)
                   /\ d.key # Nobody => \A i \in OpIds' : ops'[i].owner = d.key => ~Open(i)'
                   /\ d.step = "assert" => storage'[d.key] = Unsent(d.op)
                   /\ ~d.live
        <4>1. PICK c \in confirms : d.op = c.op /\ d.key = c.key /\ d.step = c.step /\ ~d.live
          BY <1>g
        <4> QED BY <1>0, <2>1, <3>2, <4>1 DEF BeforeRecord, Open, OpIds, Unsent
      <3> QED BY <3>1, <3>2 DEF BeforeRecord
    <2>3. Prompts'
      <3>1. ASSUME NEW d \in confirms', d.step = "asked" PROVE ops'[d.op].state = "asked" /\ d.key = ops'[d.op].owner
        BY <2>1, <3>1, <1>g DEF Prompts
      <3>2. ASSUME NEW c \in confirms', NEW d \in confirms', c.step = "asked", d.step = "asked", c.op = d.op PROVE c = d
        BY <2>1, <3>2, <1>g DEF Prompts
      <3> QED BY <3>1, <3>2 DEF Prompts
    <2>4. IntentsRecorded'
      BY <2>1 DEF IntentsRecorded, Known, Open, OpIds
    <2> QED BY <1>0, <2>2, <2>3, <2>4 DEF Shown
  <1> QED BY <1>c, <1>1, <1>2 DEF PageInv

\* The calls lose their card when it is unmounted.
LEMMA Leaving ==
    ASSUME PageInv, PageTypeOK', UNCHANGED <<storage, ops, marks>>, reader' = Disconnected, client' = Nobody, Unmounted
    PROVE  PageInv'
  <1> DEFINE g == [c \in Confirms |-> [c EXCEPT !.live = FALSE, !.current = FALSE]]
  <1>1. PICK gone : gone = g
    OBVIOUS
  <1>2. ASSUME NEW c \in Confirms
        PROVE  g[c] \in Confirms /\ g[c].op = c.op /\ g[c].key = c.key /\ g[c].step = c.step /\ ~g[c].live
    BY DEF Confirms
  <1>3. gone \in [Confirms -> Confirms]
    BY <1>1, <1>2
  <1>4. \A c \in Confirms : gone[c].op = c.op /\ gone[c].key = c.key /\ gone[c].step = c.step /\ ~gone[c].live
    BY <1>1, <1>2
  <1>5. confirms' \subseteq {gone[c] : c \in confirms}
    BY <1>1 DEF Unmounted, PageInv, PageTypeOK
  <1>6. card' = NoCard
    BY DEF Unmounted
  <1> QED BY <1>3, <1>4, <1>5, <1>6, SessionCloses

LEMMA LoginKeeps ==
    ASSUME PageInv,
           \/ Login \/ LoginChallenge \/ LoginSigned \/ LoginVerified \/ LoginChecked \/ LoginDone \/ LoginFails
    PROVE  PageInv'
  <1>0. PageTypeOK /\ CardOfSession /\ PageTypeOK'
    BY LoginTyped DEF PageInv
  <1>1. CASE Login
    BY <1>0, <1>1, Leaving DEF Login
  <1>2. ASSUME LoginChallenge \/ LoginSigned \/ LoginVerified \/ LoginDone \/ LoginFails PROVE PageInv'
    <2>1. /\ UNCHANGED <<storage, ops, confirms, card, reader, client>>
          /\ reader.owner # Nobody => login'.step \in {"idle", "refreshing"}
      BY <1>0, <1>2 DEF LoginChallenge, LoginSigned, LoginVerified, LoginDone, LoginFails, NoLogin, CardOfSession
    <2>2. marks.overtaken => marks'.overtaken
      BY <1>0, <1>2 DEF LoginChallenge, LoginSigned, LoginVerified, LoginDone, LoginFails, PageTypeOK, Marks
    <2>3. CardOfSession'
      BY <1>0, <2>1 DEF CardOfSession, OpIds
    <2> QED BY <1>0, <2>1, <2>2, <2>3, QuietStep
  <1>3. CASE LoginChecked
    <2>0. reader.owner = Nobody /\ ~card.up /\ ~reader.reading /\ card.prepared = 0
      BY <1>0, <1>3 DEF LoginChecked, CardOfSession
    <2>1. CASE login.current /\ selected = login.owner
      <3>1. /\ reader' = [owner |-> login.owner, phase |-> "LOADING", reading |-> TRUE]
            /\ login' = [login EXCEPT !.step = "refreshing"]
            /\ client' = login.owner
            /\ UNCHANGED <<storage, ops, confirms, card>>
        BY <1>3, <2>1 DEF LoginChecked
      <3>2. login.owner # Nobody
        BY <1>0, <2>1, PageAssumption DEF PageTypeOK
      <3>3. reader'.owner = login.owner /\ login'.step = "refreshing"
        BY <1>0, <3>1 DEF PageTypeOK, Logins
      <3>4. CardOfSession'
        BY <2>0, <3>1, <3>2, <3>3 DEF CardOfSession
      <3>5. PICK e \in BOOLEAN : e = (marks.overtaken \/ \E c \in confirms : c.step \in {"latest", "assert"})
        OBVIOUS
      <3>6. marks' = [marks EXCEPT !.overtaken = e]
        BY <1>3, <2>1, <3>5 DEF LoginChecked
      <3>7. marks'.overtaken = e
        BY <1>0, <3>6 DEF PageTypeOK, Marks
      <3>8. /\ marks.overtaken => marks'.overtaken
            /\ ~marks'.overtaken => \A c \in confirms : c.step \notin {"latest", "assert"}
        BY <3>5, <3>7
      <3> QED BY <1>0, <2>0, <3>1, <3>4, <3>8, SessionOpens
    <2>2. CASE ~(login.current /\ selected = login.owner)
      <3>1. UNCHANGED <<storage, ops, confirms, card, reader, marks>> /\ client' = Nobody /\ login' = NoLogin
        BY <1>3, <2>2 DEF LoginChecked, StaleLogin, LogsOut
      <3>2. CardOfSession'
        BY <2>0, <3>1 DEF CardOfSession
      <3> QED BY <1>0, <3>1, <3>2, QuietStep
    <2> QED BY <2>1, <2>2
  <1> QED BY <1>1, <1>2, <1>3

LEMMA SessionKeeps ==
    ASSUME PageInv,
           \/ AccountsChanged \/ Logout \/ LoggedOut \/ LogoutLost \/ Reload \/ Refresh \/ ReadFails
    PROVE  PageInv'
  <1>0. PageTypeOK /\ CardOfSession /\ PageTypeOK'
    BY SessionTyped DEF PageInv
  <1>1. ASSUME AccountsChanged \/ Logout PROVE PageInv'
    BY <1>0, <1>1, Leaving DEF AccountsChanged, Logout, Leave, LogsOut
  <1>2. ASSUME LoggedOut \/ LogoutLost PROVE PageInv'
    <2>1. UNCHANGED <<storage, ops, confirms, card, reader, client, login>>
      BY <1>2 DEF LoggedOut, LogoutLost
    <2>2. marks.overtaken => marks'.overtaken
      BY <1>0, <1>2 DEF LoggedOut, LogoutLost, PageTypeOK, Marks
    <2>3. CardOfSession'
      BY <1>0, <2>1 DEF CardOfSession, OpIds
    <2> QED BY <1>0, <2>1, <2>2, <2>3, QuietStep
  <1>3. CASE Reload
    <2>1. UNCHANGED <<storage, ops>> /\ card' = NoCard /\ reader' = Disconnected /\ client' = Nobody /\ confirms' = {}
      BY <1>3 DEF Reload
    <2>2. marks.overtaken => marks'.overtaken
      BY <1>0, <1>3 DEF Reload, PageTypeOK, Marks
    <2>3. CardOfSession'
      BY <2>1, NoCardFields DEF CardOfSession, Disconnected
    <2>4. LiveCalls'
      BY <2>1 DEF LiveCalls
    <2>5. ASSUME ~marks'.overtaken PROVE BeforeRecord' /\ Prompts' /\ IntentsRecorded' /\ Shown'
      <3>1. IntentsRecorded
        BY <2>2, <2>5 DEF PageInv
      <3>2. IntentsRecorded'
        BY <2>1, <3>1 DEF IntentsRecorded, Known, Open, OpIds
      <3> QED BY <2>1, <3>2, NoCardFields DEF BeforeRecord, Prompts, Shown
    <2> QED BY <1>0, <2>3, <2>4, <2>5 DEF PageInv
  <1>4. CASE Refresh
    <2>1. UNCHANGED <<storage, ops, confirms, card, client, login, marks>> /\ reader'.owner = reader.owner /\ reader.owner # Nobody
      BY <1>0, <1>4 DEF Refresh, PageTypeOK, Readers
    <2>2. CardOfSession'
      BY <1>0, <2>1 DEF CardOfSession, OpIds
    <2> QED BY <1>0, <2>1, <2>2, QuietStep
  <1>5. CASE ReadFails
    <2>1. UNCHANGED <<storage, ops, confirms, client, marks>> /\ login'.step \in {login.step, "idle"}
      BY <1>5 DEF ReadFails, AfterReading, NoLogin
    <2>2. /\ card'.up <=> card.up
          /\ card'.busy <=> card.busy
          /\ card'.key = card.key /\ card'.pending = card.pending /\ card'.prepared = 0
      BY <1>0, <1>5 DEF ReadFails, PageTypeOK, Cards
    <2>3. PICK p : p = IF card.up THEN "STALE" ELSE "DISCONNECTED"
      OBVIOUS
    <2>4. reader' = [reader EXCEPT !.reading = FALSE, !.phase = p]
      BY <1>5, <2>3 DEF ReadFails
    <2>5. reader'.owner = reader.owner /\ ~reader'.reading
      BY <1>0, <2>4 DEF PageTypeOK, Readers
    <2>6. CardOfSession'
      BY <1>0, <2>1, <2>2, <2>5 DEF CardOfSession
    <2> QED BY <1>0, <2>1, <2>2, <2>5, <2>6, QuietStep
  <1> QED BY <1>1, <1>2, <1>3, <1>4, <1>5

\* The reading arrives: the card is drawn with what its owner's record holds, or the session is over.
LEMMA ReadDoneKeeps ==
    ASSUME PageInv, ReadDone
    PROVE  PageInv'
  <1>0. PageTypeOK /\ CardOfSession /\ LiveCalls /\ PageTypeOK' /\ reader.reading /\ reader.owner # Nobody
    BY SessionTyped DEF PageInv, ReadDone, CardOfSession
  <1>1. UNCHANGED <<storage, ops, client, marks>> /\ login'.step \in {login.step, "idle"}
    BY DEF ReadDone, AfterReading, NoLogin
  <1>2. CASE ~Accepted
    <2> DEFINE g == [c \in Confirms |-> [c EXCEPT !.live = FALSE]]
    <2>1. PICK gone : gone = g
      OBVIOUS
    <2>2. ASSUME NEW c \in Confirms
          PROVE  g[c] \in Confirms /\ g[c].op = c.op /\ g[c].key = c.key /\ g[c].step = c.step /\ ~g[c].live
      BY DEF Confirms
    <2>3. gone \in [Confirms -> Confirms]
      BY <2>1, <2>2
    <2>4. \A c \in Confirms : gone[c].op = c.op /\ gone[c].key = c.key /\ gone[c].step = c.step /\ ~gone[c].live
      BY <2>1, <2>2
    <2>5. card' = NoCard /\ reader' = Disconnected /\ confirms' = {[c EXCEPT !.live = FALSE] : c \in confirms}
      BY <1>2 DEF ReadDone
    <2>6. confirms' \subseteq {gone[c] : c \in confirms}
      BY <1>0, <2>1, <2>5 DEF PageTypeOK
    <2> QED BY <1>0, <1>1, <2>3, <2>4, <2>5, <2>6, SessionCloses
  <1>3. CASE Accepted
    <2>1. reader' = [reader EXCEPT !.phase = "READY", !.reading = FALSE] /\ card' = Drawn /\ confirms' = confirms
      BY <1>3 DEF ReadDone
    <2>2. reader'.owner = reader.owner /\ ~reader'.reading
      BY <1>0, <2>1 DEF PageTypeOK, Readers
    <2>3. CASE card.up
      <3>1. PICK p : p = IF storage[client] # NoIntent THEN storage[client] ELSE card.pending
        OBVIOUS
      <3>2. card' = card \/ (card.key # client /\ card' = [card EXCEPT !.key = client, !.pending = p])
        BY <2>1, <2>3, <3>1 DEF Drawn
      <3>3. CASE card' = card
        <4>1. CardOfSession'
          BY <1>0, <1>1, <2>2, <3>3 DEF CardOfSession, OpIds
        <4> QED BY <1>0, <1>1, <2>1, <2>2, <3>3, <4>1, QuietStep
      <3>4. CASE card.key # client /\ card' = [card EXCEPT !.key = client, !.pending = p]
        <4>1. client = Nobody
          BY <1>0, <2>3, <3>4 DEF CardOfSession
        <4>2. /\ card'.up <=> card.up
              /\ card'.busy <=> card.busy
              /\ card'.key = Nobody /\ card'.prepared = card.prepared
          BY <1>0, <3>4, <4>1 DEF PageTypeOK, Cards
        <4>3. CardOfSession'
          BY <1>0, <1>1, <2>2, <4>1, <4>2 DEF CardOfSession, OpIds
        <4> QED BY <1>0, <1>1, <2>1, <2>2, <4>2, <4>3, QuietStep
      <3> QED BY <3>2, <3>3, <3>4
    <2>4. CASE ~card.up
      <3>1. PICK p : p = IF storage[client] # NoIntent THEN storage[client] ELSE NoIntent
        OBVIOUS
      <3>2. p = storage[client]
        BY <3>1
      <3>3. card' = [[NoCard EXCEPT !.up = TRUE] EXCEPT !.key = client, !.pending = p]
        BY <2>1, <2>4, <3>1, NoCardFields DEF Drawn, NoCard
      <3>4. card'.up /\ ~card'.busy /\ card'.key = client /\ card'.pending = p /\ card'.prepared = 0
        BY <3>3 DEF NoCard
      <3>5. CardOfSession'
        BY <1>0, <1>1, <2>2, <3>4 DEF CardOfSession
      <3>6. \A c \in confirms : ~c.live
        BY <1>0, <2>4 DEF LiveCalls
      <3>7. LiveCalls'
        BY <1>0, <1>1, <2>1, <3>6 DEF LiveCalls, OpIds
      <3>8. ASSUME ~marks'.overtaken PROVE BeforeRecord' /\ Prompts' /\ IntentsRecorded' /\ Shown'
        <4>1. BeforeRecord /\ Prompts /\ IntentsRecorded
          BY <1>1, <3>8 DEF PageInv
        <4>2. \A c \in confirms : c.step \notin {"latest", "assert"}
          BY <1>0, <3>6, <4>1 DEF BeforeRecord
        <4>3. BeforeRecord'
          BY <2>1, <4>2 DEF BeforeRecord
        <4>4. Prompts' /\ IntentsRecorded'
          BY <1>1, <2>1, <4>1 DEF Prompts, IntentsRecorded, Known, Open, OpIds
        <4>5. Shown'
          <5>1. SUFFICES ASSUME client # Nobody
                         PROVE  Known(p, client)' /\ \A i \in OpIds' : ops'[i].owner = client /\ Open(i)' => p.op = i
            BY <1>1, <3>4 DEF Shown, Known, OpIds
          <5>2. client \in Accounts
            BY <1>0, <5>1 DEF PageTypeOK, Keys
          <5> QED BY <1>1, <3>2, <4>1, <5>2 DEF IntentsRecorded, Known, Open, OpIds
        <4> QED BY <4>3, <4>4, <4>5
      <3> QED BY <1>0, <3>5, <3>7, <3>8 DEF PageInv
    <2> QED BY <2>3, <2>4
  <1> QED BY <1>2, <1>3

----------------------------------------------------------------------------
(* The card's own steps *)

\* A card that is not busy has no call before its record: nobody else may have written its owner's.
LEMMA IdleCard ==
    ASSUME PageInv, card.up, ~card.busy
    PROVE  /\ \A c \in confirms : ~c.live
           /\ ~marks.overtaken => \A c \in confirms : c.step \notin {"latest", "assert"}
  BY DEF PageInv, LiveCalls, BeforeRecord, CardOfSession

LEMMA PreviewKeeps ==
    ASSUME PageInv, Preview
    PROVE  PageInv'
  <1>0. PageTypeOK /\ CardOfSession /\ LiveCalls /\ PageTypeOK'
    BY CardTyped DEF PageInv
  <1>1. PICK t \in purse.kinds : ops' = Append(ops, [owner |-> reader.owner, tracked |-> t, state |-> "previewed"])
    BY DEF Preview
  <1>2. PICK r : r = [owner |-> reader.owner, tracked |-> t, state |-> "previewed"]
    OBVIOUS
  <1>3. r \in Previewed /\ r.owner = reader.owner /\ r.state = "previewed"
    <2>1. reader.owner \in Accounts
      BY <1>0, PageAssumption DEF Preview, AssertOwner, PageTypeOK, Keys
    <2>2. t \in BOOLEAN
      BY <1>0, <1>1 DEF PageTypeOK, Purses
    <2> QED BY <1>2, <2>1, <2>2 DEF Previewed, States
  <1>4. /\ OpIds' = OpIds \cup {Len(ops) + 1} /\ Len(ops) + 1 \notin OpIds
        /\ ops'[Len(ops) + 1] = r /\ \A j \in OpIds : ops'[j] = ops[j]
    BY <1>0, <1>1, <1>2, <1>3, OpAdded
  <1>5. UNCHANGED <<storage, client, login, reader, confirms, marks>> /\ card.up /\ ~card.busy
    BY DEF Preview, Usable
  <1>6. /\ card'.up <=> card.up
        /\ card'.busy <=> card.busy
        /\ card'.key = card.key /\ card'.pending = card.pending /\ card'.prepared = Len(ops) + 1
    <2>1. card \in Cards
      BY <1>0 DEF PageTypeOK
    <2>2. card' = [card EXCEPT !.prepared = Len(ops) + 1]
      BY DEF Preview
    <2> QED BY <2>1, <2>2 DEF Cards
  <1>7. CardOfSession'
    BY <1>0, <1>3, <1>4, <1>5, <1>6 DEF CardOfSession
  <1>8. LiveCalls'
    BY <1>0, <1>4, <1>5, <1>6 DEF LiveCalls
  <1>9. ASSUME ~marks'.overtaken PROVE BeforeRecord' /\ Prompts' /\ IntentsRecorded' /\ Shown'
    <2>1. Prompts /\ IntentsRecorded /\ Shown
      BY <1>5, <1>9 DEF PageInv
    <2>2. BeforeRecord'
      BY <1>5, <1>9, IdleCard DEF BeforeRecord
    <2>3. \A i \in OpIds' : Open(i)' => i \in OpIds /\ Open(i)
      BY <1>3, <1>4 DEF Open
    <2>4. Prompts'
      BY <1>0, <1>4, <1>5, <2>1 DEF Prompts, LiveCalls
    <2>5. ASSUME NEW intent, NEW a, Known(intent, a) PROVE Known(intent, a)'
      BY <1>4, <2>5 DEF Known
    <2>6. IntentsRecorded'
      BY <1>4, <1>5, <2>1, <2>3, <2>5 DEF IntentsRecorded, Known
    <2>7. Shown'
      BY <1>4, <1>5, <1>6, <2>1, <2>3, <2>5 DEF Shown, Known
    <2> QED BY <2>2, <2>4, <2>6, <2>7
  <1> QED BY <1>0, <1>7, <1>8, <1>9 DEF PageInv

\* Nothing of the owner is open when the card has no pending intent.
LEMMA ConfirmKeeps ==
    ASSUME PageInv, Confirm
    PROVE  PageInv'
  <1>0. PageTypeOK /\ CardOfSession /\ LiveCalls /\ PageTypeOK'
    BY CardTyped DEF PageInv
  <1>1. PICK n : n = [op |-> card.prepared, key |-> card.key, step |-> "latest", live |-> TRUE, current |-> TRUE]
    OBVIOUS
  <1>2. n.op = card.prepared /\ n.key = card.key /\ n.step = "latest" /\ n.live
    BY <1>1
  <1>3. /\ UNCHANGED <<storage, ops, client, login, reader, marks>> /\ confirms' = confirms \cup {n}
        /\ card.up /\ ~card.busy /\ card.prepared # 0 /\ card.pending = NoIntent
    BY <1>1 DEF Confirm
  <1>4. /\ card'.up /\ card'.busy
        /\ card'.key = card.key /\ card'.pending = card.pending /\ card'.prepared = card.prepared
    <2>1. card \in Cards /\ card' = [card EXCEPT !.busy = TRUE]
      BY <1>0 DEF PageTypeOK, Confirm
    <2> QED BY <1>3, <2>1 DEF Cards
  <1>5. CardOfSession'
    BY <1>0, <1>3, <1>4 DEF CardOfSession, OpIds
  <1>6. \A c \in confirms : ~c.live
    BY <1>3, IdleCard
  <1>7. n.op \in OpIds /\ ops[n.op].owner = reader.owner
    BY <1>0, <1>2, <1>3 DEF CardOfSession
  <1>8. LiveCalls'
    BY <1>0, <1>2, <1>3, <1>4, <1>6, <1>7 DEF LiveCalls, OpIds
  <1>9. ASSUME ~marks'.overtaken PROVE BeforeRecord' /\ Prompts' /\ IntentsRecorded' /\ Shown'
    <2>1. Prompts /\ IntentsRecorded /\ Shown
      BY <1>3, <1>9 DEF PageInv
    <2>2. \A c \in confirms : c.step \notin {"latest", "assert"}
      BY <1>3, <1>9, IdleCard
    <2>3. \A c \in confirms' : c.step \in {"latest", "assert"} => c = n
      BY <1>3, <2>2
    <2>4. n.key # Nobody => \A i \in OpIds : ops[i].owner = n.key => ~Open(i)
      <3>1. SUFFICES ASSUME card.key # Nobody, NEW i \in OpIds, ops[i].owner = card.key, Open(i) PROVE FALSE
        BY <1>2
      <3>2. i # 0
        BY <1>0, OpTyped
      <3>3. card.pending.op = 0
        BY <1>3 DEF NoIntent
      <3> QED BY <1>3, <2>1, <3>1, <3>2, <3>3 DEF Shown
    <2>5. n.key \in {ops[n.op].owner, Nobody} /\ (n.key = Nobody => client = Nobody /\ card.key = Nobody)
      BY <1>0, <1>2, <1>3, <1>7 DEF CardOfSession
    <2>6. BeforeRecord'
      BY <1>2, <1>3, <1>4, <2>3, <2>4, <2>5 DEF BeforeRecord, Open, OpIds, NoIntent
    <2>7. Prompts'
      BY <1>2, <1>3, <2>1 DEF Prompts
    <2>8. IntentsRecorded' /\ Shown'
      BY <1>3, <1>4, <2>1 DEF IntentsRecorded, Shown, Known, Open, OpIds
    <2> QED BY <2>6, <2>7, <2>8
  <1> QED BY <1>0, <1>5, <1>8, <1>9 DEF PageInv

LEMMA SettlesKeeps ==
    ASSUME PageInv, Settles
    PROVE  PageInv'
  <1>0. PageTypeOK /\ CardOfSession /\ LiveCalls /\ PageTypeOK'
    BY CardTyped DEF PageInv
  <1>1. PICK i \in OpIds, to \in {"sent", "rejected", "done", "failed"} :
           /\ ops' = [ops EXCEPT ![i].state = to]
           /\ \/ ops[i].state = "asked" /\ to \in {"sent", "rejected"} /\ \A c \in confirms : c.op # i
              \/ ops[i].state = "sent" /\ to \in {"done", "failed"}
    BY DEF Settles
  <1>2. /\ OpIds' = OpIds /\ ops'[i].state = to
        /\ \A j \in OpIds : ops'[j].owner = ops[j].owner /\ (ops'[j].tracked <=> ops[j].tracked)
        /\ \A j \in OpIds : j # i => ops'[j].state = ops[j].state
    BY <1>0, <1>1, OpMoves DEF States
  <1>3. UNCHANGED <<storage, client, login, reader, card, confirms, marks>>
    BY DEF Settles
  <1>4. CardOfSession'
    BY <1>0, <1>2, <1>3 DEF CardOfSession
  <1>5. LiveCalls'
    BY <1>0, <1>2, <1>3 DEF LiveCalls
  <1>6. ASSUME ~marks'.overtaken PROVE BeforeRecord' /\ Prompts' /\ IntentsRecorded' /\ Shown'
    <2>1. BeforeRecord /\ Prompts /\ IntentsRecorded /\ Shown
      BY <1>3, <1>6 DEF PageInv
    <2>2. \A j \in OpIds : Open(j)' => Open(j)
      BY <1>1, <1>2 DEF Open
    <2>3. ASSUME NEW intent, NEW a, Known(intent, a) PROVE Known(intent, a)'
      BY <1>1, <1>2, <2>3 DEF Known
    <2>4. BeforeRecord'
      BY <1>0, <1>2, <1>3, <2>1, <2>2 DEF BeforeRecord, LiveCalls, Unsent, NoIntent
    <2>5. Prompts'
      BY <1>0, <1>1, <1>2, <1>3, <2>1 DEF Prompts, LiveCalls
    <2>6. IntentsRecorded'
      BY <1>2, <1>3, <2>1, <2>2, <2>3 DEF IntentsRecorded, Known
    <2>7. Shown'
      BY <1>2, <1>3, <2>1, <2>2, <2>3 DEF Shown, Known
    <2> QED BY <2>4, <2>5, <2>6, <2>7
  <1> QED BY <1>0, <1>4, <1>5, <1>6 DEF PageInv

\* The card's record is written anew: an intent it knows, which is what is open, if anything is.
LEMMA RecordChanges ==
    ASSUME PageInv, PageTypeOK', card.up, NEW intent \in Intents,
           UNCHANGED <<ops, client, login, reader, confirms, marks>>,
           storage' = [storage EXCEPT ![card.key] = intent], card' = [card EXCEPT !.pending = intent],
           ~marks.overtaken /\ card.key # Nobody =>
               /\ \A c \in confirms : c.step \in {"latest", "assert"} => ~c.live
               /\ Known(intent, card.key)
               /\ \A i \in OpIds : ops[i].owner = card.key /\ Open(i) => intent.op = i
    PROVE  PageInv'
  <1>0. PageTypeOK /\ CardOfSession /\ LiveCalls
    BY DEF PageInv
  <1>1. /\ card'.up <=> card.up
        /\ card'.busy <=> card.busy
        /\ card'.key = card.key /\ card'.pending = intent /\ card'.prepared = card.prepared
    <2>1. card \in Cards
      BY <1>0 DEF PageTypeOK
    <2> QED BY <2>1 DEF Cards
  <1>2. /\ storage'[card.key] = intent
        /\ \A k \in Keys : k # card.key => storage'[k] = storage[k]
    BY <1>0 DEF PageTypeOK, Cards
  <1>3. CardOfSession'
    BY <1>0, <1>1 DEF CardOfSession, OpIds
  <1>4. LiveCalls'
    BY <1>0, <1>1 DEF LiveCalls, OpIds
  <1>5. ASSUME ~marks'.overtaken PROVE BeforeRecord' /\ Prompts' /\ IntentsRecorded' /\ Shown'
    <2>1. BeforeRecord /\ Prompts /\ IntentsRecorded /\ Shown
      BY <1>5 DEF PageInv
    <2>2. \A i : Open(i)' <=> Open(i)
      BY DEF Open
    <2>3. \A x, a : Known(x, a)' <=> Known(x, a)
      BY DEF Known, OpIds
    <2>4. IntentsRecorded'
      <3>1. \A a \in Accounts : Known(storage'[a], a)
        BY <1>2, <1>5, <2>1, PageAssumption DEF IntentsRecorded, Keys
      <3>2. ASSUME NEW i \in OpIds, Open(i) PROVE storage'[ops[i].owner].op = i
        <4>1. ops[i].owner \in Accounts
          BY <1>0, OpTyped
        <4> QED BY <1>2, <1>5, <2>1, <3>2, <4>1, PageAssumption DEF IntentsRecorded, Keys
      <3> QED BY <2>2, <2>3, <3>1, <3>2 DEF IntentsRecorded, OpIds, Known
    <2>5. Shown'
      BY <1>1, <1>5, <2>2, <2>3 DEF Shown, OpIds, Known
    <2>6. BeforeRecord'
      <3>1. ASSUME NEW c \in confirms, c.step \in {"latest", "assert"}
            PROVE  c.live /\ card.key = Nobody
        BY <1>0, <1>5, <2>1, <3>1 DEF BeforeRecord, CardOfSession
      <3>2. ASSUME NEW c \in confirms, c.step = "assert" PROVE storage'[c.key] = Unsent(c.op)
        <4>1. c.key # Nobody /\ card.key = Nobody /\ c.key \in Keys
          BY <1>0, <2>1, <3>1, <3>2 DEF BeforeRecord, PageTypeOK, Confirms
        <4> QED BY <1>2, <2>1, <3>2, <4>1 DEF BeforeRecord
      <3> QED BY <1>1, <2>1, <2>2, <3>1, <3>2 DEF BeforeRecord, OpIds
    <2>7. Prompts'
      BY <2>1 DEF Prompts
    <2> QED BY <2>4, <2>5, <2>6, <2>7
  <1> QED BY <1>3, <1>4, <1>5 DEF PageInv

LEMMA RecordKeeps ==
    ASSUME PageInv, Poll \/ AckFailure \/ AckApproval \/ Recover
    PROVE  PageInv'
  <1>0. PageTypeOK /\ CardOfSession /\ LiveCalls /\ PageTypeOK'
    BY CardTyped DEF PageInv
  <1>1. CASE Poll \/ AckFailure \/ AckApproval
    <2>1. /\ UNCHANGED <<ops, client, login, reader, confirms, marks>> /\ card.up /\ card.pending.hash
          /\ storage' = [storage EXCEPT ![card.key] = NoIntent] /\ card' = [card EXCEPT !.pending = NoIntent]
          /\ ops[card.pending.op].state \in {"done", "failed"} \/ ~ops[card.pending.op].tracked
      BY <1>1 DEF Poll, AckFailure, AckApproval, Resolved, Waiting
    <2>2. ASSUME ~marks.overtaken, card.key # Nobody
          PROVE  /\ \A c \in confirms : c.step \in {"latest", "assert"} => ~c.live
                 /\ Known(NoIntent, card.key)
                 /\ \A i \in OpIds : ops[i].owner = card.key /\ Open(i) => NoIntent.op = i
      <3>1. BeforeRecord /\ Shown
        BY <2>2 DEF PageInv
      <3>2. Known(NoIntent, card.key)
        BY DEF Known, NoIntent
      <3>3. \A c \in confirms : c.step \in {"latest", "assert"} => ~c.live
        <4>1. \A i : ~Unsent(i).hash
          BY DEF Unsent
        <4>2. ~NoIntent.hash
          BY DEF NoIntent
        <4> QED BY <2>1, <2>2, <3>1, <4>1, <4>2 DEF BeforeRecord
      <3>4. ASSUME NEW i \in OpIds, ops[i].owner = card.key, Open(i) PROVE FALSE
        <4>1. card.pending.op = i /\ Known(card.pending, card.key)
          BY <2>1, <2>2, <3>1, <3>4 DEF Shown
        <4>2. ops[i].state \in {"sent", "done", "failed"}
          BY <2>1, <4>1 DEF Known
        <4> QED BY <2>1, <3>4, <4>1, <4>2 DEF Open
      <3> QED BY <3>2, <3>3, <3>4
    <2> QED BY <1>0, <2>1, <2>2, FixedTyped, RecordChanges
  <1>2. CASE Recover
    <2>0. PICK intent : intent = [op |-> card.pending.op, hash |-> TRUE]
      OBVIOUS
    <2>1. card.pending \in Intents /\ card.pending.op \in Nat
      BY <1>0 DEF PageTypeOK, Cards, Intents
    <2>2. intent \in Intents /\ intent.op = card.pending.op /\ intent.hash
      BY <2>0, <2>1 DEF Intents
    <2>4. /\ UNCHANGED <<ops, client, login, reader, confirms, marks>> /\ card.up /\ ~card.busy
          /\ storage' = [storage EXCEPT ![card.key] = intent]
          /\ ops[card.pending.op].state \in {"sent", "done", "failed"}
          /\ card.pending # NoIntent
      BY <1>2, <2>0 DEF Recover, Waiting
    <2>5. card' = [card EXCEPT !.pending = intent]
      BY <1>2, <2>0 DEF Recover
    <2>6. ASSUME ~marks.overtaken, card.key # Nobody
          PROVE  /\ \A c \in confirms : c.step \in {"latest", "assert"} => ~c.live
                 /\ Known(intent, card.key)
                 /\ \A i \in OpIds : ops[i].owner = card.key /\ Open(i) => intent.op = i
      <3>1. Shown
        BY <2>6 DEF PageInv
      <3>2. card.pending.op # 0
        <4>1. SUFFICES ASSUME card.pending.op = 0 PROVE FALSE
          OBVIOUS
        <4>2. card.pending.hash = FALSE
          BY <2>1, <1>2 DEF Recover, Intents
        <4>3. card.pending = NoIntent
          BY <2>1, <4>1, <4>2 DEF Intents, NoIntent
        <4> QED BY <2>4, <4>3
      <3> QED BY <2>2, <2>4, <2>6, <3>1, <3>2, IdleCard DEF Shown, Known
    <2> QED BY <1>0, <2>2, <2>4, <2>5, <2>6, RecordChanges
  <1> QED BY <1>1, <1>2

----------------------------------------------------------------------------
(* The steps of a call *)

LEMMA CallFacts ==
    ASSUME PageInv, NEW c \in confirms
    PROVE  /\ c \in Confirms /\ c.op \in Nat /\ c.op \in OpIds /\ c.key \in Keys
           /\ ops[c.op].owner \in Accounts /\ ops[c.op].owner # Nobody /\ ops[c.op].owner \in Keys
           /\ c.live => card.up /\ card.key \in {ops[c.op].owner, Nobody} /\ reader.owner # Nobody
  <1>1. c \in Confirms /\ c.op \in OpIds
    BY DEF PageInv, PageTypeOK, LiveCalls
  <1>2. ops[c.op].owner \in Accounts
    BY <1>1, OpTyped DEF PageInv
  <1> QED BY <1>1, <1>2, PageAssumption DEF PageInv, LiveCalls, CardOfSession, Confirms, Keys

\* What a call does to its card: an intent, the end of its work, or nothing when the card is gone.
LEMMA CardFields ==
    ASSUME PageTypeOK, NEW i \in Intents
    PROVE  LET p == [card EXCEPT !.pending = i]
               b == [card EXCEPT !.busy = FALSE]
               pb == [card EXCEPT !.pending = i, !.busy = FALSE]
               pp == [card EXCEPT !.pending = i, !.prepared = 0]
           IN  /\ \A x \in {p, b, pb, pp} : (x.up <=> card.up) /\ x.key = card.key /\ x.prepared \in {card.prepared, 0}
               /\ \A x \in {p, pb, pp} : x.pending = i
               /\ \A x \in {p, pp} : x.busy <=> card.busy
               /\ b.pending = card.pending
  <1>1. card \in Cards
    BY DEF PageTypeOK
  <1> QED BY <1>1 DEF Cards

LEMMA CallsFollow ==
    ASSUME PageInv, NEW c \in confirms, OpIds' = OpIds, \A i \in OpIds : ops'[i].owner = ops[i].owner,
           UNCHANGED <<reader, login>>, client' \in {client, Nobody},
           card'.up <=> card.up, card'.key = card.key, card'.prepared \in {card.prepared, 0},
           ~c.live => (card'.busy <=> card.busy),
           NEW d, d.op = c.op, d.live => c.live,
           \A e \in confirms' : e \in confirms \ {c} \/ (e = d /\ (card'.busy <=> card.busy))
    PROVE  CardOfSession' /\ LiveCalls'
  <1>1. CardOfSession /\ LiveCalls
    BY DEF PageInv
  <1>2. CardOfSession'
    BY <1>1 DEF CardOfSession
  <1>3. ASSUME NEW e \in confirms'
        PROVE  e.op \in OpIds' /\ (e.live => card'.up /\ card'.busy /\ ops'[e.op].owner = reader'.owner)
    <2>1. CASE e \in confirms \ {c}
      <3>1. e.op \in OpIds /\ (e.live => card.up /\ card.busy /\ ops[e.op].owner = reader.owner /\ ~c.live)
        BY <1>1, <2>1 DEF LiveCalls
      <3> QED BY <3>1
    <2>2. CASE e = d /\ (card'.busy <=> card.busy)
      <3>1. c.op \in OpIds /\ (c.live => card.up /\ card.busy /\ ops[c.op].owner = reader.owner)
        BY <1>1 DEF LiveCalls
      <3> QED BY <2>2, <3>1
    <2> QED BY <2>1, <2>2
  <1>4. ASSUME NEW e \in confirms', NEW f \in confirms', e.live, f.live
        PROVE  e = f
    <2>1. \A x \in confirms \ {c} : x.live => ~c.live
      BY <1>1 DEF LiveCalls
    <2> QED BY <1>1, <1>4, <2>1 DEF LiveCalls
  <1> QED BY <1>2, <1>3, <1>4 DEF LiveCalls

\* A call that ends without writing takes only itself away.
LEMMA CallEnds ==
    ASSUME PageInv, PageTypeOK', NEW c \in confirms, Ends(c),
           UNCHANGED <<storage, ops, client, login, reader, marks>>,
           card' = IF c.live THEN [card EXCEPT !.busy = FALSE] ELSE card
    PROVE  PageInv'
  <1>1. /\ card'.up <=> card.up
        /\ card'.key = card.key /\ card'.pending = card.pending /\ card'.prepared \in {card.prepared, 0}
        /\ ~c.live => (card'.busy <=> card.busy)
    BY FixedTyped, CardFields DEF PageInv
  <1>2. CardOfSession' /\ LiveCalls'
    BY <1>1, CallsFollow DEF Ends, OpIds
  <1>3. ASSUME ~marks'.overtaken PROVE BeforeRecord' /\ Prompts' /\ IntentsRecorded' /\ Shown'
    <2>1. BeforeRecord /\ Prompts /\ IntentsRecorded /\ Shown
      BY <1>3 DEF PageInv
    <2>2. confirms' \subseteq confirms
      BY DEF Ends
    <2>3. BeforeRecord'
      BY <1>1, <2>1, <2>2 DEF BeforeRecord, Open, OpIds, Unsent, NoIntent
    <2>4. Prompts'
      BY <2>1, <2>2 DEF Prompts
    <2>5. IntentsRecorded' /\ Shown'
      BY <1>1, <2>1 DEF IntentsRecorded, Shown, Known, Open, OpIds
    <2> QED BY <2>3, <2>4, <2>5
  <1> QED BY <1>2, <1>3 DEF PageInv

LEMMA LatestKeeps ==
    ASSUME PageInv, NEW c \in confirms, ConfirmLatest(c)
    PROVE  PageInv'
  <1>0. PageTypeOK /\ PageTypeOK' /\ c.step = "latest"
    BY CallTyped DEF PageInv, ConfirmLatest
  <1>f. /\ c \in Confirms /\ c.op \in Nat /\ c.op \in OpIds /\ c.key \in Keys
        /\ ops[c.op].owner \in Accounts /\ ops[c.op].owner # Nobody /\ ops[c.op].owner \in Keys
        /\ c.live => card.up /\ card.key \in {ops[c.op].owner, Nobody} /\ reader.owner # Nobody
    BY CallFacts
  <1>1. CASE cookie # ops[c.op].owner
    BY <1>0, <1>1, CallEnds DEF ConfirmLatest
  <1>2. CASE cookie = ops[c.op].owner
    <2>u. Unsent(c.op) \in Intents /\ Unsent(c.op).op = c.op /\ ~Unsent(c.op).hash
      BY <1>f, FixedTyped DEF Unsent
    <2>1. UNCHANGED <<ops, client, login, reader, marks>> /\ storage' = [storage EXCEPT ![c.key] = Unsent(c.op)]
      BY <1>2 DEF ConfirmLatest, Record, Unsent
    <2>2. \/ /\ client = ops[c.op].owner
             /\ confirms' = (confirms \ {c}) \cup {[c EXCEPT !.step = "assert"]}
             /\ card' = IF c.live THEN [card EXCEPT !.pending = Unsent(c.op)] ELSE card
          \/ /\ confirms' = confirms \ {c}
             /\ card' = IF c.live THEN [card EXCEPT !.pending = Unsent(c.op), !.busy = FALSE] ELSE card
      BY <1>2 DEF ConfirmLatest, Becomes, Ends, Unsent
    <2>3. /\ card'.up <=> card.up
          /\ card'.key = card.key /\ card'.prepared \in {card.prepared, 0}
          /\ card'.pending = IF c.live THEN Unsent(c.op) ELSE card.pending
          /\ ~c.live => (card'.busy <=> card.busy)
      BY <1>0, <2>2, <2>u, CardFields
    <2>4. PICK d : d = [c EXCEPT !.step = "assert"]
      OBVIOUS
    <2>5. d.op = c.op /\ d.key = c.key /\ (d.live <=> c.live) /\ d.step = "assert"
      BY <1>f, <2>4 DEF Confirms
    <2>6. CardOfSession' /\ LiveCalls'
      <3>1. CASE /\ confirms' = (confirms \ {c}) \cup {[c EXCEPT !.step = "assert"]}
                 /\ card' = IF c.live THEN [card EXCEPT !.pending = Unsent(c.op)] ELSE card
        <4>1. card'.busy <=> card.busy
          BY <1>0, <2>u, <3>1, CardFields
        <4> QED BY <2>1, <2>3, <2>4, <2>5, <3>1, <4>1, CallsFollow DEF OpIds
      <3>2. CASE confirms' = confirms \ {c}
        BY <2>1, <2>3, <3>2, CallsFollow DEF OpIds
      <3> QED BY <2>2, <3>1, <3>2
    <2>7. ASSUME ~marks'.overtaken PROVE BeforeRecord' /\ Prompts' /\ IntentsRecorded' /\ Shown'
      <3>1. BeforeRecord /\ Prompts /\ IntentsRecorded /\ Shown
        BY <2>1, <2>7 DEF PageInv
      <3>2. /\ ~c.live => reader.owner = Nobody
            /\ c.key \in {ops[c.op].owner, Nobody}
            /\ c.key = Nobody => client = Nobody /\ (c.live => card.key = Nobody)
            /\ c.key # Nobody => \A i \in OpIds : ops[i].owner = c.key => ~Open(i)
            /\ \A e \in confirms : e.step \in {"latest", "assert"} => e = c
        BY <1>0, <3>1 DEF BeforeRecord
      <3>3. storage'[c.key] = Unsent(c.op) /\ \A k \in Keys : k # c.key => storage'[k] = storage[k]
        BY <1>0, <1>f, <2>1 DEF PageTypeOK
      <3>4. \A i : Open(i)' <=> Open(i)
        BY <2>1 DEF Open
      <3>5. \A x, a : Known(x, a)' <=> Known(x, a)
        BY <2>1 DEF Known, OpIds
      <3>6. Known(Unsent(c.op), ops[c.op].owner)
        BY <1>f, <2>u DEF Known
      <3>7. IntentsRecorded'
        <4>1. \A a \in Accounts : Known(storage'[a], a)
          BY <3>1, <3>2, <3>3, <3>6, PageAssumption DEF IntentsRecorded, Keys
        <4>2. ASSUME NEW i \in OpIds, Open(i) PROVE storage'[ops[i].owner].op = i
          <5>1. ops[i].owner \in Accounts
            BY <1>0, OpTyped
          <5> QED BY <3>1, <3>2, <3>3, <4>2, <5>1, PageAssumption DEF IntentsRecorded, Keys
        <4> QED BY <2>1, <3>4, <3>5, <4>1, <4>2 DEF IntentsRecorded, OpIds, Known
      <3>8. Shown'
        <4>1. SUFFICES ASSUME card.up, card.key # Nobody
                       PROVE  /\ Known(Unsent(c.op), card.key)
                              /\ \A i \in OpIds : ops[i].owner = card.key => ~Open(i)
                              /\ c.live
          BY <2>1, <2>3, <3>4, <3>5 DEF Shown, OpIds, Known
        <4>2. c.live
          BY <3>2, <4>1 DEF PageInv, CardOfSession
        <4> QED BY <1>f, <3>2, <3>6, <4>1, <4>2
      <3>9. Prompts'
        BY <2>1, <2>2, <2>4, <2>5, <3>1 DEF Prompts
      <3>10. BeforeRecord'
        <4>1. CASE confirms' = confirms \ {c}
          BY <3>2, <4>1 DEF BeforeRecord
        <4>2. CASE client = ops[c.op].owner /\ confirms' = (confirms \ {c}) \cup {d}
          <5>1. \A e \in confirms' : e.step \in {"latest", "assert"} => e = d
            BY <3>2, <4>2
          <5>2. d.key = ops[c.op].owner /\ d.key # Nobody
            BY <1>f, <2>5, <3>2, <4>2
          <5>3. d.live /\ card'.key # Nobody => card'.pending = Unsent(d.op)
            BY <2>3, <2>5
          <5> QED BY <2>1, <2>5, <3>2, <3>3, <3>4, <5>1, <5>2, <5>3 DEF BeforeRecord, OpIds
        <4> QED BY <2>2, <2>4, <4>1, <4>2
      <3> QED BY <3>7, <3>8, <3>9, <3>10
    <2> QED BY <1>0, <2>6, <2>7 DEF PageInv
  <1> QED BY <1>1, <1>2

\* The prompt: nothing else of the owner is open, so the record is its own.
LEMMA AssertKeeps ==
    ASSUME PageInv, NEW c \in confirms, ConfirmAssert(c)
    PROVE  PageInv'
  <1>0. PageTypeOK /\ PageTypeOK' /\ c.step = "assert"
    BY CallTyped DEF PageInv, ConfirmAssert
  <1>f. /\ c \in Confirms /\ c.op \in Nat /\ c.op \in OpIds /\ c.key \in Keys
        /\ ops[c.op].owner \in Accounts /\ ops[c.op].owner # Nobody /\ ops[c.op].owner \in Keys
        /\ c.live => card.up /\ card.key \in {ops[c.op].owner, Nobody} /\ reader.owner # Nobody
    BY CallFacts
  <1>1. CASE selected # client
    BY <1>0, <1>1, CallEnds DEF ConfirmAssert
  <1>2. CASE selected = client
    <2>1. PICK d : d = [c EXCEPT !.step = "asked", !.current = TRUE]
      OBVIOUS
    <2>2. d.op = c.op /\ d.key = c.key /\ (d.live <=> c.live) /\ d.step = "asked"
      BY <1>f, <2>1 DEF Confirms
    <2>3. /\ UNCHANGED <<storage, card, client, login, reader, marks>> /\ confirms' = (confirms \ {c}) \cup {d}
          /\ ops' = [ops EXCEPT ![c.op].state = "asked"]
      BY <1>2, <2>1 DEF ConfirmAssert, Becomes
    <2>4. /\ OpIds' = OpIds /\ ops'[c.op].state = "asked"
          /\ \A j \in OpIds : ops'[j].owner = ops[j].owner /\ (ops'[j].tracked <=> ops[j].tracked)
          /\ \A j \in OpIds : j # c.op => ops'[j].state = ops[j].state
      <3>1. "asked" \in States
        BY DEF States
      <3> QED BY <1>0, <1>f, <2>3, <3>1, OpMoves
    <2>5. CardOfSession' /\ LiveCalls'
      BY <2>2, <2>3, <2>4, CallsFollow
    <2>6. ASSUME ~marks'.overtaken PROVE BeforeRecord' /\ Prompts' /\ IntentsRecorded' /\ Shown'
      <3>1. BeforeRecord /\ Prompts /\ IntentsRecorded /\ Shown
        BY <2>3, <2>6 DEF PageInv
      <3>2. /\ ~c.live => reader.owner = Nobody
            /\ c.key = ops[c.op].owner
            /\ \A i \in OpIds : ops[i].owner = c.key => ~Open(i)
            /\ storage[c.key] = Unsent(c.op)
            /\ c.live /\ card.key # Nobody => card.pending = Unsent(c.op)
            /\ \A e \in confirms : e.step \in {"latest", "assert"} => e = c
        BY <1>0, <1>f, <3>1 DEF BeforeRecord
      <3>3. \A i \in OpIds : i # c.op => (Open(i)' <=> Open(i))
        BY <2>4 DEF Open
      <3>4. BeforeRecord'
        BY <2>2, <2>3, <3>2 DEF BeforeRecord
      <3>5. Unsent(c.op).op = c.op /\ ~Unsent(c.op).hash
        BY DEF Unsent
      <3>6. ASSUME NEW intent, NEW a, Known(intent, a), a = c.key => ~intent.hash PROVE Known(intent, a)'
        BY <2>4, <3>2, <3>6 DEF Known
      <3>7. Prompts'
        <4>1. \A e \in confirms : e.step = "asked" => e.op # c.op
          BY <1>f, <3>1, <3>2 DEF Prompts, Open
        <4>2. \A e \in confirms : e.op \in OpIds
          BY DEF PageInv, LiveCalls
        <4> QED BY <1>f, <2>2, <2>3, <2>4, <3>1, <3>2, <4>1, <4>2 DEF Prompts
      <3>8. IntentsRecorded'
        <4>1. \A a \in Accounts : Known(storage[a], a)'
          BY <2>3, <3>1, <3>2, <3>5, <3>6 DEF IntentsRecorded
        <4>2. ASSUME NEW i \in OpIds', Open(i)' PROVE storage[ops[i].owner].op = i
          BY <2>4, <3>1, <3>2, <3>3, <3>5, <4>2 DEF IntentsRecorded
        <4> QED BY <2>3, <2>4, <4>1, <4>2 DEF IntentsRecorded, Known
      <3>9. Shown'
        <4>1. SUFFICES ASSUME card.up, card.key # Nobody
                       PROVE  /\ Known(card.pending, card.key)'
                              /\ \A i \in OpIds : ops[i].owner = card.key /\ Open(i)' => card.pending.op = i
          BY <2>3, <2>4 DEF Shown, Known
        <4>2. c.live
          BY <3>2, <4>1 DEF PageInv, CardOfSession
        <4>3. card.pending = Unsent(c.op) /\ card.key = c.key
          BY <1>f, <3>2, <4>1, <4>2
        <4>4. Known(card.pending, card.key)'
          BY <2>3, <3>1, <3>5, <3>6, <4>1, <4>3 DEF Shown
        <4> QED BY <3>2, <3>3, <3>5, <4>3, <4>4
      <3> QED BY <3>4, <3>7, <3>8, <3>9
    <2> QED BY <1>0, <2>5, <2>6 DEF PageInv
  <1> QED BY <1>1, <1>2

\* The wallet answers a prompt: with the hash, with a rejection, or with something else.
LEMMA AnswerKeeps ==
    ASSUME PageInv, NEW c \in confirms, ConfirmSent(c) \/ ConfirmRejected(c) \/ ConfirmUnknown(c)
    PROVE  PageInv'
  <1>0. PageTypeOK /\ PageTypeOK' /\ c.step = "asked"
    BY CallTyped DEF PageInv, ConfirmSent, ConfirmRejected, ConfirmUnknown
  <1>f. /\ c \in Confirms /\ c.op \in Nat /\ c.op \in OpIds /\ c.key \in Keys
        /\ ops[c.op].owner \in Accounts /\ ops[c.op].owner # Nobody /\ ops[c.op].owner \in Keys
        /\ c.live => card.up /\ card.key \in {ops[c.op].owner, Nobody} /\ reader.owner # Nobody
    BY CallFacts
  <1>1. PICK to \in {"sent", "rejected"} :
           /\ ops' = [ops EXCEPT ![c.op].state = to]
           /\ \/ ConfirmRejected(c) /\ to = "rejected"
              \/ (ConfirmSent(c) \/ ConfirmUnknown(c)) /\ to = "sent"
    BY DEF ConfirmSent, ConfirmRejected, ConfirmUnknown
  <1>2. /\ OpIds' = OpIds /\ ops'[c.op].state = to
        /\ \A j \in OpIds : ops'[j].owner = ops[j].owner /\ (ops'[j].tracked <=> ops[j].tracked)
        /\ \A j \in OpIds : j # c.op => ops'[j].state = ops[j].state
    <2>1. to \in States
      BY DEF States
    <2> QED BY <1>0, <1>f, <1>1, <2>1, OpMoves
  <1>3. PICK d : d = [c EXCEPT !.step = "observe"]
    OBVIOUS
  <1>4. d.op = c.op /\ d.key = c.key /\ (d.live <=> c.live) /\ d.step = "observe"
    BY <1>f, <1>3 DEF Confirms
  <1>5. PICK i \in Intents : i = IF to = "sent" THEN [op |-> c.op, hash |-> TRUE] ELSE NoIntent
    <2>1. [op |-> c.op, hash |-> TRUE] \in Intents /\ NoIntent \in Intents
      BY <1>f, FixedTyped
    <2> QED BY <2>1
  <1>6. UNCHANGED <<login, reader, marks>> /\ client' \in {client, Nobody}
    BY DEF ConfirmSent, ConfirmRejected, ConfirmUnknown
  <1>7. \/ storage' = storage /\ to = "sent"
        \/ storage' = [storage EXCEPT ![c.key] = i]
    BY <1>1, <1>5 DEF ConfirmSent, ConfirmRejected, ConfirmUnknown
  <1>8. confirms' = confirms \ {c} \/ confirms' = (confirms \ {c}) \cup {d}
    BY <1>3 DEF ConfirmSent, ConfirmRejected, ConfirmUnknown, Ends, Becomes
  <1>9. /\ card'.up <=> card.up
        /\ card'.key = card.key /\ card'.prepared \in {card.prepared, 0}
        /\ card'.pending = card.pending \/ (c.live /\ card'.pending = i)
        /\ c.live /\ to = "rejected" => card'.pending = i
        /\ ~c.live => (card'.busy <=> card.busy)
        /\ confirms' # confirms \ {c} => (card'.busy <=> card.busy)
    <2>1. CASE ConfirmSent(c) /\ to = "sent"
      <3>1. card' = IF c.live THEN [card EXCEPT !.pending = i, !.prepared = 0] ELSE card
        BY <1>1, <1>5, <2>1 DEF ConfirmSent
      <3> QED BY <1>0, <1>1, <2>1, <3>1, CardFields
    <2>2. CASE ConfirmRejected(c) /\ to = "rejected"
      <3>1. card' = IF c.live THEN [card EXCEPT !.pending = i, !.busy = FALSE] ELSE card
        BY <1>1, <1>5, <2>2 DEF ConfirmRejected
      <3>2. confirms' = confirms \ {c}
        BY <2>2 DEF ConfirmRejected, Ends
      <3> QED BY <1>0, <1>1, <2>2, <3>1, <3>2, CardFields
    <2>3. CASE ConfirmUnknown(c) /\ to = "sent"
      <3>1. card' = IF c.live THEN [card EXCEPT !.busy = FALSE] ELSE card
        BY <2>3 DEF ConfirmUnknown
      <3>2. confirms' = confirms \ {c}
        BY <2>3 DEF ConfirmUnknown, Ends
      <3> QED BY <1>0, <1>1, <2>3, <3>1, <3>2, CardFields
    <2> QED BY <1>1, <2>1, <2>2, <2>3
  <1>10. CardOfSession' /\ LiveCalls'
    BY <1>2, <1>4, <1>6, <1>8, <1>9, CallsFollow
  <1>11. ASSUME ~marks'.overtaken PROVE BeforeRecord' /\ Prompts' /\ IntentsRecorded' /\ Shown'
    <2>1. BeforeRecord /\ Prompts /\ IntentsRecorded /\ Shown
      BY <1>6, <1>11 DEF PageInv
    <2>2. ops[c.op].state = "asked" /\ c.key = ops[c.op].owner /\ storage[c.key].op = c.op
      BY <1>0, <1>f, <2>1 DEF Prompts, IntentsRecorded, Open
    <2>3. \A j \in OpIds : Open(j)' => Open(j)
      BY <1>1, <1>2, <2>2 DEF Open
    <2>4. ASSUME NEW x, NEW a, Known(x, a) PROVE Known(x, a)'
      BY <1>2, <2>2, <2>4 DEF Known
    <2>5. Known(i, c.key)' /\ (to = "sent" => i.op = c.op)
      <3>1. CASE to = "sent"
        <4>1. i.op = c.op /\ c.op # 0
          BY <1>0, <1>f, <1>5, <3>1, OpTyped
        <4> QED BY <1>2, <1>f, <2>2, <3>1, <4>1 DEF Known
      <3>2. CASE to # "sent"
        <4>1. i.op = 0 /\ ~i.hash
          BY <1>5, <3>2 DEF NoIntent
        <4> QED BY <3>2, <4>1 DEF Known
      <3> QED BY <3>1, <3>2
    <2>6. \A j \in OpIds : ops[j].owner = c.key /\ Open(j)' => to = "sent" /\ j = c.op
      BY <1>1, <1>2, <2>1, <2>2, <2>3 DEF IntentsRecorded, Open
    <2>7. \A k \in Keys : k # c.key => storage'[k] = storage[k]
      BY <1>7 DEF PageInv, PageTypeOK
    <2>8. storage'[c.key] = i \/ (storage'[c.key] = storage[c.key] /\ to = "sent")
      BY <1>7, <1>f DEF PageInv, PageTypeOK
    <2>9. IntentsRecorded'
      <3>1. ASSUME NEW a \in Accounts PROVE Known(storage[a], a)'
        <4>1. PICK x : x = storage'[a]
          OBVIOUS
        <4>2. Known(x, a)'
          BY <2>1, <2>4, <2>5, <2>7, <2>8, <4>1 DEF IntentsRecorded, Keys
        <4> QED BY <4>1, <4>2
      <3>2. ASSUME NEW j \in OpIds', Open(j)' PROVE storage'[ops'[j].owner].op = j
        <4>1. ops[j].owner \in Keys
          BY <1>0, <1>2, OpTyped DEF Keys
        <4> QED BY <1>2, <2>1, <2>2, <2>3, <2>5, <2>6, <2>7, <2>8, <3>2, <4>1 DEF IntentsRecorded
      <3> QED BY <3>1, <3>2 DEF IntentsRecorded, Known
    <2>10. Shown'
      <3>1. SUFFICES ASSUME card.up, card.key # Nobody
                     PROVE  /\ Known(card.pending, card.key)'
                            /\ \A j \in OpIds : ops[j].owner = card.key /\ Open(j)' => card'.pending.op = j
        BY <1>2, <1>9 DEF Shown
      <3>2. Known(card.pending, card.key) /\ \A j \in OpIds : ops[j].owner = card.key /\ Open(j) => card.pending.op = j
        BY <2>1, <3>1 DEF Shown
      <3>3. CASE card'.pending = card.pending
        <4>1. PICK x, a : x = card.pending /\ a = card.key
          OBVIOUS
        <4>2. Known(x, a)'
          BY <2>4, <3>2, <4>1
        <4>3. Known(card.pending, card.key)'
          BY <1>9, <3>3, <4>1, <4>2
        <4> QED BY <2>3, <3>2, <3>3, <4>3
      <3>4. CASE c.live /\ card'.pending = i
        <4>1. card.key = c.key
          BY <1>f, <2>2, <3>1, <3>4
        <4>2. Known(card.pending, card.key)'
          BY <1>9, <2>5, <3>4, <4>1
        <4> QED BY <2>5, <2>6, <3>4, <4>1, <4>2
      <3> QED BY <1>9, <3>3, <3>4
    <2>11. Prompts'
      <3>1. \A e \in confirms \ {c} : e.step = "asked" => e.op # c.op
        BY <1>0, <2>1 DEF Prompts
      <3>2. \A e \in confirms : e.op \in OpIds
        BY DEF PageInv, LiveCalls
      <3>3. \A e \in confirms' : e.step = "asked" => e \in confirms \ {c}
        BY <1>4, <1>8
      <3> QED BY <1>2, <2>1, <3>1, <3>2, <3>3 DEF Prompts
    <2>12. BeforeRecord'
      <3>1. \A e \in confirms' : e.step \in {"latest", "assert"} => e \in confirms \ {c}
        BY <1>4, <1>8
      <3>2. ASSUME NEW e \in confirms \ {c}, e.step \in {"latest", "assert"}
            PROVE  /\ ~e.live => reader'.owner = Nobody
                   /\ e.key \in {ops'[e.op].owner, Nobody}
                   /\ e.key = Nobody => e.step = "latest" /\ client' = Nobody /\ (e.live => card'.key = Nobody)
                   /\ e.key # Nobody => \A j \in OpIds' : ops'[j].owner = e.key => ~Open(j)'
                   /\ e.step = "assert" => storage'[e.key] = Unsent(e.op)
                   /\ e.live /\ card'.key # Nobody => card'.pending = IF e.step = "assert" THEN Unsent(e.op) ELSE NoIntent
        <4>1. /\ ~e.live => reader.owner = Nobody
              /\ e.key \in {ops[e.op].owner, Nobody}
              /\ e.key = Nobody => e.step = "latest" /\ client = Nobody /\ (e.live => card.key = Nobody)
              /\ e.key # Nobody => \A j \in OpIds : ops[j].owner = e.key => ~Open(j)
              /\ e.step = "assert" => storage[e.key] = Unsent(e.op)
              /\ e.live /\ card.key # Nobody => card.pending = IF e.step = "assert" THEN Unsent(e.op) ELSE NoIntent
          BY <2>1, <3>2 DEF BeforeRecord
        <4>2. e.op \in OpIds /\ e.key \in Keys /\ (e.live => ~c.live)
          BY <3>2 DEF PageInv, PageTypeOK, LiveCalls, Confirms
        <4>3. e.key # c.key
          BY <1>f, <2>2, <4>1 DEF Open
        <4>4. e.live => card'.pending = card.pending
          BY <1>9, <4>2
        <4> QED BY <1>2, <1>6, <1>9, <2>3, <2>7, <4>1, <4>2, <4>3, <4>4
      <3>3. \A e, g \in confirms' : e.step \in {"latest", "assert"} /\ g.step \in {"latest", "assert"} => e = g
        BY <2>1, <3>1 DEF BeforeRecord
      <3> QED BY <3>1, <3>2, <3>3 DEF BeforeRecord
    <2> QED BY <2>9, <2>10, <2>11, <2>12
  <1> QED BY <1>0, <1>10, <1>11 DEF PageInv

LEMMA CallKeeps ==
    ASSUME PageInv, NEW c \in confirms,
           \/ ConfirmLatest(c) \/ ConfirmAssert(c) \/ ConfirmSent(c) \/ ConfirmRejected(c)
           \/ ConfirmUnknown(c) \/ ConfirmObserved(c) \/ ConfirmFails(c)
    PROVE  PageInv'
  <1>1. CASE ConfirmObserved(c) \/ ConfirmFails(c)
    <2>1. PageTypeOK'
      BY <1>1, CallTyped DEF PageInv
    <2> QED BY <1>1, <2>1, CallEnds DEF ConfirmObserved, ConfirmFails
  <1> QED BY <1>1, LatestKeeps, AssertKeeps, AnswerKeeps

----------------------------------------------------------------------------
(* The theorems *)

LEMMA PageKeeps == PageInv /\ [PageNext]_pageVars => PageInv'
  <1> SUFFICES ASSUME PageInv, [PageNext]_pageVars PROVE PageInv'
    OBVIOUS
  <1>1. CASE UNCHANGED pageVars
    <2>1. UNCHANGED <<storage, ops, confirms, card, reader, client, login, marks>> /\ PageTypeOK'
      BY <1>1 DEF pageVars, PageInv, PageTypeOK
    <2>2. CardOfSession'
      BY <2>1 DEF PageInv, CardOfSession, OpIds
    <2> QED BY <2>1, <2>2, QuietStep
  <1>2. CASE \E c \in confirms :
                \/ ConfirmLatest(c) \/ ConfirmAssert(c) \/ ConfirmSent(c) \/ ConfirmRejected(c)
                \/ ConfirmUnknown(c) \/ ConfirmObserved(c) \/ ConfirmFails(c)
    BY <1>2, CallKeeps
  <1> QED
    BY <1>1, <1>2, LoginKeeps, SessionKeeps, ReadDoneKeeps, PreviewKeeps, ConfirmKeeps, SettlesKeeps, RecordKeeps DEF PageNext

LEMMA PageStarts == PageInit => PageInv
  <1> SUFFICES ASSUME PageInit PROVE PageInv
    OBVIOUS
  <1>1. /\ confirms = {} /\ card = NoCard /\ reader = Disconnected /\ ops = << >>
        /\ storage = [k \in Keys |-> NoIntent]
    BY DEF PageInit
  <1>2. OpIds = {}
    BY <1>1 DEF OpIds
  <1>3. CardOfSession
    BY <1>1, NoCardFields DEF CardOfSession, Disconnected
  <1>4. LiveCalls /\ BeforeRecord /\ Prompts /\ Shown
    BY <1>1, NoCardFields DEF LiveCalls, BeforeRecord, Prompts, Shown
  <1>5. IntentsRecorded
    BY <1>1, <1>2 DEF IntentsRecorded, Known, NoIntent, Keys
  <1> QED BY <1>3, <1>4, <1>5, InitTyped DEF PageInv

\* What the wallet was asked to send to an owner's Vault stays in that owner's localStorage record
\* until it is mined, failed or rejected (TestnetPage.tsx, confirm and readIntent), for any number
\* of accounts, previews, account changes, reloads and failing calls, unless a login overtook a
\* confirmation that had not yet written its record.
THEOREM RecordsKept == PageSpec => []RecordKept
  <1>1. PageInv => RecordKept
    BY DEF PageInv, IntentsRecorded, RecordKept, Open
  <1> QED BY <1>1, PageStarts, PageKeeps, PTL DEF PageSpec

LEMMA SessionStep ==
    ASSUME PageTypeOK, CardOfSession, SessionAccounted, [PageNext]_pageVars
    PROVE  SessionAccounted'
  <1>1. SUFFICES ASSUME ~marks'.troubled
                 PROVE  /\ login'.step = "checking" => cookie' \in {Nobody, login'.owner}
                        /\ login'.step # "checking" /\ logouts' = 0 => cookie' \in {Nobody, reader'.owner, marks'.kept}
    BY DEF SessionAccounted
  <1>2. ASSUME ~marks.troubled
        PROVE  /\ login.step = "checking" => cookie \in {Nobody, login.owner}
               /\ login.step # "checking" /\ logouts = 0 => cookie \in {Nobody, reader.owner, marks.kept}
    BY <1>2 DEF SessionAccounted
  <1>n. NoLogin.step = "idle" /\ Disconnected.owner = Nobody
    BY DEF NoLogin, Disconnected
  <1>3. ASSUME UNCHANGED <<login, cookie, logouts, marks>>, reader'.owner = reader.owner
        PROVE  /\ login'.step = "checking" => cookie' \in {Nobody, login'.owner}
               /\ login'.step # "checking" /\ logouts' = 0 => cookie' \in {Nobody, reader'.owner, marks'.kept}
    BY <1>1, <1>2, <1>3
  <1>4. CASE Login
    <2>1. login' = [NoLogin EXCEPT !.step = "asked"] /\ login'.step = "asked"
      BY <1>4 DEF Login, NoLogin
    <2> QED BY <1>1, <1>2, <1>4, <1>n, <2>1 DEF Login
  <1>5. CASE LoginChallenge
    <2>1. login'.step = "signing"
      BY <1>5 DEF LoginChallenge, PageTypeOK, Logins
    <2> QED BY <1>1, <1>2, <1>5, <2>1 DEF LoginChallenge
  <1>6. CASE LoginSigned
    <2>1. login'.step \in {"verifying", "idle"}
      BY <1>6, <1>n DEF LoginSigned, PageTypeOK, Logins
    <2> QED BY <1>1, <1>2, <1>6, <2>1 DEF LoginSigned
  <1>7. CASE LoginVerified
    <2>1. login'.step = "checking" /\ login'.owner = login.owner
      BY <1>7 DEF LoginVerified, PageTypeOK, Logins
    <2> QED BY <1>7, <2>1 DEF LoginVerified
  <1>8. CASE LoginChecked
    <2>1. CASE login.current /\ selected = login.owner
      <3>1. login'.step = "refreshing" /\ reader'.owner = login.owner /\ cookie' = cookie
        BY <1>8, <2>1 DEF LoginChecked, PageTypeOK, Logins
      <3>2. PICK e : marks' = [marks EXCEPT !.overtaken = e]
        BY <1>8, <2>1 DEF LoginChecked
      <3>3. ~marks.troubled
        BY <1>1, <3>2 DEF PageTypeOK, Marks
      <3> QED BY <1>2, <1>8, <3>1, <3>3 DEF LoginChecked
    <2>2. CASE ~(login.current /\ selected = login.owner)
      <3>1. login' = NoLogin /\ logouts' = logouts + 1
        BY <1>8, <2>2 DEF LoginChecked, StaleLogin, LogsOut
      <3>2. logouts' # 0
        BY <3>1 DEF PageTypeOK
      <3> QED BY <1>n, <3>1, <3>2
    <2> QED BY <2>1, <2>2
  <1>9. CASE LoginDone
    BY <1>1, <1>2, <1>9, <1>n DEF LoginDone
  <1>10. CASE LoginFails
    <2>1. PICK e \in BOOLEAN : e = (marks.troubled \/ login.step = "checking")
      OBVIOUS
    <2>2. marks' = [marks EXCEPT !.troubled = e]
      BY <1>10, <2>1 DEF LoginFails
    <2>3. ~marks.troubled /\ login.step # "checking" /\ marks'.kept = marks.kept
      BY <1>1, <2>1, <2>2 DEF PageTypeOK, Marks
    <2> QED BY <1>2, <1>10, <1>n, <2>3 DEF LoginFails
  <1>11. CASE AccountsChanged \/ Logout
    <2>1. /\ UNCHANGED <<cookie, marks>> /\ logouts' = logouts + 1
          /\ login' = [login EXCEPT !.current = FALSE]
      BY <1>11 DEF AccountsChanged, Logout, Leave, LogsOut
    <2>2. logouts' # 0 /\ login'.step = login.step /\ login'.owner = login.owner
      BY <2>1 DEF PageTypeOK, Logins
    <2> QED BY <1>1, <1>2, <2>1, <2>2
  <1>12. CASE LoggedOut
    BY <1>12 DEF LoggedOut
  <1>13. CASE LogoutLost
    BY <1>1, <1>13 DEF LogoutLost, PageTypeOK, Marks
  <1>14. CASE Reload
    <2>1. login'.step = "idle" /\ marks'.kept = cookie'
      BY <1>14, <1>n DEF Reload, PageTypeOK, Marks
    <2> QED BY <2>1
  <1>15. CASE Refresh
    <2>1. reader'.owner = reader.owner
      BY <1>15 DEF Refresh, PageTypeOK, Readers
    <2> QED BY <1>3, <1>15, <2>1 DEF Refresh
  <1>16. CASE ReadDone \/ ReadFails
    <2>1. /\ UNCHANGED <<cookie, marks, logouts>> /\ login'.step # "checking"
          /\ login.step # "checking" /\ reader.owner # Nobody
      BY <1>16, <1>n DEF ReadDone, ReadFails, AfterReading, CardOfSession
    <2>2. reader'.owner = reader.owner \/ (reader' = Disconnected /\ cookie # reader.owner)
      <3>1. CASE ReadDone
        BY <3>1 DEF ReadDone, Accepted, PageTypeOK, Readers
      <3>2. CASE ReadFails
        <4>1. PICK p : p = IF card.up THEN "STALE" ELSE "DISCONNECTED"
          OBVIOUS
        <4>2. reader' = [reader EXCEPT !.reading = FALSE, !.phase = p]
          BY <3>2, <4>1 DEF ReadFails
        <4> QED BY <4>2 DEF PageTypeOK, Readers
      <3> QED BY <1>16, <3>1, <3>2
    <2> QED BY <1>1, <1>2, <2>1, <2>2
  <1>17. CASE \/ Preview \/ Confirm \/ Settles \/ Poll \/ AckFailure \/ AckApproval \/ Recover
    BY <1>3, <1>17 DEF Preview, Confirm, Settles, Poll, AckFailure, AckApproval, Recover
  <1>18. CASE \E c \in confirms :
                 \/ ConfirmLatest(c) \/ ConfirmAssert(c) \/ ConfirmSent(c) \/ ConfirmRejected(c)
                 \/ ConfirmUnknown(c) \/ ConfirmObserved(c) \/ ConfirmFails(c)
    BY <1>3, <1>18
       DEF ConfirmLatest, ConfirmAssert, ConfirmSent, ConfirmRejected, ConfirmUnknown, ConfirmObserved, ConfirmFails
  <1>19. CASE UNCHANGED pageVars
    BY <1>3, <1>19 DEF pageVars
  <1> QED
    BY <1>4, <1>5, <1>6, <1>7, <1>8, <1>9, <1>10, <1>11, <1>12, <1>13, <1>14, <1>15, <1>16, <1>17, <1>18, <1>19 DEF PageNext

\* Whichever step of a login an account change, a logout or a reload meets, login() takes the session
\* back and the page's logout ends it (testnet-wallet-client.ts, login and logout): once none is under
\* way the cookie is nobody's or the page's, unless a verified login or a logout failed, or the page
\* found it there when it was loaded and nobody has logged in or out since.
THEOREM SessionsAccounted == PageSpec => []NoSessionLeft
  <1> DEFINE Inv == PageInv /\ SessionAccounted
  <1>1. PageInit => Inv
    <2>1. PageInit => SessionAccounted
      BY DEF PageInit, SessionAccounted, NoLogin
    <2> QED BY <2>1, PageStarts
  <1>2. Inv /\ [PageNext]_pageVars => Inv'
    BY PageKeeps, SessionStep DEF PageInv
  <1>3. Inv => NoSessionLeft
    BY DEF SessionAccounted, NoSessionLeft
  <1> HIDE DEF Inv
  <1> QED BY <1>1, <1>2, <1>3, PTL DEF PageSpec
----------------------------------------------------------------------------
(* Logins *)

Issued == [nonce : 1 .. nonces, owner : Wallets, issued : Nat, expires : Nat, consumed : BOOLEAN]
Opened == [nonce : 1 .. nonces, owner : Wallets, issued : Nat, expires : Nat]

AuthTypeOK ==
    /\ clock \in 0 .. MaxTime /\ nonces \in 0 .. MaxNonce
    /\ challenges \subseteq Issued
    /\ sessions \subseteq Opened
    /\ \A v \in checks : v.nonce \in 1 .. nonces /\ v.owner \in Wallets
    /\ logins \in [1 .. MaxNonce -> {0, 1}]

\* A challenge is answered once: while it is open there is no verification of it, and a verification
\* is of a challenge that opened nothing yet.
OneAnswer ==
    /\ \A c, d \in challenges : c.nonce = d.nonce => c = d
    /\ \A v, w \in checks : v.nonce = w.nonce => v = w
    /\ \A v \in checks : logins[v.nonce] = 0 /\ \A c \in challenges : c.nonce = v.nonce => c.consumed
    /\ \A c \in challenges : ~c.consumed => logins[c.nonce] = 0
    /\ \A n \in nonces + 1 .. MaxNonce : logins[n] = 0

\* createSession ends the owner's earlier session, and counts the others.
OneSession ==
    /\ \A s, t \in sessions : s.owner = t.owner => s = t
    /\ IsFiniteSet(sessions) /\ Cardinality(sessions) <= MaxRows

AuthInv == AuthTypeOK /\ OneAnswer /\ OneSession

LEMMA FewerSessions ==
    ASSUME OneSession, NEW S, S \subseteq sessions
    PROVE  /\ \A s, t \in S : s.owner = t.owner => s = t
           /\ IsFiniteSet(S) /\ Cardinality(S) \in Nat /\ Cardinality(S) <= MaxRows
  <1>1. IsFiniteSet(S) /\ Cardinality(S) <= Cardinality(sessions)
    BY FS_Subset DEF OneSession
  <1>2. Cardinality(S) \in Nat /\ Cardinality(sessions) \in Nat /\ MaxRows \in Nat
    BY <1>1, FS_CardinalityType, AuthAssumption DEF OneSession
  <1> QED BY <1>1, <1>2 DEF OneSession

LEMMA AuthStarts == AuthInit => AuthInv
  <1> SUFFICES ASSUME AuthInit PROVE AuthInv
    OBVIOUS
  <1>1. MaxNonce \in Nat /\ MaxTime \in Nat /\ MaxRows \in Nat
    BY AuthAssumption
  <1>2. IsFiniteSet(sessions) /\ Cardinality(sessions) = 0
    BY FS_EmptySet DEF AuthInit
  <1> QED BY <1>1, <1>2 DEF AuthInit, AuthInv, AuthTypeOK, OneAnswer, OneSession

LEMMA IssueKeeps == AuthInv /\ Issue => AuthInv'
  <1> SUFFICES ASSUME AuthInv, Issue PROVE AuthInv'
    OBVIOUS
  <1> DEFINE Kept(o) == {c \in Live(challenges) : c.owner # o}
             New(o) == [nonce |-> nonces + 1, owner |-> o, issued |-> clock,
                        expires |-> clock + ChallengeTtl, consumed |-> FALSE]
  <1>1. PICK o \in Wallets :
           IF Cardinality(Kept(o)) >= MaxRows THEN challenges' = Kept(o) /\ UNCHANGED nonces
           ELSE nonces' = nonces + 1 /\ challenges' = Kept(o) \cup {New(o)}
    BY DEF Issue
  <1>2. /\ sessions' \subseteq sessions /\ Kept(o) \subseteq challenges /\ nonces < MaxNonce
        /\ UNCHANGED <<clock, checks, logins>>
    BY DEF Issue, Live
  <1>3. MaxNonce \in Nat /\ MaxTime \in Nat /\ ChallengeTtl \in Nat /\ nonces \in Nat /\ clock \in Nat
    BY AuthAssumption DEF AuthInv, AuthTypeOK
  <1>4. OneSession'
    BY <1>2, FewerSessions DEF AuthInv, OneSession
  <1>5. CASE challenges' = Kept(o) /\ UNCHANGED nonces
    <2> HIDE DEF Kept
    <2>1. AuthTypeOK'
      BY <1>2, <1>5 DEF AuthInv, AuthTypeOK, Issued, Opened
    <2>2. OneAnswer'
      BY <1>2, <1>5 DEF AuthInv, OneAnswer
    <2> QED BY <1>4, <2>1, <2>2 DEF AuthInv
  <1>6. CASE nonces' = nonces + 1 /\ challenges' = Kept(o) \cup {New(o)}
    <2> HIDE DEF Kept
    <2>1. AuthTypeOK'
      <3>1. New(o) \in Issued'
        BY <1>3, <1>6 DEF Issued
      <3>2. Issued \subseteq Issued' /\ Opened \subseteq Opened'
        BY <1>3, <1>6 DEF Issued, Opened
      <3>3. challenges' \subseteq Issued'
        BY <1>2, <1>6, <3>1, <3>2 DEF AuthInv, AuthTypeOK
      <3>4. sessions' \subseteq Opened'
        BY <1>2, <3>2 DEF AuthInv, AuthTypeOK
      <3>5. \A v \in checks : v.nonce \in 1 .. nonces' /\ v.owner \in Wallets
        BY <1>3, <1>6 DEF AuthInv, AuthTypeOK
      <3> QED BY <1>2, <1>3, <1>6, <3>3, <3>4, <3>5 DEF AuthInv, AuthTypeOK
    <2>2. \A c \in Kept(o) : c.nonce # New(o).nonce
      BY <1>2, <1>3 DEF AuthInv, AuthTypeOK, Issued
    <2>3. \A v \in checks : v.nonce # New(o).nonce
      BY <1>3 DEF AuthInv, AuthTypeOK
    <2>4. logins[New(o).nonce] = 0
      BY <1>2, <1>3 DEF AuthInv, OneAnswer
    <2>5. New(o).consumed = FALSE
      OBVIOUS
    <2>6. \A n \in nonces' + 1 .. MaxNonce : logins[n] = 0
      BY <1>3, <1>6 DEF AuthInv, OneAnswer
    <2> HIDE DEF New
    <2>7. OneAnswer'
      BY <1>2, <1>6, <2>2, <2>3, <2>4, <2>5, <2>6 DEF AuthInv, OneAnswer
    <2> QED BY <1>4, <2>1, <2>7 DEF AuthInv
  <1> QED BY <1>1, <1>5, <1>6

LEMMA VerifyKeeps == AuthInv /\ Verify => AuthInv'
  <1> SUFFICES ASSUME AuthInv, Verify PROVE AuthInv'
    OBVIOUS
  <1>1. PICK c \in challenges :
           /\ ~c.consumed /\ challenges' = Marked(c)
           /\ checks' = checks \cup {[id |-> Cardinality(checks), nonce |-> c.nonce, owner |-> c.owner]}
    BY DEF Verify, Current
  <1>2. UNCHANGED <<clock, sessions, nonces, logins>>
    BY DEF Verify
  <1> DEFINE v == [id |-> Cardinality(checks), nonce |-> c.nonce, owner |-> c.owner]
             m == [c EXCEPT !.consumed = TRUE]
  <1>3. c \in Issued /\ m \in Issued /\ m.nonce = c.nonce /\ m.consumed
    BY DEF AuthInv, AuthTypeOK, Issued
  <1>4. v.nonce = c.nonce /\ v.owner = c.owner /\ c.nonce \in 1 .. nonces /\ c.owner \in Wallets
    BY <1>3 DEF Issued
  <1>5. challenges' = (challenges \ {c}) \cup {m} /\ checks' = checks \cup {v}
    BY <1>1 DEF Marked
  <1> HIDE DEF v, m
  <1>6. AuthTypeOK'
    <2>1. challenges' \subseteq Issued
      BY <1>3, <1>5 DEF AuthInv, AuthTypeOK
    <2> QED BY <1>2, <1>4, <1>5, <2>1 DEF AuthInv, AuthTypeOK, Issued, Opened
  <1>7. OneAnswer'
    BY <1>1, <1>2, <1>3, <1>4, <1>5 DEF AuthInv, OneAnswer
  <1>8. OneSession'
    BY <1>2 DEF AuthInv, OneSession
  <1> QED BY <1>6, <1>7, <1>8 DEF AuthInv

LEMMA VerifiedKeeps == AuthInv /\ Verified => AuthInv'
  <1> SUFFICES ASSUME AuthInv, Verified PROVE AuthInv'
    OBVIOUS
  <1> DEFINE Kept(v) == {s \in Live(sessions) : s.owner # v.owner}
             New(v) == [nonce |-> v.nonce, owner |-> v.owner, issued |-> clock, expires |-> clock + SessionTtl]
  <1>1. PICK v \in checks :
           /\ checks' = checks \ {v}
           /\ IF Cardinality(Kept(v)) >= MaxRows THEN sessions' = Kept(v) /\ UNCHANGED logins
              ELSE /\ sessions' = Kept(v) \cup {New(v)}
                   /\ logins' = [logins EXCEPT ![v.nonce] = @ + 1]
    BY DEF Verified
  <1>2. challenges' \subseteq challenges /\ Kept(v) \subseteq sessions /\ UNCHANGED <<clock, nonces>>
    BY DEF Verified, Live
  <1>3. MaxNonce \in Nat /\ nonces \in 0 .. MaxNonce /\ clock \in Nat /\ SessionTtl \in Nat /\ MaxRows \in Nat
    BY AuthAssumption DEF AuthInv, AuthTypeOK
  <1>4. v.nonce \in 1 .. MaxNonce /\ v.nonce \in 1 .. nonces /\ v.owner \in Wallets /\ logins[v.nonce] = 0
    BY <1>3 DEF AuthInv, AuthTypeOK, OneAnswer
  <1>5. /\ \A s, t \in Kept(v) : s.owner = t.owner => s = t
        /\ IsFiniteSet(Kept(v)) /\ Cardinality(Kept(v)) \in Nat /\ Cardinality(Kept(v)) <= MaxRows
    BY <1>2, FewerSessions DEF AuthInv
  <1>6. \A s \in Kept(v) : s.owner # v.owner
    OBVIOUS
  <1>7. New(v).owner = v.owner /\ New(v) \in Opened
    BY <1>3, <1>4 DEF Opened
  <1> HIDE DEF Kept, New
  <1>8. CASE sessions' = Kept(v) /\ UNCHANGED logins
    <2>1. AuthTypeOK'
      BY <1>1, <1>2, <1>8 DEF AuthInv, AuthTypeOK, Issued, Opened
    <2>2. OneAnswer'
      BY <1>1, <1>2, <1>8 DEF AuthInv, OneAnswer
    <2> QED BY <1>5, <1>8, <2>1, <2>2 DEF AuthInv, OneSession
  <1>9. CASE /\ ~(Cardinality(Kept(v)) >= MaxRows) /\ sessions' = Kept(v) \cup {New(v)}
             /\ logins' = [logins EXCEPT ![v.nonce] = @ + 1]
    <2>0. logins' \in [1 .. MaxNonce -> {0, 1}] /\ \A n \in 1 .. MaxNonce : n # v.nonce => logins'[n] = logins[n]
      BY <1>4, <1>9 DEF AuthInv, AuthTypeOK
    <2>1. AuthTypeOK'
      <3>1. sessions' \subseteq Opened
        BY <1>2, <1>7, <1>9 DEF AuthInv, AuthTypeOK
      <3> QED BY <1>1, <1>2, <2>0, <3>1 DEF AuthInv, AuthTypeOK, Issued, Opened
    <2>2. \A w \in checks' : w \in checks /\ w.nonce # v.nonce /\ w.nonce \in 1 .. MaxNonce
      BY <1>1, <1>3 DEF AuthInv, OneAnswer, AuthTypeOK
    <2>3. \A c \in challenges' : c \in challenges /\ (~c.consumed => c.nonce # v.nonce) /\ c.nonce \in 1 .. MaxNonce
      BY <1>2, <1>3 DEF AuthInv, OneAnswer, AuthTypeOK, Issued
    <2>4. \A n \in nonces' + 1 .. MaxNonce : n \in 1 .. MaxNonce /\ n # v.nonce
      BY <1>2, <1>3, <1>4
    <2>5. OneAnswer'
      BY <1>2, <2>0, <2>2, <2>3, <2>4 DEF AuthInv, OneAnswer
    <2>6. New(v) \notin Kept(v)
      BY <1>6, <1>7
    <2>7. IsFiniteSet(sessions') /\ Cardinality(sessions') = Cardinality(Kept(v)) + 1
      BY <1>5, <1>9, <2>6, FS_AddElement
    <2>8. OneSession'
      BY <1>3, <1>5, <1>6, <1>7, <1>9, <2>7 DEF OneSession
    <2> QED BY <2>1, <2>5, <2>8 DEF AuthInv
  <1> QED BY <1>1, <1>8, <1>9

LEMMA AuthKeeps == AuthInv /\ [AuthNext]_authVars => AuthInv'
  <1> SUFFICES ASSUME AuthInv, [AuthNext]_authVars PROVE AuthInv'
    OBVIOUS
  <1>1. CASE Clock
    BY <1>1 DEF Clock, AuthInv, AuthTypeOK, OneAnswer, OneSession, Issued, Opened
  <1>2. CASE Refused
    BY <1>2 DEF Refused, AuthInv, AuthTypeOK, OneAnswer, OneSession, Issued, Opened
  <1>3. CASE EndSession
    <2>1. sessions' \subseteq sessions /\ UNCHANGED <<clock, challenges, checks, nonces, logins>>
      BY <1>3 DEF EndSession
    <2>2. OneSession'
      BY <2>1, FewerSessions DEF AuthInv, OneSession
    <2> QED BY <2>1, <2>2 DEF AuthInv, AuthTypeOK, OneAnswer, Issued, Opened
  <1>4. CASE UNCHANGED authVars
    BY <1>4 DEF authVars, AuthInv, AuthTypeOK, OneAnswer, OneSession, Issued, Opened
  <1> QED BY <1>1, <1>2, <1>3, <1>4, IssueKeeps, VerifyKeeps, VerifiedKeeps DEF AuthNext

\* A signature opens at most one session and no owner has two, for any wallets, limits and lifetimes,
\* whatever requests carry the signature while its verification is awaited and however the clock
\* moves (wallet-auth.ts, consume and createSession).
THEOREM LoginsOnce == AuthSpec => []OneLoginPerSignature
  <1>1. AuthInv => OneLoginPerSignature
    BY DEF AuthInv, AuthTypeOK, OneSession, OneLoginPerSignature
  <1> QED BY <1>1, AuthStarts, AuthKeeps, PTL DEF AuthSpec

\* The server's logins and the page, each at its own pace: a signature opens one session, an owner has
\* one, and the cookie's is the page's own once no login or logout is under way, but for a verified
\* login or a logout that failed and for the session a load of the page found there and no login or
\* logout has replaced since (wallet-auth.ts; testnet-wallet-client.ts, login and logout).
THEOREM SessionsEndCorrect == AuthSpec /\ PageSpec => []SessionsEnd
  <1>1. OneLoginPerSignature /\ NoSessionLeft => SessionsEnd
    BY DEF SessionsEnd
  <1> QED BY <1>1, LoginsOnce, SessionsAccounted, PTL

----------------------------------------------------------------------------
(* The server of the public testnet *)

Phases == {"NONE", "AWAITING_SIGNATURE", "SUBMITTED", "REORGED"} \cup Included
Operations == [state : Phases, hash : Hashes \cup {NoHash}]
Disks == [height : Nat, op : Operations, evidence : SUBSET Nat]
VaultCopies == [height : Nat, op : Operations]
Folders == [vault : VaultCopies, marked : VaultCopies, evidence : SUBSET Nat, manifest : BOOLEAN]
BackupSteps == {"marking", "copying", "evidence", "verifying"}
JobSteps == {"idle", "indexing", "tracking", "reconciling", "tracked"} \cup BackupSteps
Calls == [hash : Hashes, epoch : Nat, op : Operations]

ServerTypeOK ==
    /\ lock \in BOOLEAN
    /\ folders \in Seq(Folders)
    /\ server \in {"down", "starting", "up", "closing"}
    /\ disk \in Disks
    /\ health \in {"NOT_RUN", "SYNCING", "HEALTHY", "DEGRADED"}
    /\ pause \in [on : BOOLEAN, epoch : Nat]
    /\ tail \in Seq({"sync", "backup"})
    /\ job \in [step : JobSteps, seen : Operations]
    /\ calls \in Seq(Calls)
    /\ report \in [last : Nat, verified : BOOLEAN, failed : BOOLEAN]
    /\ spare \in [backups : Nat, calls : Nat, faults : Nat]

\* A backup in the tail is the only one, and writes are paused for it.
BackupPauses ==
    /\ \A i \in DOMAIN tail : tail[i] = "backup" => pause.on
    /\ \A i, j \in DOMAIN tail : tail[i] = "backup" /\ tail[j] = "backup" => i = j
    /\ server \in {"down", "starting"} => tail = << >>

\* What the backup under way has copied so far is what the databases hold now.
BackupCurrent ==
    job.step \in BackupSteps =>
        /\ tail # << >> /\ tail[1] = "backup"
        /\ folders # << >> /\ ~folders[Len(folders)].manifest
        /\ job.step # "marking" => folders[Len(folders)].marked = Vault(disk)
        /\ job.step \in {"evidence", "verifying"} => folders[Len(folders)].vault = Vault(disk)
        /\ job.step = "verifying" => folders[Len(folders)].evidence = disk.evidence

\* n is the last backup with a manifest.
IsNewest(n) ==
    \/ n = 0 /\ \A i \in DOMAIN folders : ~folders[i].manifest
    \/ n \in DOMAIN folders /\ folders[n].manifest /\ \A j \in DOMAIN folders : folders[j].manifest => j <= n

ReportCurrent ==
    /\ server # "down" => IsNewest(report.last)
    /\ report.verified => report.last # 0

ServerInv == ServerTypeOK /\ BackupPauses /\ BackupCurrent /\ ReportCurrent

\* A set of numbers has a least one.
LEMMA LeastNumber ==
    ASSUME NEW S \in SUBSET Nat, S # {}
    PROVE  \E n \in S : \A m \in S : n <= m
<1> DEFINE R == OpToRel(<, Nat)
<1>1. IsWellFoundedOn(R, Nat)
  BY NatLessThanWellFounded
<1>2. \A x, y \in Nat : x < y => <<x, y>> \in R
  BY DEF OpToRel
<1> HIDE DEF R
<1>3. \E x \in S : \A y \in S : ~(<<y, x>> \in R)
  BY <1>1, WFMin
<1>4. PICK n \in S : \A y \in S : ~(<<y, n>> \in R)
  BY <1>3
<1>5. ASSUME NEW m \in S PROVE n <= m
  <2>1. n \in Nat /\ m \in Nat /\ ~(<<m, n>> \in R)
    BY <1>4
  <2>2. ~(m < n)
    BY <1>2, <2>1
  <2> QED
    BY <2>1, <2>2
<1> QED
  BY <1>5

LEMMA Undisturbed ==
    ASSUME ServerInv, Running("sync") \/ ~pause.on
    PROVE  job.step \notin BackupSteps
  BY DEF ServerInv, ServerTypeOK, BackupPauses, BackupCurrent, Running

LEMMA IdleStep == Idle.step = "idle" /\ Idle.seen = NoOperation
  BY DEF Idle

LEMMA IdleTyped == NoOperation \in Operations /\ Idle \in [step : JobSteps, seen : Operations] /\ Nothing \in VaultCopies
  BY DEF NoOperation, Operations, Phases, Idle, JobSteps, Nothing, VaultCopies

\* The last backup with a manifest exists: there are finitely many.
LEMMA NewestIsNewest == folders \in Seq(Folders) => IsNewest(Newest)
  <1> SUFFICES ASSUME folders \in Seq(Folders) PROVE IsNewest(Newest)
    OBVIOUS
  <1> DEFINE M == {i \in DOMAIN folders : folders[i].manifest}
  <1>1. CASE M = {}
    BY <1>1 DEF Newest, IsNewest
  <1>2. CASE M # {}
    <2>1. M \subseteq 1 .. Len(folders) /\ Len(folders) \in Nat
      OBVIOUS
    <2>2. \E n \in M : \A j \in M : j <= n
      <3> DEFINE U == {n \in Nat : \A j \in M : j <= n}
      <3>1. Len(folders) \in U
        BY <2>1
      <3>2. PICK n \in U : \A k \in 0 .. n - 1 : k \notin U
        <4>1. \E n \in U : \A k \in U : ~(k < n)
          <5> HIDE DEF U
          <5>1. U \subseteq Nat
            BY DEF U
          <5>2. PICK n \in U : \A k \in U : n <= k
            BY <3>1, <5>1, LeastNumber
          <5> QED BY <5>1, <5>2
        <4> QED BY <4>1
      <3>3. n \in M
        <4>1. CASE n = 0
          BY <1>2, <2>1, <4>1
        <4>2. CASE n # 0
          <5>1. n - 1 \notin U /\ n - 1 \in Nat /\ n \in Nat
            BY <3>2, <4>2
          <5>2. PICK j \in M : ~(j <= n - 1)
            BY <5>1
          <5>3. j <= n /\ j \in Nat
            BY <2>1
          <5> QED BY <5>1, <5>2, <5>3
        <4> QED BY <4>1, <4>2
      <3> QED BY <3>3
    <2>3. PICK n \in DOMAIN folders : folders[n].manifest /\ \A j \in DOMAIN folders : folders[j].manifest => j <= n
      BY <2>2
    <2> QED BY <2>3 DEF Newest, IsNewest
  <1> QED BY <1>1, <1>2

LEMMA NewestOnly == ASSUME folders \in Seq(Folders), NEW n, IsNewest(n) PROVE n = Newest
  <1>1. IsNewest(Newest)
    BY NewestIsNewest
  <1>2. DOMAIN folders \subseteq Nat /\ 0 \notin DOMAIN folders
    OBVIOUS
  <1> QED BY <1>1, <1>2 DEF IsNewest

LEMMA MemoryFresh ==
    ASSUME NEW n \in Nat, Memory(n)
    PROVE  /\ tail' = << >> /\ job' = Idle /\ calls' = << >> /\ health' = "NOT_RUN"
           /\ pause' \in [on : BOOLEAN, epoch : Nat] /\ report' \in [last : Nat, verified : BOOLEAN, failed : BOOLEAN]
           /\ report'.last = n /\ ~report'.verified
  BY DEF Memory

LEMMA FaultTyped == ServerTypeOK /\ Fault => spare' \in [backups : Nat, calls : Nat, faults : Nat]
  <1> SUFFICES ASSUME ServerTypeOK, Fault PROVE spare' \in [backups : Nat, calls : Nat, faults : Nat]
    OBVIOUS
  <1>1. spare \in [backups : Nat, calls : Nat, faults : Nat] /\ spare.faults > 0
    BY DEF ServerTypeOK, Fault
  <1>2. spare.faults - 1 \in Nat
    BY <1>1
  <1> QED BY <1>1, <1>2 DEF Fault

\* A step that leaves the tail, the folders and the report alone, and the databases and the job
\* while a backup is under way.
LEMMA AsideKeeps ==
    ASSUME ServerInv, ServerTypeOK', UNCHANGED <<folders, pause, tail, report>>,
           server' = server \/ (server = "up" /\ server' = "closing"),
           job'.step \in BackupSteps => job' = job /\ disk' = disk
    PROVE  ServerInv'
  <1>1. BackupPauses'
    BY DEF ServerInv, BackupPauses
  <1>2. BackupCurrent'
    BY DEF ServerInv, BackupCurrent, Vault
  <1>3. ReportCurrent'
    BY DEF ServerInv, ReportCurrent, IsNewest
  <1> QED BY <1>1, <1>2, <1>3 DEF ServerInv

\* A process that begins or ends.
LEMMA FreshKeeps ==
    ASSUME ServerInv, NEW n \in Nat, Memory(n), UNCHANGED <<folders, disk>>, lock' \in BOOLEAN,
           spare' \in [backups : Nat, calls : Nat, faults : Nat],
           \/ server' = "down"
           \/ server' = "starting" /\ n = Newest
    PROVE  ServerInv'
  <1>0. /\ tail' = << >> /\ job' = Idle /\ calls' = << >> /\ health' = "NOT_RUN"
        /\ pause' \in [on : BOOLEAN, epoch : Nat] /\ report' \in [last : Nat, verified : BOOLEAN, failed : BOOLEAN]
        /\ report'.last = n /\ ~report'.verified
    BY MemoryFresh
  <1>1. ServerTypeOK'
    BY <1>0, IdleTyped DEF ServerInv, ServerTypeOK
  <1>2. BackupPauses'
    BY <1>0 DEF BackupPauses
  <1>3. BackupCurrent'
    BY <1>0, IdleStep DEF BackupCurrent, BackupSteps
  <1>4. server' # "down" => IsNewest(n)
    BY NewestIsNewest DEF ServerInv, ServerTypeOK
  <1>5. ReportCurrent'
    BY <1>0, <1>4 DEF ReportCurrent, IsNewest
  <1> QED BY <1>1, <1>2, <1>3, <1>5 DEF ServerInv

LEMMA NewestTyped == folders \in Seq(Folders) => Newest \in Nat
  <1> SUFFICES ASSUME folders \in Seq(Folders) PROVE Newest \in Nat
    OBVIOUS
  <1>1. DOMAIN folders \subseteq Nat
    OBVIOUS
  <1> QED BY <1>1, NewestIsNewest DEF IsNewest

LEMMA ProcessKeeps ==
    ASSUME ServerInv, Start \/ Listen \/ StartFails \/ Close \/ Closed \/ Crash \/ Unlock
    PROVE  ServerInv'
  <1>1. CASE Start
    <2>1. Newest \in Nat
      BY NewestTyped DEF ServerInv, ServerTypeOK
    <2> QED BY <1>1, <2>1, FreshKeeps DEF Start, TakeLock, ServerInv, ServerTypeOK
  <1>2. CASE Closed \/ Crash
    <2>1. spare' \in [backups : Nat, calls : Nat, faults : Nat]
      BY <1>2, FaultTyped DEF Closed, Crash, ServerInv, ServerTypeOK
    <2>2. server' = "down" /\ Memory(0) /\ UNCHANGED <<folders, disk>> /\ lock' \in BOOLEAN
      BY <1>2 DEF Closed, Crash, FreeLock, ServerInv, ServerTypeOK
    <2> QED BY <2>1, <2>2, FreshKeeps
  <1>3. CASE Listen
    <2>1. PICK b \in BOOLEAN : b = (report.last # 0)
      OBVIOUS
    <2>2. report' = [report EXCEPT !.verified = b]
      BY <1>3, <2>1 DEF Listen, VerifyLatest
    <2>3. /\ report' \in [last : Nat, verified : BOOLEAN, failed : BOOLEAN]
          /\ report'.last = report.last /\ (report'.verified => report.last # 0)
      BY <2>1, <2>2 DEF ServerInv, ServerTypeOK
    <2>4. ServerTypeOK'
      BY <1>3, <2>3 DEF Listen, ServerInv, ServerTypeOK
    <2>5. ReportCurrent'
      BY <1>3, <2>3 DEF Listen, ServerInv, ReportCurrent, IsNewest
    <2> QED BY <1>3, <2>4, <2>5 DEF Listen, ServerInv, BackupPauses, BackupCurrent, Vault
  <1>4. CASE StartFails
    <2>1. ServerTypeOK'
      BY <1>4, FaultTyped DEF StartFails, FreeLock, ServerInv, ServerTypeOK
    <2> QED BY <1>4, <2>1 DEF StartFails, ServerInv, BackupPauses, BackupCurrent, ReportCurrent, Vault
  <1>5. CASE Close
    <2>1. ServerTypeOK'
      BY <1>5, FaultTyped DEF Close, ServerInv, ServerTypeOK
    <2> QED BY <1>5, <2>1, AsideKeeps DEF Close
  <1>6. CASE Unlock
    <2>1. ServerTypeOK'
      BY <1>6 DEF Unlock, ServerInv, ServerTypeOK
    <2> QED BY <1>6, <2>1, AsideKeeps DEF Unlock
  <1> QED BY <1>1, <1>2, <1>3, <1>4, <1>5, <1>6

LEMMA OpChanges ==
    ASSUME ServerTypeOK, NEW to \in Phases
    PROVE  /\ [disk EXCEPT !.op.state = to] \in Disks
           /\ [disk EXCEPT !.op.state = to].op.hash = disk.op.hash
           /\ [disk EXCEPT !.op.state = to].op \in Operations
  <1>1. disk \in Disks /\ disk.op \in Operations
    BY DEF ServerTypeOK, Disks
  <1>2. [disk.op EXCEPT !.state = to] \in Operations /\ [disk.op EXCEPT !.state = to].hash = disk.op.hash
    BY <1>1 DEF Operations
  <1>3. [disk EXCEPT !.op.state = to] = [disk EXCEPT !.op = [disk.op EXCEPT !.state = to]]
    OBVIOUS
  <1>4. ASSUME NEW o \in Operations
        PROVE  [disk EXCEPT !.op = o] \in Disks /\ [disk EXCEPT !.op = o].op = o
    BY <1>1 DEF Disks
  <1> QED BY <1>2, <1>3, <1>4

LEMMA TallerTyped ==
    ASSUME NEW d \in Disks
    PROVE  /\ [d EXCEPT !.height = @ + 1] \in Disks
           /\ [d EXCEPT !.height = @ + 1].op = d.op
  BY DEF Disks

\* What the synchronisation and the owner's requests do to the operation: it keeps a hash it has.
LEMMA IndexDisk ==
    ASSUME ServerTypeOK, SyncIndex
    PROVE  disk' \in Disks /\ disk'.op.hash = disk.op.hash
  <1>0. disk \in Disks /\ disk.op \in Operations
    BY DEF ServerTypeOK, Disks
  <1>1. CASE disk' = [disk EXCEPT !.height = @ + 1]
    BY <1>0, <1>1, TallerTyped
  <1>2. CASE disk' = disk
    BY <1>0, <1>2
  <1>3. CASE disk' = [disk EXCEPT !.op.state = "REORGED", !.height = @ + 1]
    <2> DEFINE d == [disk EXCEPT !.op.state = "REORGED"]
    <2>1. d \in Disks /\ d.op.hash = disk.op.hash
      BY OpChanges DEF Phases
    <2>2. disk' = [d EXCEPT !.height = @ + 1]
      BY <1>0, <1>3 DEF Disks
    <2> HIDE DEF d
    <2> QED BY <2>1, <2>2, TallerTyped
  <1> QED BY <1>1, <1>2, <1>3 DEF SyncIndex

LEMMA JobMoves ==
    ASSUME ServerTypeOK, NEW at \in JobSteps
    PROVE  /\ [job EXCEPT !.step = at] \in [step : JobSteps, seen : Operations]
           /\ [job EXCEPT !.step = at].step = at
  BY DEF ServerTypeOK

LEMMA SyncKeeps ==
    ASSUME ServerInv, SyncBegin \/ SyncIndex \/ SyncReceipt \/ SyncResume \/ SyncReconcile
    PROVE  ServerInv' /\ disk'.op.hash = disk.op.hash
  <1>0. ServerTypeOK /\ disk \in Disks /\ disk.op \in Operations
    BY DEF ServerInv, ServerTypeOK, Disks
  <1>1. /\ UNCHANGED <<lock, folders, server, pause, tail, calls, report, spare>>
        /\ health' \in {health, "SYNCING"}
    BY DEF SyncBegin, SyncIndex, SyncReceipt, SyncResume, SyncReconcile
  <1>2. /\ disk' \in Disks /\ disk'.op.hash = disk.op.hash
        /\ job' \in [step : JobSteps, seen : Operations] /\ job'.step \notin BackupSteps
    <2>1. CASE SyncBegin
      BY <1>0, <2>1, JobMoves DEF SyncBegin, JobSteps, BackupSteps
    <2>2. CASE SyncIndex
      BY <1>0, <2>2, JobMoves, IndexDisk DEF SyncIndex, JobSteps, BackupSteps
    <2>3. CASE SyncReceipt
      <3>1. PICK to \in {"MINED", "REVERTED"} :
               /\ disk' = [disk EXCEPT !.op.state = to]
               /\ job' = [step |-> IF to = "MINED" THEN "reconciling" ELSE "tracked", seen |-> disk'.op]
        BY <2>3 DEF SyncReceipt
      <3>2. to \in Phases
        BY DEF Phases, Included
      <3>3. disk' \in Disks /\ disk'.op.hash = disk.op.hash /\ disk'.op \in Operations
        BY <1>0, <3>1, <3>2, OpChanges
      <3> QED BY <3>1, <3>3 DEF JobSteps, BackupSteps
    <2>4. CASE SyncResume
      BY <1>0, <2>4 DEF SyncResume, JobSteps, BackupSteps
    <2>5. CASE SyncReconcile
      <3>1. PICK verdict \in Verdicts :
               disk' = IF disk.op = job.seen THEN [disk EXCEPT !.op.state = verdict] ELSE disk
        BY <2>5 DEF SyncReconcile
      <3>2. verdict \in Phases
        BY DEF Verdicts, Phases, Included
      <3>3. disk' \in Disks /\ disk'.op.hash = disk.op.hash
        BY <1>0, <3>1, <3>2, OpChanges
      <3> QED BY <1>0, <2>5, <3>3, JobMoves DEF SyncReconcile, JobSteps, BackupSteps
    <2> QED BY <2>1, <2>2, <2>3, <2>4, <2>5
  <1>3. ServerTypeOK'
    BY <1>0, <1>1, <1>2 DEF ServerTypeOK
  <1> QED BY <1>1, <1>2, <1>3, AsideKeeps

\* The first job leaves the tail.
LEMMA TailShorter ==
    ASSUME ServerTypeOK, tail # << >>
    PROVE  /\ Tail(tail) \in Seq({"sync", "backup"}) /\ Head(tail) = tail[1] /\ 1 \in DOMAIN tail
           /\ \A i \in DOMAIN Tail(tail) : i \in Nat /\ i + 1 \in DOMAIN tail /\ Tail(tail)[i] = tail[i + 1]
  BY DEF ServerTypeOK

LEMMA SyncEnds ==
    ASSUME ServerInv, SyncEnd \/ SyncFails
    PROVE  ServerInv' /\ disk'.op = disk.op
  <1>0. ServerTypeOK /\ disk \in Disks
    BY DEF ServerInv, ServerTypeOK
  <1>1. /\ UNCHANGED <<lock, folders, server, pause, calls, report>>
        /\ health' \in {"HEALTHY", "DEGRADED"} /\ tail' = Tail(tail) /\ job' = Idle
        /\ tail # << >> /\ Awake
    BY DEF SyncEnd, SyncFails, Running
  <1>2. spare' \in [backups : Nat, calls : Nat, faults : Nat]
    BY <1>0, FaultTyped DEF SyncEnd, SyncFails, ServerTypeOK
  <1>3. disk' \in Disks /\ disk'.op = disk.op
    <2>1. Recorded(disk) \in Disks /\ Recorded(disk).op = disk.op
      BY <1>0 DEF Recorded, Disks
    <2> QED BY <1>0, <2>1 DEF SyncEnd, SyncFails
  <1>4. ServerTypeOK'
    BY <1>0, <1>1, <1>2, <1>3, IdleTyped, TailShorter DEF ServerTypeOK
  <1>5. BackupPauses'
    <2>1. \A i \in DOMAIN tail' : i \in Nat /\ i + 1 \in DOMAIN tail /\ tail'[i] = tail[i + 1]
      BY <1>0, <1>1, TailShorter
    <2> QED BY <1>1, <2>1 DEF ServerInv, BackupPauses, Awake
  <1>6. BackupCurrent'
    BY <1>1, IdleStep DEF BackupCurrent, BackupSteps
  <1>7. ReportCurrent'
    BY <1>1 DEF ServerInv, ReportCurrent, IsNewest
  <1> QED BY <1>3, <1>4, <1>5, <1>6, <1>7 DEF ServerInv

LEMMA TailLonger ==
    ASSUME ServerTypeOK, NEW k \in {"sync", "backup"}, tail' = Append(tail, k)
    PROVE  /\ tail' \in Seq({"sync", "backup"}) /\ tail' # << >>
           /\ Len(tail) + 1 \notin DOMAIN tail
           /\ \A i \in DOMAIN tail' : (i \in DOMAIN tail /\ tail'[i] = tail[i]) \/ (i = Len(tail) + 1 /\ tail'[i] = k)
           /\ tail # << >> => tail'[1] = tail[1]
  BY DEF ServerTypeOK

LEMMA SyncNowKeeps == ServerInv /\ SyncNow => ServerInv'
  <1> SUFFICES ASSUME ServerInv, SyncNow PROVE ServerInv'
    OBVIOUS
  <1>0. ServerTypeOK
    BY DEF ServerInv
  <1>1. tail' = Append(tail, "sync") /\ server = "up"
        /\ UNCHANGED <<lock, folders, server, disk, health, pause, job, calls, report, spare>>
    BY DEF SyncNow
  <1>2. /\ tail' \in Seq({"sync", "backup"}) /\ tail' # << >>
        /\ \A i \in DOMAIN tail' : (i \in DOMAIN tail /\ tail'[i] = tail[i]) \/ (i = Len(tail) + 1 /\ tail'[i] = "sync")
        /\ tail # << >> => tail'[1] = tail[1]
    BY <1>0, <1>1, TailLonger
  <1>3. ServerTypeOK'
    BY <1>0, <1>1, <1>2 DEF ServerTypeOK
  <1>4. BackupPauses'
    BY <1>1, <1>2 DEF ServerInv, BackupPauses
  <1>5. BackupCurrent'
    BY <1>1, <1>2 DEF ServerInv, BackupCurrent, Vault
  <1>6. ReportCurrent'
    BY <1>1 DEF ServerInv, ReportCurrent, IsNewest
  <1> QED BY <1>3, <1>4, <1>5, <1>6 DEF ServerInv

LEMMA BackupNowKeeps == ServerInv /\ BackupNow => ServerInv'
  <1> SUFFICES ASSUME ServerInv, BackupNow PROVE ServerInv'
    OBVIOUS
  <1>0. ServerTypeOK
    BY DEF ServerInv
  <1>1. /\ tail' = Append(tail, "backup") /\ server = "up" /\ ~pause.on
        /\ pause' = [on |-> TRUE, epoch |-> pause.epoch + 1]
        /\ UNCHANGED <<lock, folders, server, disk, health, job, calls, report>>
    BY DEF BackupNow, PauseWrites
  <1>2. spare' \in [backups : Nat, calls : Nat, faults : Nat]
    <2>1. spare \in [backups : Nat, calls : Nat, faults : Nat] /\ spare.backups > 0
      BY <1>0 DEF BackupNow, ServerTypeOK
    <2>2. spare.backups - 1 \in Nat
      BY <2>1
    <2> QED BY <2>1, <2>2 DEF BackupNow
  <1>3. /\ tail' \in Seq({"sync", "backup"}) /\ tail' # << >> /\ Len(tail) + 1 \notin DOMAIN tail
        /\ \A i \in DOMAIN tail' : (i \in DOMAIN tail /\ tail'[i] = tail[i]) \/ (i = Len(tail) + 1 /\ tail'[i] = "backup")
    BY <1>0, <1>1, TailLonger
  <1>4. pause' \in [on : BOOLEAN, epoch : Nat] /\ pause'.on
    BY <1>0, <1>1 DEF ServerTypeOK
  <1>5. ServerTypeOK'
    BY <1>0, <1>1, <1>2, <1>3, <1>4 DEF ServerTypeOK
  <1>6. BackupPauses'
    BY <1>1, <1>3, <1>4 DEF ServerInv, BackupPauses
  <1>7. BackupCurrent'
    BY <1>1, Undisturbed DEF BackupCurrent
  <1>8. ReportCurrent'
    BY <1>1 DEF ServerInv, ReportCurrent, IsNewest
  <1> QED BY <1>5, <1>6, <1>7, <1>8 DEF ServerInv

LEMMA PrepareKeeps == ServerInv /\ PrepareOwnerAction => ServerInv' /\ disk'.op.hash = disk.op.hash
  <1> SUFFICES ASSUME ServerInv, PrepareOwnerAction PROVE ServerInv' /\ disk'.op.hash = disk.op.hash
    OBVIOUS
  <1>0. ServerTypeOK
    BY DEF ServerInv
  <1>1. disk' \in Disks /\ disk'.op.hash = disk.op.hash
    <2>1. "AWAITING_SIGNATURE" \in Phases
      BY DEF Phases
    <2> QED BY <1>0, <2>1, OpChanges DEF PrepareOwnerAction
  <1>2. ServerTypeOK'
    BY <1>0, <1>1 DEF PrepareOwnerAction, ServerTypeOK
  <1>3. job.step \notin BackupSteps
    BY Undisturbed DEF PrepareOwnerAction
  <1> QED BY <1>1, <1>2, <1>3, AsideKeeps DEF PrepareOwnerAction

LEMMA ReportCalled == ServerInv /\ ObserveOwnerSubmission => ServerInv'
  <1> SUFFICES ASSUME ServerInv, ObserveOwnerSubmission PROVE ServerInv'
    OBVIOUS
  <1>0. ServerTypeOK /\ disk.op \in Operations
    BY DEF ServerInv, ServerTypeOK, Disks
  <1>1. PICK h \in Hashes : calls' = Append(calls, [hash |-> h, epoch |-> pause.epoch, op |-> disk.op])
    BY DEF ObserveOwnerSubmission
  <1>2. [hash |-> h, epoch |-> pause.epoch, op |-> disk.op] \in Calls
    BY <1>0 DEF Calls, ServerTypeOK
  <1>3. calls' \in Seq(Calls)
    BY <1>0, <1>1, <1>2 DEF ServerTypeOK
  <1>4. spare' \in [backups : Nat, calls : Nat, faults : Nat]
    <2>1. spare \in [backups : Nat, calls : Nat, faults : Nat] /\ spare.calls > 0
      BY <1>0 DEF ObserveOwnerSubmission, ServerTypeOK
    <2>2. spare.calls - 1 \in Nat
      BY <2>1
    <2> QED BY <2>1, <2>2 DEF ObserveOwnerSubmission
  <1>5. ServerTypeOK'
    BY <1>0, <1>3, <1>4 DEF ObserveOwnerSubmission, ServerTypeOK
  <1> QED BY <1>5, AsideKeeps DEF ObserveOwnerSubmission

LEMMA ObservedKeeps ==
    ServerInv /\ Observed => ServerInv' /\ (disk.op.hash # NoHash => disk'.op.hash = disk.op.hash)
  <1> SUFFICES ASSUME ServerInv, Observed
               PROVE  ServerInv' /\ (disk.op.hash # NoHash => disk'.op.hash = disk.op.hash)
    OBVIOUS
  <1>0. ServerTypeOK /\ disk \in Disks /\ disk.op \in Operations
    BY DEF ServerInv, ServerTypeOK, Disks
  <1>1. PICK i \in DOMAIN calls :
          /\ calls' = SubSeq(calls, 1, i - 1) \o SubSeq(calls, i + 1, Len(calls))
          /\ disk' = IF Writable(calls[i]) THEN [disk EXCEPT !.op = Saved([calls[i].op EXCEPT !.state = "SUBMITTED", !.hash = calls[i].hash])]
                     ELSE disk
    BY DEF Observed
  <1>2. calls \in Seq(Calls) /\ calls[i] \in Calls /\ i \in 1 .. Len(calls) /\ Len(calls) \in Nat
    BY <1>0 DEF ServerTypeOK
  <1>3. SubSeq(calls, 1, i - 1) \in Seq(Calls) /\ SubSeq(calls, i + 1, Len(calls)) \in Seq(Calls)
    BY <1>2
  <1>4. calls' \in Seq(Calls)
    BY <1>1, <1>3
  <1> DEFINE o == [calls[i].op EXCEPT !.state = "SUBMITTED", !.hash = calls[i].hash]
  <1>5. o \in Operations
    <2>1. calls[i].op \in Operations /\ calls[i].hash \in Hashes
      BY <1>2 DEF Calls
    <2> QED BY <2>1 DEF Operations, Phases
  <1>6. Saved(o) \in Operations /\ (disk.op.hash # NoHash => Saved(o).hash = disk.op.hash)
    BY <1>0, <1>5 DEF Saved
  <1> HIDE DEF o
  <1>7. disk' \in Disks /\ (disk.op.hash # NoHash => disk'.op.hash = disk.op.hash) /\ (~Writable(calls[i]) => disk' = disk)
    <2>1. [disk EXCEPT !.op = Saved(o)] \in Disks /\ [disk EXCEPT !.op = Saved(o)].op = Saved(o)
      BY <1>0, <1>6 DEF Disks
    <2> QED BY <1>0, <1>1, <1>6, <2>1 DEF o
  <1>8. ServerTypeOK'
    BY <1>0, <1>4, <1>7 DEF Observed, ServerTypeOK
  <1>9. disk' = disk \/ job.step \notin BackupSteps
    BY <1>7, Undisturbed DEF Writable
  <1> QED BY <1>7, <1>8, <1>9, AsideKeeps DEF Observed

\* A folder gets one of its parts.
LEMMA LastFolder ==
    ASSUME ServerTypeOK, folders # << >>, NEW f \in Folders, folders' = [folders EXCEPT ![Len(folders)] = f]
    PROVE  /\ folders' \in Seq(Folders) /\ Len(folders') = Len(folders) /\ DOMAIN folders' = DOMAIN folders
           /\ folders'[Len(folders')] = f /\ Len(folders) \in DOMAIN folders /\ folders[Len(folders)] \in Folders
           /\ folders' # << >> /\ \A i \in DOMAIN folders : i # Len(folders) => folders'[i] = folders[i]
  BY DEF ServerTypeOK

\* The steps of a backup before it is verified.
LEMMA CopyingKeeps ==
    ASSUME ServerInv, BackupMark \/ BackupCopy \/ BackupEvidence
    PROVE  ServerInv' /\ \A i \in DOMAIN folders : folders'[i].manifest => folders[i].manifest
  <1>0. ServerTypeOK /\ disk \in Disks /\ Vault(disk) \in VaultCopies /\ disk.evidence \in SUBSET Nat
    BY DEF ServerInv, ServerTypeOK, Disks, Vault, VaultCopies
  <1>1. /\ UNCHANGED <<lock, server, disk, health, pause, tail, calls, report, spare>>
        /\ job.step \in {"marking", "copying", "evidence"} /\ job.step \in BackupSteps
    BY DEF BackupMark, BackupCopy, BackupEvidence, BackupSteps
  <1>2. /\ tail # << >> /\ tail[1] = "backup" /\ folders # << >> /\ ~folders[Len(folders)].manifest
        /\ job.step # "marking" => folders[Len(folders)].marked = Vault(disk)
        /\ job.step \in {"evidence", "verifying"} => folders[Len(folders)].vault = Vault(disk)
    BY <1>1 DEF ServerInv, BackupCurrent
  <1> DEFINE g == folders[Len(folders)]
             f == CASE job.step = "marking" -> [g EXCEPT !.marked = Vault(disk)]
                    [] job.step = "copying" -> [g EXCEPT !.vault = Vault(disk)]
                    [] job.step = "evidence" -> [g EXCEPT !.evidence = disk.evidence]
  <1>3. g \in Folders
    BY <1>0, <1>2 DEF ServerTypeOK
  <1>4. /\ f \in Folders /\ ~f.manifest
        /\ f.marked = Vault(disk)
        /\ job.step \in {"copying", "evidence"} => f.vault = Vault(disk)
        /\ job.step = "evidence" => f.evidence = disk.evidence
    <2>1. CASE job.step = "marking"
      BY <1>0, <1>2, <1>3, <2>1 DEF Folders
    <2>2. CASE job.step = "copying"
      BY <1>0, <1>2, <1>3, <2>2 DEF Folders
    <2>3. CASE job.step = "evidence"
      BY <1>0, <1>2, <1>3, <2>3 DEF Folders
    <2> QED BY <1>1, <2>1, <2>2, <2>3
  <1>5. folders' = [folders EXCEPT ![Len(folders)] = f]
    BY DEF BackupMark, BackupCopy, BackupEvidence
  <1>6. /\ job' \in [step : JobSteps, seen : Operations]
        /\ job'.step = CASE job.step = "marking" -> "copying" [] job.step = "copying" -> "evidence" [] job.step = "evidence" -> "verifying"
    BY <1>0, JobMoves DEF BackupMark, BackupCopy, BackupEvidence, JobSteps, BackupSteps
  <1> HIDE DEF f
  <1>7. /\ folders' \in Seq(Folders) /\ Len(folders') = Len(folders) /\ DOMAIN folders' = DOMAIN folders
        /\ folders'[Len(folders')] = f /\ Len(folders) \in DOMAIN folders
        /\ folders' # << >> /\ \A i \in DOMAIN folders : i # Len(folders) => folders'[i] = folders[i]
    BY <1>0, <1>2, <1>4, <1>5, LastFolder
  <1>8. \A i \in DOMAIN folders : folders'[i].manifest <=> folders[i].manifest
    BY <1>2, <1>4, <1>7
  <1>9. ServerTypeOK'
    BY <1>0, <1>1, <1>6, <1>7 DEF ServerTypeOK
  <1>10. BackupPauses'
    BY <1>1 DEF ServerInv, BackupPauses
  <1>11. BackupCurrent'
    BY <1>1, <1>2, <1>4, <1>6, <1>7 DEF BackupCurrent
  <1>12. ReportCurrent'
    BY <1>1, <1>7, <1>8 DEF ServerInv, ReportCurrent, IsNewest
  <1> QED BY <1>8, <1>9, <1>10, <1>11, <1>12 DEF ServerInv

LEMMA BeginKeeps ==
    ASSUME ServerInv, BackupBegin
    PROVE  ServerInv' /\ \A i \in DOMAIN folders : folders'[i] = folders[i]
  <1>0. ServerTypeOK
    BY DEF ServerInv
  <1> DEFINE f == [vault |-> Nothing, marked |-> Nothing, evidence |-> {}, manifest |-> FALSE]
  <1>1. /\ folders' = Append(folders, f) /\ tail # << >> /\ tail[1] = "backup"
        /\ UNCHANGED <<lock, server, disk, health, pause, tail, calls, spare>>
    BY <1>0 DEF BackupBegin, Running, ServerTypeOK
  <1>2. job' \in [step : JobSteps, seen : Operations] /\ job'.step = "marking"
    BY <1>0, JobMoves DEF BackupBegin, JobSteps, BackupSteps
  <1>3. report' \in [last : Nat, verified : BOOLEAN, failed : BOOLEAN] /\ report'.last = report.last /\ report'.verified = report.verified
    BY <1>0 DEF BackupBegin, ServerTypeOK
  <1>4. f \in Folders /\ ~f.manifest
    BY IdleTyped DEF Folders
  <1> HIDE DEF f
  <1>5. /\ folders' \in Seq(Folders) /\ folders' # << >> /\ folders'[Len(folders')] = f
        /\ DOMAIN folders' = DOMAIN folders \cup {Len(folders) + 1} /\ folders'[Len(folders) + 1] = f
        /\ \A i \in DOMAIN folders : folders'[i] = folders[i]
    BY <1>0, <1>1, <1>4 DEF ServerTypeOK
  <1>6. ServerTypeOK'
    BY <1>0, <1>1, <1>2, <1>3, <1>5 DEF ServerTypeOK
  <1>7. BackupPauses'
    BY <1>1 DEF ServerInv, BackupPauses
  <1>8. BackupCurrent'
    BY <1>1, <1>2, <1>4, <1>5 DEF BackupCurrent
  <1>9. ReportCurrent'
    BY <1>1, <1>3, <1>4, <1>5 DEF ServerInv, ReportCurrent, IsNewest
  <1> QED BY <1>5, <1>6, <1>7, <1>8, <1>9 DEF ServerInv

\* The end of a backup: the writes are open again.
LEMMA ReleaseKeeps ==
    ASSUME ServerInv, Running("backup"), NEW done, Release(done)
    PROVE  /\ BackupPauses' \/ server' # server
           /\ tail' \in Seq({"sync", "backup"}) /\ pause' \in [on : BOOLEAN, epoch : Nat]
           /\ job' = Idle
  <1>0. ServerTypeOK
    BY DEF ServerInv
  <1>1. tail' = Tail(tail) /\ tail # << >> /\ tail[1] = "backup" /\ job' = Idle /\ Awake
    BY <1>0 DEF Release, Running, ServerTypeOK
  <1>2. pause' \in [on : BOOLEAN, epoch : Nat]
    BY <1>0 DEF Release, ServerTypeOK
  <1>3. /\ tail' \in Seq({"sync", "backup"}) /\ 1 \in DOMAIN tail
        /\ \A i \in DOMAIN tail' : i \in Nat /\ i + 1 \in DOMAIN tail /\ tail'[i] = tail[i + 1]
    BY <1>0, <1>1, TailShorter
  <1>4. \A i \in DOMAIN tail' : tail'[i] # "backup"
    <2> SUFFICES ASSUME NEW i \in DOMAIN tail', tail'[i] = "backup" PROVE FALSE
      OBVIOUS
    <2>1. i + 1 \in DOMAIN tail /\ tail[i + 1] = "backup" /\ i \in Nat
      BY <1>3
    <2>2. i + 1 = 1
      BY <1>1, <1>3, <2>1 DEF ServerInv, BackupPauses
    <2>3. i = 0
      BY <2>1, <2>2
    <2>4. 0 \notin DOMAIN tail'
      BY <1>3
    <2> QED BY <2>3, <2>4
  <1> QED BY <1>1, <1>2, <1>3, <1>4 DEF BackupPauses, Awake

LEMMA BackupFailsKeeps ==
    ASSUME ServerInv, BackupFails
    PROVE  ServerInv'
  <1>0. ServerTypeOK
    BY DEF ServerInv
  <1>1. UNCHANGED <<lock, folders, server, disk, health, calls>>
    BY DEF BackupFails
  <1>2. report' \in [last : Nat, verified : BOOLEAN, failed : BOOLEAN] /\ report'.last = report.last /\ report'.verified = report.verified
    BY <1>0 DEF BackupFails, ServerTypeOK
  <1>3. spare' \in [backups : Nat, calls : Nat, faults : Nat]
    BY <1>0, FaultTyped DEF BackupFails
  <1>4. BackupPauses' /\ tail' \in Seq({"sync", "backup"}) /\ pause' \in [on : BOOLEAN, epoch : Nat] /\ job' = Idle
    BY <1>1, ReleaseKeeps DEF BackupFails
  <1>5. ServerTypeOK'
    BY <1>0, <1>1, <1>2, <1>3, <1>4, IdleTyped DEF ServerTypeOK
  <1>6. BackupCurrent'
    BY <1>4, IdleStep DEF BackupCurrent, BackupSteps
  <1>7. ReportCurrent'
    BY <1>1, <1>2 DEF ServerInv, ReportCurrent, IsNewest
  <1> QED BY <1>4, <1>5, <1>6, <1>7 DEF ServerInv

LEMMA BackupVerifyKeeps ==
    ASSUME ServerInv, BackupVerify
    PROVE  /\ ServerInv'
           /\ \A i \in DOMAIN folders :
                 folders'[i].manifest /\ ~folders[i].manifest =>
                     folders'[i].vault = Vault(disk) /\ folders'[i].evidence = disk.evidence
  <1>0. ServerTypeOK
    BY DEF ServerInv
  <1>1. Running("backup") /\ job.step = "verifying" /\ job.step \in BackupSteps /\ UNCHANGED <<lock, server, disk, health, calls, spare>>
    BY DEF BackupVerify, BackupSteps
  <1>2. /\ folders # << >> /\ ~folders[Len(folders)].manifest
        /\ folders[Len(folders)].vault = Vault(disk) /\ folders[Len(folders)].marked = Vault(disk)
        /\ folders[Len(folders)].evidence = disk.evidence
    BY <1>1 DEF ServerInv, BackupCurrent
  <1>3. Faithful(folders[Len(folders)]) = TRUE
    BY <1>2 DEF Faithful
  <1>4. /\ folders' = [folders EXCEPT ![Len(folders)].manifest = TRUE]
        /\ report' = [last |-> Len(folders), verified |-> TRUE, failed |-> FALSE]
        /\ Release(TRUE)
    BY <1>3 DEF BackupVerify
  <1> DEFINE f == [folders[Len(folders)] EXCEPT !.manifest = TRUE]
  <1>5. f \in Folders /\ f.manifest /\ f.vault = Vault(disk) /\ f.evidence = disk.evidence
    <2>1. folders[Len(folders)] \in Folders
      BY <1>0, <1>2 DEF ServerTypeOK
    <2> QED BY <1>2, <2>1 DEF Folders
  <1>6. folders' = [folders EXCEPT ![Len(folders)] = f]
    BY <1>4
  <1> HIDE DEF f
  <1>7. /\ folders' \in Seq(Folders) /\ Len(folders') = Len(folders) /\ DOMAIN folders' = DOMAIN folders
        /\ folders'[Len(folders')] = f /\ Len(folders) \in DOMAIN folders
        /\ folders' # << >> /\ \A i \in DOMAIN folders : i # Len(folders) => folders'[i] = folders[i]
    BY <1>0, <1>2, <1>5, <1>6, LastFolder
  <1>8. BackupPauses' /\ tail' \in Seq({"sync", "backup"}) /\ pause' \in [on : BOOLEAN, epoch : Nat] /\ job' = Idle
    BY <1>1, <1>4, ReleaseKeeps
  <1>9. Len(folders) \in Nat /\ Len(folders) # 0 /\ \A j \in DOMAIN folders : j <= Len(folders)
    BY <1>0, <1>2 DEF ServerTypeOK
  <1>10. ServerTypeOK'
    BY <1>0, <1>1, <1>4, <1>7, <1>8, <1>9, IdleTyped DEF ServerTypeOK
  <1>11. BackupCurrent'
    BY <1>8, IdleStep DEF BackupCurrent, BackupSteps
  <1>12. ReportCurrent'
    <2>1. report'.last = Len(folders)
      BY <1>4
    <2>2. IsNewest(report.last)'
      BY <1>5, <1>7, <1>9, <2>1 DEF IsNewest
    <2> QED BY <1>9, <2>1, <2>2 DEF ReportCurrent
  <1> QED BY <1>2, <1>5, <1>7, <1>8, <1>10, <1>11, <1>12 DEF ServerInv

LEMMA ServerKeeps ==
    ASSUME ServerInv, [ServerNext]_serverVars
    PROVE  /\ ServerInv'
           /\ disk.op.hash # NoHash => disk'.op.hash = disk.op.hash
           /\ \A i \in DOMAIN folders :
                 folders'[i].manifest /\ ~folders[i].manifest =>
                     folders'[i].vault = Vault(disk) /\ folders'[i].evidence = disk.evidence
  <1>1. CASE Start \/ Listen \/ StartFails \/ Close \/ Closed \/ Crash \/ Unlock
    <2>1. UNCHANGED <<folders, disk>>
      BY <1>1 DEF Start, Listen, StartFails, Close, Closed, Crash, Unlock
    <2> QED BY <1>1, <2>1, ProcessKeeps
  <1>2. CASE SyncBegin \/ SyncIndex \/ SyncReceipt \/ SyncResume \/ SyncReconcile
    <2>1. UNCHANGED folders
      BY <1>2 DEF SyncBegin, SyncIndex, SyncReceipt, SyncResume, SyncReconcile
    <2> QED BY <1>2, <2>1, SyncKeeps
  <1>3. CASE SyncEnd \/ SyncFails
    <2>1. UNCHANGED folders
      BY <1>3 DEF SyncEnd, SyncFails
    <2> QED BY <1>3, <2>1, SyncEnds
  <1>4. CASE SyncNow \/ ObserveOwnerSubmission \/ BackupNow
    <2>1. UNCHANGED <<folders, disk>>
      BY <1>4 DEF SyncNow, ObserveOwnerSubmission, BackupNow
    <2> QED BY <1>4, <2>1, SyncNowKeeps, ReportCalled, BackupNowKeeps
  <1>5. CASE PrepareOwnerAction \/ Observed
    <2>1. UNCHANGED folders
      BY <1>5 DEF PrepareOwnerAction, Observed
    <2> QED BY <1>5, <2>1, PrepareKeeps, ObservedKeeps
  <1>6. CASE BackupBegin \/ BackupMark \/ BackupCopy \/ BackupEvidence \/ BackupVerify \/ BackupFails
    <2>1. disk' = disk
      BY <1>6 DEF BackupBegin, BackupMark, BackupCopy, BackupEvidence, BackupVerify, BackupFails
    <2>2. CASE BackupFails
      <3>1. folders' = folders
        BY <2>2 DEF BackupFails
      <3> QED BY <2>1, <2>2, <3>1, BackupFailsKeeps
    <2> QED BY <1>6, <2>1, <2>2, BeginKeeps, CopyingKeeps, BackupVerifyKeeps
  <1>7. CASE UNCHANGED serverVars
    <2>1. UNCHANGED <<lock, folders, server, disk, health, pause, tail, job, calls, report, spare>>
      BY <1>7 DEF serverVars
    <2>2. ServerTypeOK'
      BY <2>1 DEF ServerInv, ServerTypeOK
    <2> QED BY <2>1, <2>2, AsideKeeps
  <1> QED BY <1>1, <1>2, <1>3, <1>4, <1>5, <1>6, <1>7 DEF ServerNext, JobStep

LEMMA ServerStarts == ServerInit => ServerInv
  <1> SUFFICES ASSUME ServerInit PROVE ServerInv
    OBVIOUS
  <1>1. disk \in Disks
    BY IdleTyped DEF ServerInit, Disks
  <1>2. spare \in [backups : Nat, calls : Nat, faults : Nat]
    BY ServerAssumption DEF ServerInit
  <1>3. << >> \in Seq(Folders) /\ << >> \in Seq(Calls) /\ << >> \in Seq({"sync", "backup"})
    OBVIOUS
  <1>4. ServerTypeOK
    BY <1>1, <1>2, <1>3, IdleTyped DEF ServerInit, ServerTypeOK
  <1> QED BY <1>4, IdleStep DEF ServerInit, ServerInv, BackupPauses, BackupCurrent, BackupSteps, ReportCurrent

\* What the status calls verified is the newest backup with a manifest, for any number of backups,
\* reports, crashes and failing calls: a manifest and the report of it are one step, and a start
\* looks for the newest manifest (testnet-startup.ts, ServerBackups).
THEOREM VerifiedIsNewest == ServerSpec => []ReportedIsNewest
  <1>1. ServerInv => ReportedIsNewest
    <2> SUFFICES ASSUME ServerInv, server = "up", report.verified PROVE report.last = Newest /\ report.last # 0
      BY DEF ReportedIsNewest
    <2>1. folders \in Seq(Folders) /\ IsNewest(report.last) /\ report.last # 0
      BY DEF ServerInv, ServerTypeOK, ReportCurrent
    <2> QED BY <2>1, NewestOnly
  <1>2. ServerInv /\ [ServerNext]_serverVars => ServerInv'
    BY ServerKeeps
  <1> QED BY <1>1, <1>2, ServerStarts, PTL DEF ServerSpec

\* An operation keeps the hash that was reported first, and a backup that gets its manifest holds
\* both databases as they are at that moment: the writes it paused stay out until it is released
\* (testnet-startup.ts, backupNow; trading-runtime.ts, observeOwnerSubmission).
THEOREM ReportsHold == ServerSpec => ReportsStand
  <1>1. ServerInv /\ [ServerNext]_serverVars => ServerInv'
    BY ServerKeeps
  <1>2. ServerInv /\ [ServerNext]_serverVars => [disk.op.hash # NoHash => disk'.op.hash = disk.op.hash]_serverVars
    BY ServerKeeps
  <1>3. ServerInv /\ [ServerNext]_serverVars =>
           [\A i \in DOMAIN folders :
               folders'[i].manifest /\ ~folders[i].manifest => folders'[i].vault = Vault(disk) /\ folders'[i].evidence = disk.evidence]_serverVars
    BY ServerKeeps
  <1> QED BY <1>1, <1>2, <1>3, ServerStarts, PTL DEF ServerSpec, ReportsStand, SubmissionKept, BackupOneMoment

----------------------------------------------------------------------------
(* The paper service *)

Steps == [kind : {"batch", "control"}, id : Nat \cup Controls]
Work == [kind : {"cycle", "control", "backup"}, id : {0} \cup Controls]
Jobs == [id : BackupIds, at : {"queued", "verify"}, revision : Nat, cursor : Nat, source : Nat, steps : Seq(Steps)]
Manifests == [id : BackupIds, revision : Nat, cursor : Nat, source : Nat, steps : Seq(Steps)]

ServiceTypeOK ==
    /\ source \in Nat
    /\ steps \in Seq(Steps)
    /\ backups \subseteq Manifests
    /\ queue \in Seq(Work)
    /\ running \in {"ready", "capture", "source", "paper"}
    /\ bypass \in Seq(Controls)
    /\ backupJob \in Seq(Jobs)

\* How many of the first n steps are batches.
Consumed(journal, n) == Cardinality({i \in 1 .. n : journal[i].kind = "batch"})

\* JournalFaithful with the prefixes counted in place.
JournalInOrder ==
    /\ \A i \in DOMAIN steps : steps[i].kind = "batch" => steps[i].id = Consumed(steps, i)
    /\ Consumed(steps, Len(steps)) <= source
    /\ \A i, j \in DOMAIN steps : steps[i].kind = "control" /\ steps[i] = steps[j] => i = j

\* A backup in the queue is the only one, and the one that is being made; the first work is what runs.
OneBackup ==
    /\ \A i \in DOMAIN queue : queue[i].kind = "backup" => backupJob # << >> /\ backupJob[1].at = "queued"
    /\ \A i, j \in DOMAIN queue : queue[i].kind = "backup" /\ queue[j].kind = "backup" => i = j
    /\ running \in {"source", "paper"} => queue # << >> /\ queue[1].kind = "backup"

\* The copy holds the first steps of the journal, as many as were noted.
Holds(journal, b) ==
    /\ b.revision <= Len(journal) /\ Len(b.steps) = b.revision
    /\ \A i \in 1 .. b.revision : b.steps[i] = journal[i]
    /\ b.cursor = Consumed(b.steps, b.revision) /\ b.cursor <= b.source

\* What was noted when the copies began stays true of the journal, which only grows.
CopyOnCourse ==
    /\ running \in {"source", "paper"} =>
          /\ backupJob[1].revision <= Len(steps)
          /\ backupJob[1].cursor = Consumed(steps, backupJob[1].revision)
          /\ running = "paper" => backupJob[1].cursor <= backupJob[1].source
    /\ backupJob # << >> /\ backupJob[1].at = "verify" => Holds(steps, backupJob[1])

ServiceInv ==
    /\ ServiceTypeOK /\ JournalInOrder /\ OneBackup /\ CopyOnCourse
    /\ \A b \in backups : Holds(steps, b)

----------------------------------------------------------------------------

LEMMA ConsumedTyped ==
    ASSUME NEW journal, NEW n \in Nat
    PROVE  /\ IsFiniteSet({i \in 1 .. n : journal[i].kind = "batch"})
           /\ Consumed(journal, n) \in Nat
  <1>1. IsFiniteSet(1 .. n)
    BY FS_Interval
  <1>2. IsFiniteSet({i \in 1 .. n : journal[i].kind = "batch"})
    BY <1>1, FS_Subset
  <1> QED BY <1>2, FS_CardinalityType DEF Consumed

LEMMA ConsumedAgrees ==
    ASSUME NEW j, NEW k, NEW n \in Nat, \A i \in 1 .. n : j[i] = k[i]
    PROVE  Consumed(j, n) = Consumed(k, n)
  <1>1. {i \in 1 .. n : j[i].kind = "batch"} = {i \in 1 .. n : k[i].kind = "batch"}
    OBVIOUS
  <1> QED BY <1>1 DEF Consumed

LEMMA CursorConsumed ==
    ASSUME NEW journal \in Seq(Steps)
    PROVE  /\ Cursor(journal) = Consumed(journal, Len(journal))
           /\ \A n \in DOMAIN journal : Cursor(SubSeq(journal, 1, n)) = Consumed(journal, n)
  <1>1. DOMAIN journal = 1 .. Len(journal) /\ Len(journal) \in Nat
    OBVIOUS
  <1>2. Cursor(journal) = Consumed(journal, Len(journal))
    BY <1>1 DEF Cursor, BatchSteps, Consumed
  <1>3. ASSUME NEW n \in DOMAIN journal
        PROVE  Cursor(SubSeq(journal, 1, n)) = Consumed(journal, n)
    <2>1. DOMAIN SubSeq(journal, 1, n) = 1 .. n /\ \A i \in 1 .. n : SubSeq(journal, 1, n)[i] = journal[i]
      BY <1>1
    <2>2. {i \in DOMAIN SubSeq(journal, 1, n) : SubSeq(journal, 1, n)[i].kind = "batch"} = {i \in 1 .. n : journal[i].kind = "batch"}
      BY <2>1
    <2> QED BY <2>2 DEF Cursor, BatchSteps, Consumed
  <1> QED BY <1>2, <1>3

\* Batches added at the end are counted one by one.
LEMMA ConsumedGrows ==
    ASSUME NEW j, NEW n \in Nat, NEW m \in Nat, \A i \in n + 1 .. n + m : j[i].kind = "batch"
    PROVE  Consumed(j, n + m) = Consumed(j, n) + m
  <1> DEFINE A == {i \in 1 .. n : j[i].kind = "batch"}
             B == n + 1 .. n + m
  <1>1. {i \in 1 .. n + m : j[i].kind = "batch"} = A \cup B
    OBVIOUS
  <1>2. A \cap B = {}
    OBVIOUS
  <1>3. IsFiniteSet(A) /\ Cardinality(A) \in Nat
    BY ConsumedTyped DEF Consumed
  <1>4. IsFiniteSet(B) /\ Cardinality(B) = m
    <2>1. PICK a \in Int, b \in Int : a = n + 1 /\ b = n + m
      OBVIOUS
    <2>2. IsFiniteSet(a .. b) /\ Cardinality(a .. b) = IF a > b THEN 0 ELSE b - a + 1
      BY FS_Interval
    <2>3. Cardinality(a .. b) = m
      BY <2>1, <2>2
    <2> QED BY <2>1, <2>2, <2>3
  <1>7. Consumed(j, n) = Cardinality(A) /\ Consumed(j, n + m) = Cardinality(A \cup B)
    BY <1>1 DEF Consumed
  <1> HIDE DEF A, B
  <1>5. Cardinality(A \cup B) = Cardinality(A) + Cardinality(B) - Cardinality(A \cap B)
    BY <1>3, <1>4, FS_Union
  <1>6. Cardinality(A \cap B) = 0
    BY <1>2, FS_EmptySet
  <1> QED BY <1>3, <1>4, <1>5, <1>6, <1>7

LEMMA ConsumedControl ==
    ASSUME NEW j, NEW n \in Nat, j[n + 1].kind # "batch"
    PROVE  Consumed(j, n + 1) = Consumed(j, n)
  <1>1. {i \in 1 .. n + 1 : j[i].kind = "batch"} = {i \in 1 .. n : j[i].kind = "batch"}
    OBVIOUS
  <1> QED BY <1>1 DEF Consumed

\* catchUp appends the batches that are missing, in order.
LEMMA CaughtUpSteps ==
    ASSUME NEW j \in Seq(Steps), NEW n \in Nat, Consumed(j, Len(j)) <= n
    PROVE  LET k == CaughtUp(j, n)
               m == n - Consumed(j, Len(j))
           IN  /\ k \in Seq(Steps) /\ m \in Nat /\ Len(k) = Len(j) + m
               /\ \A i \in 1 .. Len(j) : k[i] = j[i]
               /\ \A i \in 1 .. m : k[Len(j) + i] = [kind |-> "batch", id |-> Consumed(j, Len(j)) + i]
  <1> DEFINE c == Consumed(j, Len(j))
             m == n - c
             t == [i \in 1 .. m |-> [kind |-> "batch", id |-> c + i]]
  <1>1. c \in Nat /\ m \in Nat /\ Len(j) \in Nat
    <2>1. Len(j) \in Nat
      OBVIOUS
    <2>2. c \in Nat /\ c <= n
      BY <2>1, ConsumedTyped
    <2> HIDE DEF c
    <2> QED BY <2>1, <2>2
  <1>2. CaughtUp(j, n) = j \o t
    <2>1. Cursor(j) = c
      BY CursorConsumed
    <2> HIDE DEF c
    <2> QED BY <2>1, Zenon DEF CaughtUp
  <1>3. \A i \in 1 .. m : [kind |-> "batch", id |-> c + i] \in Steps
    BY <1>1 DEF Steps
  <1> HIDE DEF c, m
  <1>4. t \in Seq(Steps) /\ Len(t) = m /\ \A i \in 1 .. m : t[i] = [kind |-> "batch", id |-> c + i]
    <2>1. \A i \in 1 .. m : t[i] = [kind |-> "batch", id |-> c + i]
      OBVIOUS
    <2>2. t \in [1 .. m -> Steps]
      BY <1>3
    <2> HIDE DEF t
    <2>3. t \in Seq(Steps) /\ Len(t) = m
      BY <1>1, <2>2
    <2> QED BY <2>1, <2>3
  <1> HIDE DEF t
  <1>5. /\ j \o t \in Seq(Steps) /\ Len(j \o t) = Len(j) + m
        /\ \A i \in 1 .. Len(j) : (j \o t)[i] = j[i]
        /\ \A i \in 1 .. m : (j \o t)[Len(j) + i] = t[i]
    <2>1. t \in Seq(Steps) /\ Len(t) = m
      BY <1>4
    <2>2. j \o t \in Seq(Steps) /\ Len(j \o t) = Len(j) + m
      BY <2>1
    <2>3. \A i \in 1 .. Len(j) : (j \o t)[i] = j[i]
      BY <1>1, <2>1
    <2>4. ASSUME NEW i \in 1 .. m PROVE (j \o t)[Len(j) + i] = t[i]
      BY <1>1, <2>1
    <2> QED BY <2>2, <2>3, <2>4
  <1> QED BY <1>1, <1>2, <1>4, <1>5 DEF c, m

\* The journal keeps what it has.
Grows(j, k) == Len(j) <= Len(k) /\ \A i \in DOMAIN j : k[i] = j[i]

LEMMA HoldsStill ==
    ASSUME NEW j \in Seq(Steps), NEW k \in Seq(Steps), Grows(j, k), NEW b, b.revision \in Nat, Holds(j, b)
    PROVE  Holds(k, b)
  <1>1. Len(j) \in Nat /\ Len(k) \in Nat /\ DOMAIN j = 1 .. Len(j)
    OBVIOUS
  <1>2. b.revision <= Len(j) /\ \A i \in 1 .. b.revision : i \in DOMAIN j /\ b.steps[i] = j[i]
    BY <1>1 DEF Holds
  <1> QED BY <1>1, <1>2 DEF Holds, Grows

\* Catching up leaves the journal in order.
LEMMA CatchUpKeeps ==
    ASSUME ServiceTypeOK, JournalInOrder, NEW n \in Nat, source <= n,
           steps' = CaughtUp(steps, n), source' \in Nat, n <= source'
    PROVE  steps' \in Seq(Steps) /\ Grows(steps, steps') /\ JournalInOrder'
  <1> DEFINE L == Len(steps)
             c == Consumed(steps, L)
             m == n - c
  <1>0. steps \in Seq(Steps) /\ L \in Nat /\ c \in Nat /\ source \in Nat /\ c <= n
    <2>1. steps \in Seq(Steps) /\ L \in Nat /\ source \in Nat
      BY DEF ServiceTypeOK
    <2>2. c \in Nat /\ c <= source
      BY <2>1, ConsumedTyped DEF JournalInOrder
    <2> HIDE DEF c
    <2> QED BY <2>1, <2>2
  <1>1. /\ steps' \in Seq(Steps) /\ m \in Nat /\ Len(steps') = L + m
        /\ \A i \in 1 .. L : steps'[i] = steps[i]
        /\ \A i \in 1 .. m : steps'[L + i] = [kind |-> "batch", id |-> c + i]
    BY <1>0, CaughtUpSteps
  <1> HIDE DEF c, m
  <1>b. \A d \in 1 .. m : steps'[L + d].kind = "batch" /\ steps'[L + d].id = c + d
    <2> SUFFICES ASSUME NEW d \in 1 .. m PROVE steps'[L + d].kind = "batch" /\ steps'[L + d].id = c + d
      OBVIOUS
    <2>1. steps'[L + d] = [kind |-> "batch", id |-> c + d]
      BY <1>1, Zenon
    <2> QED BY <2>1
  <1>2. DOMAIN steps = 1 .. L /\ DOMAIN steps' = 1 .. L + m
    BY <1>0, <1>1
  <1>3. Grows(steps, steps')
    BY <1>0, <1>1, <1>2 DEF Grows
  <1> HIDE DEF L
  <1>4. \A i \in 0 .. L : Consumed(steps', i) = Consumed(steps, i)
    <2> SUFFICES ASSUME NEW i \in 0 .. L PROVE Consumed(steps', i) = Consumed(steps, i)
      OBVIOUS
    <2>1. i \in Nat /\ \A k \in 1 .. i : steps'[k] = steps[k]
      BY <1>0, <1>1
    <2> QED BY <2>1, ConsumedAgrees
  <1>5. \A k \in 0 .. m : Consumed(steps', L + k) = c + k
    <2> SUFFICES ASSUME NEW k \in 0 .. m PROVE Consumed(steps', L + k) = c + k
      OBVIOUS
    <2>1. k \in Nat /\ L \in Nat /\ m \in Nat
      BY <1>0, <1>1
    <2>2. ASSUME NEW i \in L + 1 .. L + k PROVE steps'[i].kind = "batch"
      <3>1. i - L \in 1 .. m /\ i = L + (i - L)
        BY <2>1
      <3>2. PICK d \in 1 .. m : i = L + d
        BY <3>1
      <3> QED BY <1>b, <3>2, Zenon
    <2>3. Consumed(steps', L + k) = Consumed(steps', L) + k
      BY <1>0, <2>1, <2>2, ConsumedGrows
    <2>4. Consumed(steps', L) = c
      BY <1>0, <1>4 DEF c
    <2> QED BY <2>3, <2>4
  <1>6. ASSUME NEW i \in DOMAIN steps', steps'[i].kind = "batch" PROVE steps'[i].id = Consumed(steps', i)
    <2>1. CASE i \in 1 .. L
      <3>1. i \in DOMAIN steps /\ steps[i].kind = "batch" /\ i \in 0 .. L
        BY <1>0, <1>1, <1>2, <1>6, <2>1
      <3> QED BY <1>1, <1>4, <2>1, <3>1 DEF JournalInOrder
    <2>2. CASE i \notin 1 .. L
      <3>1. PICK d \in 1 .. m : i = L + d
        <4>1. i - L \in 1 .. m /\ i = L + (i - L)
          BY <1>0, <1>1, <1>2, <2>2
        <4> QED BY <4>1
      <3>2. steps'[i].id = c + d
        BY <1>b, <3>1, Zenon
      <3>3. d \in 0 .. m
        BY <1>1
      <3>4. Consumed(steps', i) = c + d
        BY <1>5, <3>1, <3>3
      <3> QED BY <3>2, <3>4
    <2> QED BY <2>1, <2>2
  <1>7. Consumed(steps', Len(steps')) <= source'
    <2>1. m \in 0 .. m
      BY <1>1
    <2>2. Consumed(steps', L + m) = c + m
      BY <1>5, <2>1
    <2>3. c + m = n
      BY <1>0 DEF m
    <2> QED BY <1>1, <2>2, <2>3
  <1>8. ASSUME NEW i \in DOMAIN steps', NEW j \in DOMAIN steps', steps'[i].kind = "control", steps'[i] = steps'[j]
        PROVE  i = j
    <2>1. \A k \in DOMAIN steps' : k \notin 1 .. L => steps'[k].kind = "batch"
      <3> SUFFICES ASSUME NEW k \in DOMAIN steps', k \notin 1 .. L PROVE steps'[k].kind = "batch"
        OBVIOUS
      <3>1. PICK d \in 1 .. m : k = L + d
        <4>1. k - L \in 1 .. m /\ k = L + (k - L)
          BY <1>0, <1>1, <1>2
        <4> QED BY <4>1
      <3> QED BY <1>b, <3>1, Zenon
    <2>2. i \in 1 .. L /\ j \in 1 .. L
      BY <1>8, <2>1
    <2> QED BY <1>1, <1>2, <1>8, <2>2 DEF JournalInOrder
  <1> QED BY <1>1, <1>3, <1>6, <1>7, <1>8 DEF JournalInOrder

\* A control is appended once.
LEMMA ControlKeeps ==
    ASSUME ServiceTypeOK, JournalInOrder, NEW c \in {0} \cup Controls, ~OnRecord(c),
           steps' = Append(steps, [kind |-> "control", id |-> c]), source' = source
    PROVE  steps' \in Seq(Steps) /\ Grows(steps, steps') /\ JournalInOrder'
  <1> DEFINE L == Len(steps)
             s == [kind |-> "control", id |-> c]
  <1>0. steps \in Seq(Steps) /\ L \in Nat /\ s \in Steps /\ s.kind = "control" /\ s.id = c
    BY DEF ServiceTypeOK, Steps
  <1>1. s.kind # "batch"
    BY <1>0
  <1> HIDE DEF s
  <1>2. steps' = Append(steps, s)
    BY DEF s
  <1>3. /\ steps' \in Seq(Steps) /\ Len(steps') = L + 1 /\ steps'[L + 1] = s
        /\ \A i \in 1 .. L : steps'[i] = steps[i]
        /\ DOMAIN steps = 1 .. L /\ DOMAIN steps' = 1 .. L + 1
    BY <1>0, <1>2
  <1>4. Grows(steps, steps')
    BY <1>0, <1>3 DEF Grows
  <1> HIDE DEF L
  <1>5. \A i \in 0 .. L : Consumed(steps', i) = Consumed(steps, i)
    <2> SUFFICES ASSUME NEW i \in 0 .. L PROVE Consumed(steps', i) = Consumed(steps, i)
      OBVIOUS
    <2>1. i \in Nat /\ \A k \in 1 .. i : steps'[k] = steps[k]
      BY <1>0, <1>3
    <2> QED BY <2>1, ConsumedAgrees
  <1>6. ASSUME NEW i \in DOMAIN steps', steps'[i].kind = "batch" PROVE steps'[i].id = Consumed(steps', i)
    <2>1. i \in 1 .. L /\ i \in 0 .. L
      BY <1>0, <1>1, <1>3, <1>6
    <2> QED BY <1>3, <1>5, <1>6, <2>1 DEF JournalInOrder
  <1>7. Consumed(steps', Len(steps')) <= source'
    <2>1. Consumed(steps', L + 1) = Consumed(steps', L)
      BY <1>0, <1>1, <1>3, ConsumedControl
    <2>2. Consumed(steps', L) = Consumed(steps, L)
      BY <1>0, <1>5
    <2> QED BY <1>3, <2>1, <2>2 DEF JournalInOrder, L
  <1>8. ASSUME NEW i \in DOMAIN steps', NEW j \in DOMAIN steps', steps'[i].kind = "control", steps'[i] = steps'[j]
        PROVE  i = j
    <2>1. \A k \in 1 .. L : steps'[k] # s
      BY <1>0, <1>3 DEF OnRecord
    <2>2. \A k \in DOMAIN steps' : k \in 1 .. L \/ k = L + 1
      BY <1>0, <1>3
    <2> QED BY <1>3, <1>8, <2>1, <2>2 DEF JournalInOrder
  <1> QED BY <1>3, <1>4, <1>6, <1>7, <1>8 DEF JournalInOrder

LEMMA JobTyped ==
    ASSUME ServiceTypeOK, backupJob # << >>
    PROVE  backupJob[1] \in Jobs /\ backupJob[1].revision \in Nat /\ backupJob[1].cursor \in Nat /\ backupJob[1].source \in Nat
  <1>1. backupJob[1] \in Jobs
    BY DEF ServiceTypeOK
  <1> QED BY <1>1 DEF Jobs

\* A step of the journal, with everything else as it was.
LEMMA JournalMoves ==
    ASSUME ServiceInv, source' \in Nat, steps' \in Seq(Steps), Grows(steps, steps'), JournalInOrder',
           UNCHANGED backups, queue' \in Seq(Work), bypass' \in Seq(Controls),
           running' \in {"ready", "capture", "source", "paper"}, OneBackup',
           backupJob' = backupJob \/ backupJob' = << >>,
           running' \in {"source", "paper"} => running' = running /\ backupJob' = backupJob
    PROVE  ServiceInv'
  <1>0. /\ steps \in Seq(Steps) /\ backupJob \in Seq(Jobs) /\ backups \subseteq Manifests
        /\ backupJob' \in Seq(Jobs)
    <2>1. << >> \in Seq(Jobs)
      OBVIOUS
    <2> QED BY <2>1 DEF ServiceInv, ServiceTypeOK
  <1>1. ServiceTypeOK'
    BY <1>0 DEF ServiceInv, ServiceTypeOK
  <1>2. \A b \in backups' : Holds(steps', b)
    <2> SUFFICES ASSUME NEW b \in backups PROVE Holds(steps', b)
      OBVIOUS
    <2>1. b.revision \in Nat /\ Holds(steps, b)
      BY <1>0 DEF ServiceInv, Manifests
    <2> QED BY <1>0, <2>1, HoldsStill
  <1>3. CopyOnCourse'
    <2>1. ASSUME backupJob' # << >>, backupJob'[1].at = "verify" PROVE Holds(steps', backupJob'[1])
      <3>1. backupJob' = backupJob /\ Holds(steps, backupJob[1])
        BY <2>1 DEF ServiceInv, CopyOnCourse
      <3>2. backupJob[1].revision \in Nat
        BY <2>1, <3>1, JobTyped DEF ServiceInv
      <3> QED BY <1>0, <3>1, <3>2, HoldsStill
    <2>2. ASSUME running' \in {"source", "paper"}
          PROVE  /\ backupJob'[1].revision <= Len(steps')
                 /\ backupJob'[1].cursor = Consumed(steps', backupJob'[1].revision)
                 /\ running' = "paper" => backupJob'[1].cursor <= backupJob'[1].source
      <3>1. running' = running /\ backupJob' = backupJob /\ queue # << >> /\ queue[1].kind = "backup"
        BY <2>2 DEF ServiceInv, OneBackup
      <3>2. backupJob # << >>
        BY <3>1 DEF ServiceInv, OneBackup, ServiceTypeOK
      <3>3. backupJob[1].revision \in Nat
        BY <3>2, JobTyped DEF ServiceInv
      <3>4. /\ backupJob[1].revision <= Len(steps)
            /\ backupJob[1].cursor = Consumed(steps, backupJob[1].revision)
            /\ running = "paper" => backupJob[1].cursor <= backupJob[1].source
        BY <2>2, <3>1 DEF ServiceInv, CopyOnCourse
      <3>5. \A i \in 1 .. backupJob[1].revision : steps'[i] = steps[i]
        BY <1>0, <3>3, <3>4 DEF Grows
      <3>6. Consumed(steps', backupJob[1].revision) = Consumed(steps, backupJob[1].revision)
        BY <3>3, <3>5, ConsumedAgrees
      <3>7. backupJob[1].revision <= Len(steps')
        BY <1>0, <3>3, <3>4 DEF Grows
      <3> QED BY <3>1, <3>4, <3>6, <3>7
    <2> QED BY <2>1, <2>2 DEF CopyOnCourse
  <1> QED BY <1>1, <1>2, <1>3 DEF ServiceInv

\* The journal as it is.
LEMMA SameJournal ==
    ASSUME ServiceInv, source' \in Nat, source <= source', steps' = steps
    PROVE  source' \in Nat /\ steps' \in Seq(Steps) /\ Grows(steps, steps') /\ JournalInOrder'
  <1>1. steps \in Seq(Steps) /\ source \in Nat /\ Len(steps) \in Nat
    BY DEF ServiceInv, ServiceTypeOK
  <1>2. Consumed(steps, Len(steps)) \in Nat
    BY <1>1, ConsumedTyped
  <1>3. Grows(steps, steps)
    BY <1>1 DEF Grows
  <1>4. Consumed(steps, Len(steps)) <= source'
    BY <1>1, <1>2 DEF ServiceInv, JournalInOrder
  <1> QED BY <1>1, <1>3, <1>4 DEF ServiceInv, JournalInOrder

\* The first work leaves the queue.
LEMMA PopKeeps ==
    ASSUME ServiceInv, queue # << >>, Pop, queue[1].kind = "backup" \/ backupJob' = backupJob
    PROVE  queue' \in Seq(Work) /\ running' = "ready" /\ OneBackup'
  <1>0. queue \in Seq(Work)
    BY DEF ServiceInv, ServiceTypeOK
  <1>1. queue' \in Seq(Work) /\ running' = "ready" /\ 1 \in DOMAIN queue
    BY <1>0 DEF Pop
  <1>2. \A i \in DOMAIN queue' : i \in Nat /\ i # 0 /\ i + 1 \in DOMAIN queue /\ queue'[i] = queue[i + 1]
    BY <1>0 DEF Pop
  <1>3. queue[1].kind = "backup" => \A i \in DOMAIN queue' : queue'[i].kind # "backup"
    <2> SUFFICES ASSUME queue[1].kind = "backup", NEW i \in DOMAIN queue', queue'[i].kind = "backup" PROVE FALSE
      OBVIOUS
    <2>1. i + 1 = 1 /\ i \in Nat /\ i # 0
      BY <1>1, <1>2 DEF ServiceInv, OneBackup
    <2> QED BY <2>1
  <1>4. queue[1].kind # "backup" =>
           /\ \A i \in DOMAIN queue' : queue'[i].kind = "backup" => backupJob' # << >> /\ backupJob'[1].at = "queued"
           /\ \A i, j \in DOMAIN queue' : queue'[i].kind = "backup" /\ queue'[j].kind = "backup" => i = j
    <2> SUFFICES ASSUME queue[1].kind # "backup"
                 PROVE  /\ \A i \in DOMAIN queue' : queue'[i].kind = "backup" => backupJob # << >> /\ backupJob[1].at = "queued"
                        /\ \A i, j \in DOMAIN queue' : queue'[i].kind = "backup" /\ queue'[j].kind = "backup" => i + 1 = j + 1
      BY <1>2
    <2> QED BY <1>2 DEF ServiceInv, OneBackup
  <1> QED BY <1>1, <1>3, <1>4 DEF OneBackup

\* Work is put in line.
LEMMA PushKeeps ==
    ASSUME ServiceInv, NEW w \in Work, queue' = Append(queue, w), running' = running,
           \/ w.kind # "backup" /\ backupJob' = backupJob
           \/ backupJob = << >> /\ backupJob' # << >> /\ backupJob'[1].at = "queued"
    PROVE  queue' \in Seq(Work) /\ OneBackup'
  <1>0. queue \in Seq(Work) /\ Len(queue) \in Nat
    BY DEF ServiceInv, ServiceTypeOK
  <1>1. /\ queue' \in Seq(Work) /\ queue' # << >> /\ Len(queue) + 1 \notin DOMAIN queue
        /\ \A i \in DOMAIN queue' : (i \in DOMAIN queue /\ queue'[i] = queue[i]) \/ (i = Len(queue) + 1 /\ queue'[i] = w)
        /\ queue # << >> => queue'[1] = queue[1]
    BY <1>0
  <1>2. OneBackup
    BY DEF ServiceInv
  <1>3. backupJob = << >> => \A i \in DOMAIN queue : queue[i].kind # "backup"
    BY <1>2 DEF OneBackup
  <1>4. \A i \in DOMAIN queue' : queue'[i].kind = "backup" => backupJob' # << >> /\ backupJob'[1].at = "queued"
    BY <1>1, <1>2, <1>3 DEF OneBackup
  <1>5. \A i, j \in DOMAIN queue' : queue'[i].kind = "backup" /\ queue'[j].kind = "backup" => i = j
    BY <1>1, <1>2, <1>3 DEF OneBackup
  <1> QED BY <1>1, <1>2, <1>4, <1>5 DEF OneBackup

LEMMA CycleKeeps ==
    ASSUME ServiceInv, NextCycle \/ BeginCycle \/ FinishCapture
    PROVE  ServiceInv'
  <1>0. /\ ServiceTypeOK /\ JournalInOrder /\ OneBackup /\ source \in Nat /\ source <= source
        /\ queue \in Seq(Work) /\ bypass \in Seq(Controls)
    BY DEF ServiceInv, ServiceTypeOK
  <1>1. CASE NextCycle
    <2>1. [kind |-> "cycle", id |-> 0] \in Work
      BY DEF Work
    <2>2. queue' \in Seq(Work) /\ OneBackup'
      BY <1>1, <2>1, PushKeeps DEF NextCycle
    <2>3. source' \in Nat /\ steps' \in Seq(Steps) /\ Grows(steps, steps') /\ JournalInOrder'
      BY <1>0, <1>1, SameJournal DEF NextCycle
    <2> QED BY <1>0, <1>1, <2>2, <2>3, JournalMoves DEF NextCycle, ServiceTypeOK
  <1>2. CASE BeginCycle
    <2>1. /\ UNCHANGED <<source, backups, bypass, backupJob>> /\ running = "ready"
          /\ queue # << >> /\ queue[1].kind = "cycle"
      BY <1>2 DEF BeginCycle, Working
    <2>2. /\ running' \in {"ready", "capture"}
          /\ queue' \in Seq(Work) /\ OneBackup'
      <3>1. CASE Pop
        BY <2>1, <3>1, PopKeeps
      <3>2. CASE running' = "capture" /\ UNCHANGED queue
        BY <1>0, <2>1, <3>2 DEF OneBackup
      <3> QED BY <1>2, <3>1, <3>2 DEF BeginCycle
    <2>3. steps' \in Seq(Steps) /\ Grows(steps, steps') /\ JournalInOrder'
      <3>1. CASE steps' = steps
        BY <1>0, <2>1, <3>1, SameJournal
      <3>2. CASE steps' = CaughtUp(steps, source)
        BY <1>0, <2>1, <3>2, CatchUpKeeps
      <3> QED BY <1>2, <3>1, <3>2 DEF BeginCycle
    <2> QED BY <1>0, <2>1, <2>2, <2>3, JournalMoves
  <1>3. CASE FinishCapture
    <2>1. UNCHANGED <<backups, bypass, backupJob>> /\ Pop /\ queue # << >> /\ queue[1].kind = "cycle"
      BY <1>3 DEF FinishCapture, Working
    <2>2. queue' \in Seq(Work) /\ OneBackup' /\ running' = "ready"
      BY <2>1, PopKeeps
    <2>3. source' \in Nat /\ source <= source' /\ steps' \in {steps, CaughtUp(steps, source')}
      BY <1>0, <1>3 DEF FinishCapture
    <2>4. steps' \in Seq(Steps) /\ Grows(steps, steps') /\ JournalInOrder'
      <3>1. CASE steps' = steps
        BY <2>3, <3>1, SameJournal
      <3>2. CASE steps' = CaughtUp(steps, source')
        BY <1>0, <2>3, <3>2, CatchUpKeeps
      <3> QED BY <2>3, <3>1, <3>2
    <2> QED BY <1>0, <2>1, <2>2, <2>3, <2>4, JournalMoves
  <1> QED BY <1>1, <1>2, <1>3

\* receipt: what was recorded is answered from the journal.
LEMMA ApplyKeeps ==
    ASSUME ServiceInv, NEW c \in {0} \cup Controls, Apply(c), source' = source
    PROVE  source' \in Nat /\ steps' \in Seq(Steps) /\ Grows(steps, steps') /\ JournalInOrder'
  <1>0. ServiceTypeOK /\ JournalInOrder /\ source \in Nat /\ source <= source
    BY DEF ServiceInv, ServiceTypeOK
  <1>1. CASE steps' = steps
    BY <1>0, <1>1, SameJournal
  <1>2. CASE ~AnsweredBefore(c) /\ steps' = Append(steps, [kind |-> "control", id |-> c])
    BY <1>0, <1>2, ControlKeeps DEF AnsweredBefore
  <1> QED BY <1>1, <1>2 DEF Apply

LEMMA ControlsKeep ==
    ASSUME ServiceInv, RunControl \/ RunBypass \/ \E c \in Controls : Submit(c)
    PROVE  ServiceInv'
  <1>0. /\ source \in Nat /\ source <= source /\ queue \in Seq(Work) /\ bypass \in Seq(Controls) /\ OneBackup
        /\ running \in {"ready", "capture", "source", "paper"}
    BY DEF ServiceInv, ServiceTypeOK
  <1>1. CASE RunControl
    <2>1. /\ UNCHANGED <<source, backups, bypass, backupJob>> /\ Pop /\ queue # << >>
          /\ Apply(queue[1].id)
      BY <1>1 DEF RunControl, Working
    <2>2. queue[1].id \in {0} \cup Controls
      <3>1. queue[1] \in Work
        BY <1>0, <2>1
      <3> QED BY <3>1 DEF Work
    <2>3. queue' \in Seq(Work) /\ OneBackup' /\ running' = "ready"
      BY <2>1, PopKeeps
    <2>4. source' \in Nat /\ steps' \in Seq(Steps) /\ Grows(steps, steps') /\ JournalInOrder'
      BY <2>1, <2>2, ApplyKeeps
    <2> QED BY <1>0, <2>1, <2>3, <2>4, JournalMoves
  <1>2. CASE RunBypass
    <2>1. /\ UNCHANGED <<source, backups, queue, running, backupJob>>
          /\ bypass # << >> /\ Apply(bypass[1]) /\ bypass' = Tail(bypass)
      BY <1>2 DEF RunBypass
    <2>2. bypass[1] \in {0} \cup Controls /\ bypass' \in Seq(Controls)
      BY <1>0, <2>1
    <2>3. source' \in Nat /\ steps' \in Seq(Steps) /\ Grows(steps, steps') /\ JournalInOrder'
      BY <2>1, <2>2, ApplyKeeps
    <2>4. OneBackup'
      BY <1>0, <2>1 DEF OneBackup
    <2> QED BY <1>0, <2>1, <2>2, <2>3, <2>4, JournalMoves
  <1>3. ASSUME NEW c \in Controls, Submit(c) PROVE ServiceInv'
    <2>1. UNCHANGED <<source, steps, backups, running, backupJob>>
      BY <1>3 DEF Submit
    <2>2. source' \in Nat /\ steps' \in Seq(Steps) /\ Grows(steps, steps') /\ JournalInOrder'
      BY <1>0, <2>1, SameJournal
    <2>3. bypass' \in Seq(Controls) /\ queue' \in Seq(Work) /\ OneBackup'
      <3>1. CASE bypass' = Append(bypass, c) /\ UNCHANGED queue
        BY <1>0, <2>1, <3>1 DEF OneBackup
      <3>2. CASE queue' = Append(queue, [kind |-> "control", id |-> c]) /\ UNCHANGED bypass
        <4>1. [kind |-> "control", id |-> c] \in Work /\ [kind |-> "control", id |-> c].kind # "backup"
          BY DEF Work
        <4> QED BY <1>0, <2>1, <3>2, <4>1, PushKeeps
      <3> QED BY <1>3, <3>1, <3>2 DEF Submit
    <2> QED BY <1>0, <2>1, <2>2, <2>3, JournalMoves
  <1> QED BY <1>1, <1>2, <1>3

\* A step of the backup: the journals stay as they are.
LEMMA BackupMoves ==
    ASSUME ServiceInv, UNCHANGED <<source, steps, backups, bypass>>, queue' \in Seq(Work),
           running' \in {"ready", "capture", "source", "paper"}, backupJob' \in Seq(Jobs), OneBackup', CopyOnCourse'
    PROVE  ServiceInv'
  <1>1. ServiceTypeOK'
    BY DEF ServiceInv, ServiceTypeOK
  <1>2. JournalInOrder'
    BY DEF ServiceInv, JournalInOrder
  <1> QED BY <1>1, <1>2 DEF ServiceInv

\* The backup that was asked for is given up.
LEMMA GivenUp ==
    ASSUME ServiceInv, queue # << >>, queue[1].kind = "backup", Pop, backupJob' = << >>,
           UNCHANGED <<source, steps, backups, bypass>>
    PROVE  ServiceInv'
  <1>1. queue' \in Seq(Work) /\ running' = "ready" /\ OneBackup'
    BY PopKeeps
  <1>2. << >> \in Seq(Jobs)
    OBVIOUS
  <1>3. CopyOnCourse'
    BY <1>1 DEF CopyOnCourse
  <1> QED BY <1>1, <1>2, <1>3, BackupMoves

LEMMA BackupAsked == ASSUME ServiceInv, NEW b \in BackupIds, RequestBackup(b) PROVE ServiceInv'
  <1> DEFINE j == [id |-> b, at |-> "queued", revision |-> 0, cursor |-> 0, source |-> 0, steps |-> << >>]
             w == [kind |-> "backup", id |-> 0]
  <1>1. /\ UNCHANGED <<source, steps, backups, bypass, running>> /\ backupJob = << >>
        /\ backupJob' = <<j>> /\ queue' = Append(queue, w)
    BY DEF RequestBackup
  <1>2. j \in Jobs /\ j.at = "queued" /\ w \in Work
    <2>1. << >> \in Seq(Steps)
      OBVIOUS
    <2> QED BY <2>1 DEF Jobs, Work
  <1> HIDE DEF j, w
  <1>3. backupJob' \in Seq(Jobs) /\ backupJob' # << >> /\ backupJob'[1] = j
    BY <1>1, <1>2
  <1>4. queue' \in Seq(Work) /\ OneBackup'
    BY <1>1, <1>2, <1>3, PushKeeps
  <1>5. running \notin {"source", "paper"}
    BY <1>1 DEF ServiceInv, OneBackup, ServiceTypeOK
  <1>6. CopyOnCourse'
    BY <1>1, <1>2, <1>3, <1>5 DEF CopyOnCourse
  <1> QED BY <1>1, <1>3, <1>4, <1>6, BackupMoves DEF ServiceInv, ServiceTypeOK

\* The backup at the head of the queue.
LEMMA HeadBackup ==
    ASSUME ServiceInv, queue # << >>, queue[1].kind = "backup"
    PROVE  backupJob # << >> /\ backupJob[1] \in Jobs /\ backupJob[1].at = "queued" /\ steps \in Seq(Steps) /\ Len(steps) \in Nat
  <1>1. queue \in Seq(Work) /\ 1 \in DOMAIN queue
    BY DEF ServiceInv, ServiceTypeOK
  <1>2. backupJob # << >> /\ backupJob[1].at = "queued"
    BY <1>1 DEF ServiceInv, OneBackup
  <1> QED BY <1>2, JobTyped DEF ServiceInv, ServiceTypeOK

LEMMA BeginBackupKeeps == ServiceInv /\ BeginBackup => ServiceInv'
  <1> SUFFICES ASSUME ServiceInv, BeginBackup PROVE ServiceInv'
    OBVIOUS
  <1>1. UNCHANGED <<source, steps, backups, bypass>> /\ queue # << >> /\ queue[1].kind = "backup"
    BY DEF BeginBackup, Working
  <1>2. CASE backupJob' = << >> /\ Pop
    BY <1>1, <1>2, GivenUp
  <1>3. CASE /\ backupJob' = <<[backupJob[1] EXCEPT !.revision = Revision, !.cursor = Cursor(steps)]>>
             /\ running' = "source" /\ UNCHANGED queue
    <2> DEFINE j == [backupJob[1] EXCEPT !.revision = Revision, !.cursor = Cursor(steps)]
    <2>1. backupJob[1] \in Jobs /\ backupJob[1].at = "queued" /\ steps \in Seq(Steps) /\ Len(steps) \in Nat
      BY <1>1, HeadBackup
    <2>2. Cursor(steps) = Consumed(steps, Len(steps)) /\ Cursor(steps) \in Nat
      BY <2>1, CursorConsumed, ConsumedTyped
    <2>3. j \in Jobs /\ j.at = "queued" /\ j.revision = Len(steps) /\ j.cursor = Consumed(steps, Len(steps))
      BY <2>1, <2>2 DEF Jobs, Revision
    <2> HIDE DEF j
    <2>4. backupJob' = <<j>> /\ backupJob' \in Seq(Jobs) /\ backupJob' # << >> /\ backupJob'[1] = j
      BY <1>3, <2>3 DEF j
    <2>5. OneBackup'
      BY <1>1, <1>3, <2>3, <2>4 DEF ServiceInv, OneBackup
    <2>6. CopyOnCourse'
      BY <1>1, <1>3, <2>1, <2>3, <2>4 DEF CopyOnCourse
    <2> QED BY <1>1, <1>3, <2>4, <2>5, <2>6, BackupMoves DEF ServiceInv, ServiceTypeOK
  <1> QED BY <1>2, <1>3 DEF BeginBackup

LEMMA CopySourceKeeps == ServiceInv /\ CopySource => ServiceInv'
  <1> SUFFICES ASSUME ServiceInv, CopySource PROVE ServiceInv'
    OBVIOUS
  <1>1. UNCHANGED <<source, steps, backups, bypass>> /\ queue # << >> /\ queue[1].kind = "backup" /\ running = "source"
    BY DEF CopySource, Working
  <1>2. CASE backupJob' = << >> /\ Pop
    BY <1>1, <1>2, GivenUp
  <1>3. CASE Unchanged /\ backupJob' = <<[backupJob[1] EXCEPT !.source = source]>> /\ running' = "paper" /\ UNCHANGED queue
    <2> DEFINE j == [backupJob[1] EXCEPT !.source = source]
    <2>1. /\ backupJob[1] \in Jobs /\ backupJob[1].at = "queued" /\ steps \in Seq(Steps) /\ Len(steps) \in Nat
          /\ source \in Nat
      BY <1>1, HeadBackup DEF ServiceInv, ServiceTypeOK
    <2>2. backupJob[1].revision = Len(steps) /\ backupJob[1].cursor = Consumed(steps, Len(steps))
      BY <1>1, <1>3 DEF Unchanged, Revision, ServiceInv, CopyOnCourse
    <2>3. Consumed(steps, Len(steps)) <= source
      BY DEF ServiceInv, JournalInOrder
    <2>4. /\ j \in Jobs /\ j.at = "queued" /\ j.revision = Len(steps) /\ j.cursor = Consumed(steps, Len(steps))
          /\ j.cursor <= j.source
      BY <2>1, <2>2, <2>3 DEF Jobs
    <2> HIDE DEF j
    <2>5. backupJob' = <<j>> /\ backupJob' \in Seq(Jobs) /\ backupJob' # << >> /\ backupJob'[1] = j
      BY <1>3, <2>4 DEF j
    <2>6. OneBackup'
      BY <1>1, <1>3, <2>4, <2>5 DEF ServiceInv, OneBackup
    <2>7. CopyOnCourse'
      BY <1>1, <1>3, <2>1, <2>4, <2>5 DEF CopyOnCourse
    <2> QED BY <1>1, <1>3, <2>5, <2>6, <2>7, BackupMoves DEF ServiceInv, ServiceTypeOK
  <1> QED BY <1>2, <1>3 DEF CopySource

LEMMA CopyPaperKeeps == ServiceInv /\ CopyPaper => ServiceInv'
  <1> SUFFICES ASSUME ServiceInv, CopyPaper PROVE ServiceInv'
    OBVIOUS
  <1>1. UNCHANGED <<source, steps, backups, bypass>> /\ queue # << >> /\ queue[1].kind = "backup" /\ running = "paper" /\ Pop
    BY DEF CopyPaper, Working
  <1>2. CASE backupJob' = << >>
    BY <1>1, <1>2, GivenUp
  <1>3. CASE Unchanged /\ backupJob' = <<[backupJob[1] EXCEPT !.steps = steps, !.at = "verify"]>>
    <2> DEFINE j == [backupJob[1] EXCEPT !.steps = steps, !.at = "verify"]
    <2>1. /\ backupJob[1] \in Jobs /\ steps \in Seq(Steps) /\ Len(steps) \in Nat
      BY <1>1, HeadBackup
    <2>2. /\ backupJob[1].revision = Len(steps) /\ backupJob[1].cursor = Consumed(steps, Len(steps))
          /\ backupJob[1].cursor <= backupJob[1].source
      BY <1>1, <1>3 DEF Unchanged, Revision, ServiceInv, CopyOnCourse
    <2>3. /\ j \in Jobs /\ j.revision = Len(steps) /\ j.cursor = Consumed(steps, Len(steps))
          /\ j.cursor <= j.source /\ j.steps = steps
      BY <2>1, <2>2 DEF Jobs
    <2> HIDE DEF j
    <2>4. Holds(steps, j)
      BY <2>1, <2>3 DEF Holds
    <2>5. backupJob' = <<j>> /\ backupJob' \in Seq(Jobs) /\ backupJob' # << >> /\ backupJob'[1] = j
      BY <1>3, <2>3 DEF j
    <2>6. queue' \in Seq(Work) /\ running' = "ready" /\ OneBackup'
      BY <1>1, PopKeeps
    <2>7. CopyOnCourse'
      BY <1>1, <2>4, <2>5, <2>6 DEF CopyOnCourse
    <2> QED BY <1>1, <2>5, <2>6, <2>7, BackupMoves
  <1> QED BY <1>2, <1>3 DEF CopyPaper

LEMMA PublishKeeps == ServiceInv /\ PublishBackup => ServiceInv'
  <1> SUFFICES ASSUME ServiceInv, PublishBackup PROVE ServiceInv'
    OBVIOUS
  <1>1. /\ UNCHANGED <<source, steps, queue, running, bypass>> /\ backupJob' = << >>
        /\ backupJob # << >> /\ backupJob[1].at = "verify"
        /\ backups' \in {backups, backups \cup {Manifest(backupJob[1])}}
    BY DEF PublishBackup
  <1>2. backupJob[1] \in Jobs /\ backupJob[1].revision \in Nat /\ Holds(steps, backupJob[1])
    BY <1>1, JobTyped DEF ServiceInv, CopyOnCourse
  <1>3. Manifest(backupJob[1]) \in Manifests /\ Holds(steps, Manifest(backupJob[1]))
    BY <1>2 DEF Manifest, Manifests, Jobs, Holds
  <1>4. << >> \in Seq(Jobs)
    OBVIOUS
  <1>5. ServiceTypeOK'
    BY <1>1, <1>3, <1>4 DEF ServiceInv, ServiceTypeOK
  <1>6. \A i \in DOMAIN queue : queue[i].kind # "backup"
    BY <1>1 DEF ServiceInv, OneBackup
  <1>7. running \notin {"source", "paper"}
    BY <1>6 DEF ServiceInv, ServiceTypeOK, OneBackup
  <1>8. OneBackup' /\ CopyOnCourse'
    BY <1>1, <1>6, <1>7 DEF OneBackup, CopyOnCourse
  <1>9. JournalInOrder'
    BY <1>1 DEF ServiceInv, JournalInOrder
  <1>10. \A b \in backups' : Holds(steps', b)
    BY <1>1, <1>3 DEF ServiceInv
  <1> QED BY <1>5, <1>8, <1>9, <1>10 DEF ServiceInv

LEMMA ProcessEnds ==
    ASSUME ServiceInv, CloseService \/ ServiceClosed \/ ServiceCrash \/ Restart \/ UNCHANGED serviceVars
    PROVE  ServiceInv'
  <1>0. /\ ServiceTypeOK /\ JournalInOrder /\ source \in Nat /\ source <= source /\ queue \in Seq(Work) /\ bypass \in Seq(Controls) /\ OneBackup
        /\ running \in {"ready", "capture", "source", "paper"}
    BY DEF ServiceInv, ServiceTypeOK
  <1>1. CASE ServiceClosed \/ ServiceCrash
    <2>1. /\ queue' = << >> /\ running' = "ready" /\ bypass' = << >> /\ backupJob' = << >> /\ UNCHANGED <<steps, backups>>
          /\ source' \in Nat /\ source <= source'
      BY <1>0, <1>1 DEF ServiceClosed, ServiceCrash, Stopped
    <2>2. source' \in Nat /\ steps' \in Seq(Steps) /\ Grows(steps, steps') /\ JournalInOrder'
      BY <2>1, SameJournal
    <2>3. << >> \in Seq(Work) /\ << >> \in Seq(Controls)
      OBVIOUS
    <2>4. OneBackup'
      BY <2>1 DEF OneBackup
    <2> QED BY <2>1, <2>2, <2>3, <2>4, JournalMoves
  <1>2. CASE Restart
    <2>1. UNCHANGED <<source, backups, queue, running, bypass, backupJob>> /\ steps' = CaughtUp(steps, source)
      BY <1>2 DEF Restart
    <2>2. steps' \in Seq(Steps) /\ Grows(steps, steps') /\ JournalInOrder'
      BY <1>0, <2>1, CatchUpKeeps
    <2>3. OneBackup'
      BY <1>0, <2>1 DEF OneBackup
    <2> QED BY <1>0, <2>1, <2>2, <2>3, JournalMoves
  <1>3. CASE CloseService \/ UNCHANGED serviceVars
    <2>1. UNCHANGED <<source, steps, backups, queue, running, bypass, backupJob>>
      BY <1>3 DEF CloseService, serviceVars
    <2>2. source' \in Nat /\ steps' \in Seq(Steps) /\ Grows(steps, steps') /\ JournalInOrder'
      BY <1>0, <2>1, SameJournal
    <2>3. OneBackup'
      BY <1>0, <2>1 DEF OneBackup
    <2> QED BY <1>0, <2>1, <2>2, <2>3, JournalMoves
  <1> QED BY <1>1, <1>2, <1>3

LEMMA ServiceKeeps == ServiceInv /\ [ServiceNext]_serviceVars => ServiceInv'
  <1> SUFFICES ASSUME ServiceInv, [ServiceNext]_serviceVars PROVE ServiceInv'
    OBVIOUS
  <1>1. CASE CopyFails
    <2>1. /\ queue # << >> /\ queue[1].kind = "backup" /\ Pop /\ backupJob' = << >>
          /\ UNCHANGED <<source, steps, backups, bypass>>
      BY <1>1 DEF CopyFails
    <2> QED BY <2>1, GivenUp
  <1> QED BY <1>1, CycleKeeps, ControlsKeep, BackupAsked, BeginBackupKeeps, CopySourceKeeps, CopyPaperKeeps, PublishKeeps, ProcessEnds
          DEF ServiceNext

LEMMA ServiceStarts == ServiceInit => ServiceInv
  <1> SUFFICES ASSUME ServiceInit PROVE ServiceInv
    OBVIOUS
  <1>1. << >> \in Seq(Steps) /\ << >> \in Seq(Work) /\ << >> \in Seq(Controls) /\ << >> \in Seq(Jobs) /\ Len(<< >>) = 0
    OBVIOUS
  <1>2. Consumed(<< >>, 0) = 0
    <2>1. {i \in 1 .. 0 : << >>[i].kind = "batch"} = {}
      OBVIOUS
    <2> QED BY <2>1, FS_EmptySet DEF Consumed
  <1>3. ServiceTypeOK
    BY <1>1 DEF ServiceInit, ServiceTypeOK
  <1>4. JournalInOrder
    BY <1>1, <1>2 DEF ServiceInit, JournalInOrder
  <1> QED BY <1>3, <1>4 DEF ServiceInit, ServiceInv, OneBackup, CopyOnCourse

LEMMA JournalReplays == ServiceInv => JournalsReplay
  <1> SUFFICES ASSUME ServiceInv PROVE JournalFaithful /\ BackupsReplay
    BY DEF JournalsReplay
  <1>0. steps \in Seq(Steps) /\ backups \subseteq Manifests /\ Len(steps) \in Nat
    BY DEF ServiceInv, ServiceTypeOK
  <1>1. JournalFaithful
    <2>1. Cursor(steps) <= source
      BY <1>0, CursorConsumed DEF ServiceInv, JournalInOrder
    <2>2. \A i \in BatchSteps(steps) : steps[i].id = Cursor(SubSeq(steps, 1, i))
      BY <1>0, CursorConsumed DEF ServiceInv, JournalInOrder, BatchSteps
    <2> QED BY <2>1, <2>2 DEF JournalFaithful, ServiceInv, JournalInOrder
  <1>2. ASSUME NEW b \in backups
        PROVE  /\ b.steps = SubSeq(steps, 1, b.revision) /\ b.revision = Len(b.steps)
               /\ b.cursor = Cursor(b.steps) /\ b.cursor <= b.source
    <2>1. b.steps \in Seq(Steps) /\ b.revision \in Nat
      BY <1>0 DEF Manifests
    <2>2. /\ b.revision <= Len(steps) /\ Len(b.steps) = b.revision
          /\ \A i \in 1 .. b.revision : b.steps[i] = steps[i]
          /\ b.cursor = Consumed(b.steps, b.revision) /\ b.cursor <= b.source
      BY DEF ServiceInv, Holds
    <2>3. /\ SubSeq(steps, 1, b.revision) \in Seq(Steps) /\ Len(SubSeq(steps, 1, b.revision)) = b.revision
          /\ \A i \in 1 .. b.revision : SubSeq(steps, 1, b.revision)[i] = steps[i]
      BY <1>0, <2>1, <2>2
    <2>4. b.steps = SubSeq(steps, 1, b.revision)
      BY <2>1, <2>2, <2>3
    <2>5. b.cursor = Cursor(b.steps)
      BY <2>1, <2>2, CursorConsumed
    <2> QED BY <2>2, <2>4, <2>5
  <1> QED BY <1>1, <1>2 DEF BackupsReplay

\* The paper journal consumes the batches one by one and in order and applies no control twice, and a
\* published backup is the journal at the revision of its manifest, for any number of batches,
\* requests, stops during a copy, failures and crashes (reference-paper-service.ts).
THEOREM JournalsReplayed == ServiceSpec => []JournalsReplay
  BY ServiceStarts, ServiceKeeps, JournalReplays, PTL DEF ServiceSpec

\* Both servers' copies, each server at its own pace: what is verified is the newest backup, and a
\* journal or a backup of it replays to what was answered.
THEOREM CopiesAreTrue == ServerSpec /\ ServiceSpec => []CopiesTrue
  <1>1. JournalsReplay /\ ReportedIsNewest => CopiesTrue
    BY DEF CopiesTrue
  <1> QED BY <1>1, VerifiedIsNewest, JournalsReplayed, PTL
================================================================================
