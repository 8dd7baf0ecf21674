------------------------------ MODULE NonceBook ------------------------------
(***************************************************************************)
(* What the signing side of the testnet executor promises to whoever       *)
(* shares its keys, without processes, journals or locks: a book that      *)
(* gives every nonce of a signer to one order for ever, holds one order of *)
(* a signer at a time, and lets an order go only while its own envelope    *)
(* really is with the network.  OrderExecutor implements it.               *)
(***************************************************************************)
EXTENDS Integers

VARIABLES
    book,   \* entries [signer, nonce, order]
    open,   \* entries whose outcome is not known
    wire    \* entries whose envelope the network holds, in a block or waiting

bookVars == <<book, open, wire>>

BookInit == book = {} /\ open = {} /\ wire = {}

Assign(entry) ==
    /\ \A e \in book : e.signer = entry.signer => e.nonce # entry.nonce
    /\ \A e \in open : e.signer # entry.signer
    /\ book' = book \cup {entry}
    /\ open' = open \cup {entry}
    /\ UNCHANGED wire

\* An envelope leaves once, and only while its entry is open.
Release(entry) ==
    /\ entry \in open \ wire
    /\ wire' = wire \cup {entry}
    /\ UNCHANGED <<book, open>>

\* The outcome is read off the network, so the network has the envelope.
Close(entry) ==
    /\ entry \in open \cap wire
    /\ open' = open \ {entry}
    /\ UNCHANGED <<book, wire>>

\* A reorganisation took the outcome back.
Reopen(entry) ==
    /\ entry \in book \ open
    /\ open' = open \cup {entry}
    /\ UNCHANGED <<book, wire>>

\* The network loses envelopes.
Lose ==
    /\ wire' \subseteq wire
    /\ UNCHANGED <<book, open>>

BookNext ==
    \/ \E entry \in book' \ book : Assign(entry)
    \/ \E entry \in book : Release(entry) \/ Close(entry) \/ Reopen(entry)
    \/ Lose

BookSpec == BookInit /\ [][BookNext]_bookVars
=============================================================================
