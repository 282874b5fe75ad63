------------------------------ MODULE Ledgers ------------------------------
(***************************************************************************)
(* The ledger and the RPC servers in front of it, as the bootnode and the  *)
(* app's indexer use them: ledgers close one after the other, each with    *)
(* some events of the app's contracts, and getEvents returns a page of     *)
(* them after a cursor, from the ledgers the server still keeps.           *)
(*                                                                         *)
(* Event ids are numbers in ledger order, PerLedger of them for a ledger,  *)
(* and a cursor is the number of the last id it has passed.  Ledger 1 is   *)
(* the deployment ledger of the contracts.                                 *)
(***************************************************************************)
EXTENDS Integers, FiniteSets

CONSTANTS
    PerLedger,     \* most events in a ledger
    PageSize,      \* most events in a page
    Retention,     \* ledgers an RPC server keeps
    MovesOn,       \* the cursor of a page that is not full is the end of the
                   \* ledger, not the last event of the page
    MaxLedger,     \* bound on the ledgers of a run
    MaxEvents      \* bound on the events of a run

ASSUME LedgersAssumption ==
    /\ {PerLedger, PageSize, Retention, MaxLedger} \subseteq Nat \ {0}
    /\ MovesOn \in BOOLEAN
    /\ MaxEvents \in Nat

VARIABLES
    tip,           \* the last ledger closed
    events         \* the ids of the events so far

LastId(ledger)   == ledger * PerLedger
FirstIds(ledger, n) == LastId(ledger - 1) + 1 .. LastId(ledger - 1) + n
Ids              == 1..LastId(MaxLedger)
Cursors          == 0..LastId(MaxLedger)

LedgerOf(id)     == (id - 1) \div PerLedger + 1

Oldest == IF tip > Retention THEN tip - Retention + 1 ELSE 1

\* The events after cursor c up to cursor d.
Between(c, d) == {id \in events : c < id /\ id <= d}

\* The ends at which a page after cursor c is full.
FullEnds(c) == {d \in events : Cardinality(Between(c, d)) = PageSize}

\* Where a page that is not full ends.
ShortEnd(c) ==
    IF MovesOn THEN LastId(tip)
    ELSE CHOOSE d \in Between(c, LastId(tip)) \cup {c} :
            \A id \in Between(c, LastId(tip)) : id <= d

PageEnd(c) == IF FullEnds(c) # {} THEN CHOOSE d \in FullEnds(c) : TRUE
                                  ELSE ShortEnd(c)

\* latestLedger is the tip when the page is made.
PageAfter(c) == [ids |-> Between(c, PageEnd(c)), end |-> PageEnd(c), latest |-> tip]

Pages == [ids : SUBSET Ids, end : Cursors, latest : 1..MaxLedger]

\* The ledger a cursor is in.
LedgerAt(cursor) == IF cursor = 0 THEN 1 ELSE LedgerOf(cursor)

\* A server refuses to search from a ledger it no longer keeps, or after a
\* cursor in such a ledger.
Kept(ledger) == ledger >= Oldest

LedgersTypeOK ==
    /\ tip \in 1..MaxLedger
    /\ events \subseteq 1..LastId(tip)

LedgersInit ==
    /\ tip = 1
    /\ \E n \in 0..PerLedger : events = FirstIds(1, n) /\ n <= MaxEvents

CloseLedger ==
    /\ tip < MaxLedger
    /\ tip' = tip + 1
    /\ \E n \in 0..PerLedger :
           /\ Cardinality(events) + n <= MaxEvents
           /\ events' = events \cup FirstIds(tip + 1, n)
=============================================================================
