---------------------------- MODULE LocalState ----------------------------
(***************************************************************************)
(* The app's local database (app/crates/core/state) and the storage worker *)
(* that fills it (platforms/web/src/workers/storage.rs).  The indexer      *)
(* (module EventSync) stores the chain's events in order; the processor    *)
(* sorts them into tables a batch at a time, scans new commitments for     *)
(* notes of the accounts whose keys are here, and marks the notes whose    *)
(* nullifiers have appeared as spent.                                      *)
(*                                                                         *)
(* An event is named by its place in the chain's log, a note by its        *)
(* commitment's event, a row by its place in the table.  A table is saved  *)
(* in a database transaction of its own, and the worker may be killed      *)
(* between two of them.                                                    *)
(*                                                                         *)
(* The pool takes an output whose commitment it has already: two leaves,   *)
(* two notes on the chain.  The table keeps one row per commitment, so the *)
(* other event stays unprocessed, and the processor never rests again.     *)
(***************************************************************************)
EXTENDS Amounts, Sequences, SequencesExt, FiniteSetsExt

CONSTANTS
    Accounts,          \* accounts that may be used on this device
    Nobody,            \* owner of an output that none of them can decrypt
    FetchLimit,        \* FETCH_LIMIT = 50
    MaxEvents,         \* bound on the events of the chain
    MaxLedger,         \* bound on the ledgers that close
    MaxRepeats,        \* bound on the outputs that repeat a commitment
    MaxCrashes         \* bound on the times the worker is killed

ASSUME LocalAssumption ==
    /\ IsFiniteSet(Accounts)
    /\ FetchLimit \in Nat \ {0}

VARIABLES
    log,               \* the events of the pool and membership contracts
    tip,               \* the ledger closed last
    raw,               \* how many events are in raw_contract_events
    fully,             \* last_fully_indexed_ledger
    db,                \* the tables made from them
    keys,              \* accounts with a row in keypairs
    busy,              \* process_until_empty is running
    kicked,            \* a signal is in the processor's channel
    crashes

chain     == <<log, tip>>
processor == <<busy, kicked>>
localVars == <<log, tip, raw, fully, db, keys, busy, kicked, crashes>>

Events(type) == {e \in DOMAIN log : log[e].type = type}

LocalInit ==
    /\ log = << >>
    /\ tip = 0
    /\ raw = 0
    /\ fully = 0
    /\ db = [nullifiers |-> << >>, commitments |-> << >>, members |-> {},
             notes |-> {}, spent |-> {}, scanned |-> [a \in Accounts |-> 0],
             reconciled |-> 0]
    /\ keys = {}
    /\ busy = FALSE
    /\ kicked = FALSE
    /\ crashes = 0

-----------------------------------------------------------------------------
(* The chain: a transaction of the pool emits its two nullifiers, 0 for an *)
(* empty input, and then its two commitments, of which at most the second  *)
(* is for an account of this device (a bound).                             *)

SpentOnChain == {log[e].note : e \in Events("nullifier")}
NotesOf(a)   == {n \in Events("commitment") : log[n].owner = a}
UnspentOf(a) == NotesOf(a) \ SpentOnChain

Emit(events) ==
    /\ tip < MaxLedger
    /\ Len(log) + Len(events) <= MaxEvents
    /\ tip' = tip + 1
    /\ log' = log \o events
    /\ UNCHANGED <<raw, fully, db, keys, processor, crashes>>

Nullifier(n) == [type |-> "nullifier", ledger |-> tip + 1, note |-> n]

\* A commitment is known by the event that published it first.
Commitment(a, first) ==
    [type |-> "commitment", ledger |-> tip + 1, owner |-> a, first |-> first]

Fresh(a, output) == Commitment(a, Len(log) + 2 + output)

PoolTransacts(n, a) ==
    Emit(<<Nullifier(n), Nullifier(0), Fresh(Nobody, 1), Fresh(a, 2)>>)

\* Its first output has the amount, key and blinding of an earlier one, which is
\* for an account of this device (a bound).
PoolRepeats(n, e) ==
    /\ Cardinality({f \in Events("commitment") : log[f].first # f}) < MaxRepeats
    /\ Emit(<<Nullifier(n), Nullifier(0),
              Commitment(log[e].owner, log[e].first), Fresh(Nobody, 2)>>)

MemberAdded(a) == Emit(<<[type |-> "leaf", ledger |-> tip + 1, owner |-> a]>>)

LedgerCloses == Emit(<< >>)

-----------------------------------------------------------------------------
(* What the indexer asks the worker to store.                              *)

SaveEventsMutant(n) ==
    /\ n \in (raw + 1)..Len(log)
    /\ raw' = n
    /\ UNCHANGED <<chain, fully, db, keys, busy, kicked, crashes>>
SaveEvents(n) ==
    /\ n \in (raw + 1)..Len(log)
    /\ raw' = n
    /\ kicked' = TRUE
    /\ UNCHANGED <<chain, fully, db, keys, busy, crashes>>

\* The empty page shows that no event up to this ledger is missing.
SaveFullyIndexed ==
    /\ raw = Len(log)
    /\ fully # tip
    /\ fully' = tip
    /\ UNCHANGED <<chain, raw, db, keys, processor, crashes>>

DeriveSaveUserKeys(a) ==
    /\ keys' = keys \cup {a}
    /\ kicked' = TRUE
    /\ UNCHANGED <<chain, raw, fully, db, busy, crashes>>

-----------------------------------------------------------------------------
(* The tables.                                                             *)

Descending(S) ==
    [i \in 1..Cardinality(S) |->
        CHOOSE e \in S : Cardinality({f \in S : f > e}) = i - 1]

ProcessedMutant(d) == ToSet(d.commitments) \cup d.members
Processed(d) == ToSet(d.nullifiers) \cup ToSet(d.commitments) \cup d.members

\* get_unprocessed_events: the oldest first.
UnprocessedMutant(d) ==
    LET todo == (1..raw) \ Processed(d)
    IN  {e \in todo : Cardinality({f \in todo : f > e}) < FetchLimit}
Unprocessed(d) ==
    LET todo == (1..raw) \ Processed(d)
    IN  {e \in todo : Cardinality({f \in todo : f < e}) < FetchLimit}

\* The batch is taken from its end, so its rows are in reverse order.
SaveNullifiers(d, batch) ==
    [d EXCEPT !.nullifiers = @ \o Descending(batch \cap Events("nullifier"))]

InsertedMutant(d, batch) ==
    LET found == batch \cap Events("commitment")
    IN  {e \in found : \A f \in ToSet(d.commitments) \cup (found \ {e}) :
                          log[f].first # log[e].first}

\* ON CONFLICT(commitment) DO NOTHING: of the events of one commitment the last
\* of a batch gets the row, if none of an earlier batch has it.
Inserted(d, batch) ==
    LET found == batch \cap Events("commitment")
    IN  {e \in found : \A f \in ToSet(d.commitments) \cup {g \in found : g > e} :
                          log[f].first # log[e].first}

SaveCommitments(d, batch) ==
    [d EXCEPT !.commitments = @ \o Descending(Inserted(d, batch))]

SaveLeaves(d, batch) ==
    [d EXCEPT !.members = @ \cup (batch \cap Events("leaf"))]

SpentIn(d, rows) == {log[d.nullifiers[i]].note : i \in rows}

\* How far the accounts' scans get: FetchLimit rows in all; how they share them
\* is left open.
Behind(d, a) == IF a \in keys THEN Len(d.commitments) - d.scanned[a] ELSE 0

ScanMarks(d) ==
    {marks \in [Accounts -> 0..Len(d.commitments)] :
        /\ \A a \in Accounts : marks[a] \in d.scanned[a]..(d.scanned[a] + Behind(d, a))
        /\ SumOf(Accounts, [a \in Accounts |-> marks[a] - d.scanned[a]])
             = Min({FetchLimit, SumOf(Accounts, [a \in Accounts |-> Behind(d, a)])})}

\* scan_commitments_for_user_notes: a note whose nullifier is in the table
\* already is saved as spent.
ScanCommitmentsOffByOne(d, marks) ==
    LET new == {d.commitments[i] : i \in
                  {j \in DOMAIN d.commitments : \E a \in keys :
                     /\ j \in (d.scanned[a] + 2)..marks[a]
                     /\ log[d.commitments[j]].owner = a}}
    IN  [d EXCEPT !.scanned = marks, !.notes = @ \cup new,
                  !.spent = @ \cup (new \cap SpentIn(d, DOMAIN d.nullifiers))]
ScanCommitmentsMutant(d, marks) ==
    LET new == {d.commitments[i] : i \in
                  {j \in DOMAIN d.commitments : \E a \in keys :
                     /\ j \in (d.scanned[a] + 1)..marks[a]
                     /\ log[d.commitments[j]].owner = a}}
    IN  [d EXCEPT !.scanned = marks, !.notes = @ \cup new]
ScanCommitments(d, marks) ==
    LET new == {d.commitments[i] : i \in
                  {j \in DOMAIN d.commitments : \E a \in keys :
                     /\ j \in (d.scanned[a] + 1)..marks[a]
                     /\ log[d.commitments[j]].owner = a}}
    IN  [d EXCEPT !.scanned = marks, !.notes = @ \cup new,
                  !.spent = @ \cup (new \cap SpentIn(d, DOMAIN d.nullifiers))]

\* reconcile_nullifiers
ReconcileNullifiers(d) ==
    LET last == Min({Len(d.nullifiers), d.reconciled + FetchLimit})
    IN  [d EXCEPT !.reconciled = last,
                  !.spent = @ \cup (d.notes \cap SpentIn(d, (d.reconciled + 1)..last))]

\* process_events: the database after the first k of its transactions.
ProcessEvents(k) ==
    LET batch       == Unprocessed(db)
        nullifiers  == SaveNullifiers(db, batch)
        commitments == SaveCommitments(nullifiers, batch)
    IN  <<db, nullifiers, commitments, SaveLeaves(commitments, batch)>>[k + 1]

-----------------------------------------------------------------------------
(* The processor.                                                          *)

WakeUp ==
    /\ ~busy /\ kicked
    /\ busy' = TRUE
    /\ kicked' = FALSE
    /\ UNCHANGED <<chain, raw, fully, db, keys, crashes>>

\* A round of process_until_empty, which ends with a round that finds nothing:
\* no event without a row, and nothing to scan or to reconcile.
Round ==
    /\ busy
    /\ \E marks \in ScanMarks(ProcessEvents(3)) :
           db' = ReconcileNullifiers(ScanCommitments(ProcessEvents(3), marks))
    /\ busy' = (Unprocessed(db) # {} \/ db' # db)
    /\ UNCHANGED <<chain, raw, fully, keys, kicked, crashes>>

\* The worker is killed in a round and starts again: the first ping kicks the
\* processor.
Crash ==
    /\ crashes < MaxCrashes
    /\ busy
    /\ \/ \E k \in 0..3 : db' = ProcessEvents(k)
       \/ \E marks \in ScanMarks(ProcessEvents(3)) :
              db' = ScanCommitments(ProcessEvents(3), marks)
    /\ busy' = FALSE
    /\ kicked' = TRUE
    /\ crashes' = crashes + 1
    /\ UNCHANGED <<chain, raw, fully, keys>>

ChainNext ==
    \/ \E n \in {0} \cup UNION {UnspentOf(a) : a \in Accounts} :
          \/ \E a \in Accounts \cup {Nobody} : PoolTransacts(n, a)
          \/ \E e \in UNION {NotesOf(a) : a \in Accounts} : PoolRepeats(n, e)
    \/ \E a \in Accounts : MemberAdded(a)
    \/ LedgerCloses

IndexerNext ==
    \/ \E n \in 1..Len(log) : SaveEvents(n)
    \/ SaveFullyIndexed

LocalNext ==
    \/ ChainNext
    \/ IndexerNext
    \/ \E a \in Accounts \ keys : DeriveSaveUserKeys(a)
    \/ WakeUp \/ Round \/ Crash

-----------------------------------------------------------------------------

\* The tables hold events of their kind, each once, and the marks lie in them.
LocalTypeOK ==
    /\ raw \in 0..Len(log) /\ fully \in 0..tip
    /\ ToSet(db.nullifiers) \subseteq Events("nullifier") \cap 1..raw
    /\ ToSet(db.commitments) \subseteq Events("commitment") \cap 1..raw
    /\ db.members \subseteq Events("leaf") \cap 1..raw
    /\ IsInjective(db.nullifiers) /\ IsInjective(db.commitments)
    /\ db.notes \subseteq ToSet(db.commitments)
    /\ db.spent \subseteq db.notes
    /\ db.scanned \in [Accounts -> 0..Len(db.commitments)]
    /\ db.reconciled \in 0..Len(db.nullifiers)

\* What comes before a row of its kind has a row, however a batch was cut and
\* wherever the worker was killed.  A commitment may have it from another event:
\* where one is published again, get_pool_commitment_leaves_ordered finds a gap
\* and the pool's tree cannot be built from the table, but no commitment is
\* missing from it.
NoGaps ==
    /\ \A rows \in {ToSet(db.nullifiers), db.members} :
           \A e \in rows, f \in DOMAIN log :
               f < e /\ log[f].type = log[e].type => f \in rows
    /\ \A e \in ToSet(db.commitments), f \in Events("commitment") :
           f < e => \E g \in ToSet(db.commitments) : log[g].first = log[f].first

\* A row an account's scan has passed is among its notes if it is its own,
\* although rows are in another order than events.
NoNoteOverlooked ==
    \A a \in Accounts, i \in DOMAIN db.commitments :
        i <= db.scanned[a] /\ log[db.commitments[i]].owner = a
            => db.commitments[i] \in db.notes

\* A note that counts as unspent has no nullifier among those reconciled: also
\* if its account's keys came after the nullifier, or the worker was killed
\* between the tables.
NoSpendOverlooked ==
    \A n \in db.notes \ db.spent, i \in 1..db.reconciled :
        log[db.nullifiers[i]].note # n

\* No table misses a nullifier, a member or a commitment that is older than one of
\* its rows, and no row that the scan and the reconciliation have passed is
\* overlooked, in whichever order rows, keys and crashes came.
NothingOverlooked == NoGaps /\ NoNoteOverlooked /\ NoSpendOverlooked

\* What the app shows once the processor has come to rest: exactly the notes an
\* account can spend.  No kick is lost on the way.  (With a commitment that was
\* published twice it does not come to rest: it never shows one note for two.)
ShowsTheTruth ==
    (~busy /\ ~kicked /\ raw = Len(log)) =>
        \A a \in keys :
            {n \in db.notes \ db.spent : log[n].owner = a} = UnspentOf(a)
=============================================================================
