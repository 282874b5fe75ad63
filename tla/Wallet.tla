------------------------------- MODULE Wallet -------------------------------
(***************************************************************************)
(* A spend or a disclosure as the app's client makes it                    *)
(* (platforms/web/src/client): it reads the contracts' state from the      *)
(* chain, asks the storage worker for the proof's inputs, waits while the  *)
(* database is behind, proves and submits.  The chain, the indexer, the    *)
(* processor and the user's other devices go on between any two of these.  *)
(*                                                                         *)
(* A tree is known by its number of leaves: trees only grow and hashes are *)
(* injective.  contracts_data reads the pool's root after the rest and     *)
(* reads all again when the pool has changed, so what it returns is of one *)
(* moment.                                                                 *)
(***************************************************************************)
EXTENDS LocalState

VARIABLE client     \* what it is doing

vars == <<localVars, client>>

Idle == [at |-> "idle"]

Init == LocalInit /\ client = Idle

-----------------------------------------------------------------------------

SpendableNotes(a) == {n \in db.notes \ db.spent : log[n].owner = a}

\* A call begins while the chain goes on (a bound).
Calls == client = Idle /\ tip < MaxLedger

Started(kind, a, n) == [at |-> "started", kind |-> kind, account |-> a, note |-> n]

\* execute_plan with a plan of one step that spends one note.
StartSpend(a, n) ==
    /\ Calls
    /\ a \in keys
    /\ n \in SpendableNotes(a)
    /\ client' = Started("spend", a, n)
    /\ UNCHANGED localVars

\* generate_selective_disclosure, of a note that is shown as unspent.
StartDisclosure(a, n) ==
    /\ Calls
    /\ n \in SpendableNotes(a)
    /\ client' = Started("disclosure", a, n)
    /\ UNCHANGED localVars

\* contracts_data_for_pool
FetchState ==
    /\ client.at = "started"
    /\ client' = [at |-> "fetched", kind |-> client.kind,
                  account |-> client.account, note |-> client.note,
                  leaves  |-> Cardinality(Events("commitment")),
                  members |-> Cardinality(Events("leaf")),
                  ledger  |-> tip]
    /\ UNCHANGED localVars

LastMemberLedger == log[Max(db.members)].ledger

\* check_asp_membership_precondition.  A client that read the chain before the
\* indexer saw a newer ledger gets an error.
MembershipSync(c) ==
    CASE c.ledger > fully -> "sync"
      [] c.ledger < fully -> "error"
      [] c.ledger = fully /\ db.members = {} -> "register"
      [] OTHER ->
           IF Cardinality(db.members) # c.members
           THEN IF LastMemberLedger < c.ledger THEN "sync" ELSE "error"
           ELSE IF \E e \in db.members : log[e].owner = c.account
                THEN "member" ELSE "register"

\* get_pool_commitment_leaves_ordered gives up on a leaf that has no row.
LeafMissing ==
    \E e \in ToSet(db.commitments), f \in Events("commitment") :
        f < e /\ f \notin ToSet(db.commitments)

\* build_validated_pool_tree: all commitments of that moment must be here.
PoolSyncedMutant(c) == TRUE
PoolSynced(c) == Len(db.commitments) = c.leaves

\* get_unspent_user_note_by_commitment
NoteHeld(c) == c.note \in SpendableNotes(c.account)

\* StorageWorkerRequest::Transact; a note that is not here may still be derived.
TransactParams(c) ==
    CASE MembershipSync(c) # "member" -> MembershipSync(c)
      [] MembershipSync(c) = "member" /\ LeafMissing -> "error"
      [] OTHER -> IF PoolSynced(c) /\ NoteHeld(c) THEN "prove" ELSE "sync"

\* StorageWorkerRequest::DisclosureInputs, which does not ask for membership.
DisclosureInputs(c) ==
    CASE LeafMissing -> "error"
      [] ~LeafMissing /\ ~PoolSynced(c) -> "sync"
      [] OTHER -> IF NoteHeld(c) THEN "prove" ELSE "error"

Answer(c) ==
    IF c.kind = "disclosure" THEN DisclosureInputs(c) ELSE TransactParams(c)

\* TransactParams or DisclosureInputs, with the roots of that moment.
Params(c) ==
    [at |-> "prove", kind |-> c.kind, account |-> c.account, note |-> c.note,
     members |-> c.members]

\* After a wait the state is fetched again; an account that should register and
\* an error end the call.
AskStorage ==
    /\ client.at = "fetched"
    /\ client' = CASE Answer(client) = "sync" ->
                        Started(client.kind, client.account, client.note)
                   [] Answer(client) = "prove" -> Params(client)
                   [] OTHER -> Idle
    /\ UNCHANGED localVars

\* The prover worker makes a receipt.
Disclose ==
    /\ client.at = "prove"
    /\ client.kind = "disclosure"
    /\ client' = Idle
    /\ UNCHANGED localVars

\* What the pool asks of the proof; the pool's own root stays known for long.
Accepted ==
    /\ client.note \notin SpentOnChain
    /\ client.members = Cardinality(Events("leaf"))

\* prove_and_submit: time passes until the pool executes what was proved.
Submit ==
    /\ client.at = "prove"
    /\ client.kind = "spend"
    /\ Accepted
    /\ \E a \in {client.account, Nobody} : PoolTransacts(client.note, a)
    /\ client' = Idle

\* A request to the chain or a worker fails or times out, the simulation fails,
\* or the wallet does not sign.
End ==
    /\ client # Idle
    /\ client' = Idle
    /\ UNCHANGED localVars

\* The client goes with its worker.
CrashAll == Crash /\ client' = Idle

Next ==
    \/ (ChainNext \/ IndexerNext \/ WakeUp \/ Round) /\ UNCHANGED client
    \/ (\E a \in Accounts \ keys : DeriveSaveUserKeys(a)) /\ UNCHANGED client
    \/ \E a \in Accounts, n \in 1..Len(log) : StartSpend(a, n) \/ StartDisclosure(a, n)
    \/ FetchState \/ AskStorage \/ Disclose \/ Submit \/ End
    \/ CrashAll

Spec == Init /\ [][Next]_vars

-----------------------------------------------------------------------------

\* A proof, of a spend or a disclosure, is made only of a note that was unspent
\* when the chain was read, although the database went on in between and
\* another device may have spent the note: who has all commitments of that
\* moment has its nullifiers too.  (After the worker was killed, nullifiers that
\* are not yet reconciled may be of this note; the pool then refuses the spend.)
ProvesUnspentNotes ==
    [][(client.at = "fetched" /\ client'.at = "prove"
          /\ db.reconciled = Len(db.nullifiers)) =>
         \A e \in Events("nullifier") :
             log[e].note = client.note => log[e].ledger > client.ledger]_vars
=============================================================================
