------------------------------ MODULE NoteFlow ------------------------------
(***************************************************************************)
(* How the app makes transactions of the pool and finds its notes again:   *)
(* transact and its wrappers (prover/src/flows.rs) turn notes, amounts and *)
(* recipients into the inputs of the circuit and the data for the contract,*)
(* and every device tries to decrypt every output (prover/src/notes.rs).   *)
(* Recipients are known by the keys they registered.                       *)
(*                                                                         *)
(* Hashes, public keys and ciphertexts are tuples: injective and opaque.   *)
(* Random blindings are numbered.  The pool's tree is known by its number  *)
(* of leaves.  Amounts keep the widths of u128 and i128, scaled down.      *)
(***************************************************************************)
EXTENDS Integers, Sequences, SequencesExt, FiniteSetsExt, Amounts, PoolCall

CONSTANTS
    Users,
    None,
    NoteMax,           \* u128::MAX
    ExtMax,            \* i128::MAX
    MaxAmount,         \* 2^248: the circuit's range check
    RootHistorySize,   \* ROOT_HISTORY_SIZE = 90
    Capacity,          \* 2^levels leaves
    Parts,             \* amounts a user may ask for
    MaxPrepared        \* bound on the transactions prepared

VARIABLES
    registry,          \* DataKey::Registration of the key registry
    leaves,            \* commitments of the pool, with their encrypted outputs
    nullifiers,        \* DataKey::Nullifiers
    balance,           \* what the pool holds in the token contract
    prepared,          \* a user's transaction that is proved and not submitted
    fresh              \* blindings drawn so far

flowVars == <<registry, leaves, nullifiers, balance, prepared, fresh>>

N_INPUTS  == 2
N_OUTPUTS == 2

FlowInit ==
    /\ registry = [u \in Users |-> None]
    /\ leaves = << >>
    /\ nullifiers = {}
    /\ balance = 0
    /\ prepared = [u \in Users |-> None]
    /\ fresh = 0

-----------------------------------------------------------------------------
(* Keys and hashes: domains keep the two private keys and the hashes apart.*)

NotePrivateKey(u)       == <<"note-key", u>>
EncryptionPrivateKey(u) == <<"encryption-key", u>>
MembershipBlinding(u)   == <<"asp-secret", u>>
DerivePublicKey(key)    == <<3, key>>

ComputeCommitment(amount, pubkey, blinding) == <<1, amount, pubkey, blinding>>
ComputeSignature(key, commitment, path)     == <<4, key, commitment, path>>
ComputeNullifier(commitment, path, sig)     == <<2, commitment, path, sig>>
AspMembershipLeaf(pubkey, blinding)         == <<pubkey, blinding, 1>>

NullifierOf(key, commitment, path) ==
    ComputeNullifier(commitment, path, ComputeSignature(key, commitment, path))

NotePubkey(u)       == DerivePublicKey(NotePrivateKey(u))
EncryptionPubkey(u) == DerivePublicKey(EncryptionPrivateKey(u))

\* All users are approved and none is blocked; policies are module Pool's.
Approved == {AspMembershipLeaf(NotePubkey(u), MembershipBlinding(u)) : u \in Users}

EncryptOutputNote(pubkey, amount, blinding) ==
    [for |-> pubkey, amount |-> amount, blinding |-> blinding]

DecryptOutputNote(key, output) ==
    IF output.for = DerivePublicKey(key) THEN output ELSE None

\* try_decrypt_and_derive_user_note: leaves are counted from 0.
DeriveUserNoteMutant(u, i) ==
    LET key  == NotePrivateKey(u)
        note == DecryptOutputNote(EncryptionPrivateKey(u), leaves[i].output)
    IN  IF \/ note = None
           \/ note.amount = 0
           \/ ComputeCommitment(note.amount, NotePubkey(u), note.blinding)
                # leaves[i].commitment
        THEN None
        ELSE [amount |-> note.amount, blinding |-> note.blinding, index |-> i - 1,
              nullifier |-> NullifierOf(key, leaves[i].commitment, i)]
DeriveUserNote(u, i) ==
    LET key  == NotePrivateKey(u)
        note == DecryptOutputNote(EncryptionPrivateKey(u), leaves[i].output)
    IN  IF \/ note = None
           \/ note.amount = 0
           \/ ComputeCommitment(note.amount, NotePubkey(u), note.blinding)
                # leaves[i].commitment
        THEN None
        ELSE [amount |-> note.amount, blinding |-> note.blinding, index |-> i - 1,
              nullifier |-> NullifierOf(key, leaves[i].commitment, i - 1)]

NotesOf(u)  == {DeriveUserNote(u, i) : i \in DOMAIN leaves} \ {None}
Unspent(u)  == {note \in NotesOf(u) : note.nullifier \notin nullifiers}

-----------------------------------------------------------------------------
(* The checks of transact.                                                 *)

\* checked_add
CheckedSumMutant(a, b) == (a + b) % (NoteMax + 1)
CheckedSum(a, b) == IF a + b > NoteMax THEN None ELSE a + b

\* sum_note_amounts_inputs, sum_note_amounts_outputs
NoteSum(amounts) ==
    LET sum[n \in 0..Len(amounts)] ==
            IF n = 0 THEN 0
            ELSE IF sum[n - 1] = None THEN None ELSE CheckedSum(sum[n - 1], amounts[n])
    IN  sum[Len(amounts)]

AmountsIn(notes) == [i \in DOMAIN notes |-> notes[i].amount]

\* Inputs + ext_amount = outputs, without overflow.
Balanced(in, ext, out) ==
    /\ in # None /\ out # None
    /\ ext # -ExtMax - 1
    /\ \/ ext >= 0 /\ CheckedSum(in, ext) = out
       \/ ext < 0 /\ CheckedSum(out, -ext) = in

Paired(out) == (out.notePubkey = None) <=> (out.encryptionPubkey = None)

Valid(p) ==
    /\ Len(p.outputs) <= N_OUTPUTS
    /\ Balanced(NoteSum(AmountsIn(p.inputs)), p.ext, NoteSum(AmountsIn(p.outputs)))
    /\ Len(p.inputs) <= N_INPUTS
    /\ \A i \in DOMAIN p.outputs : Paired(p.outputs[i])

\* dummy_input, and the dummy outputs; a slot's blinding is its own.
DummyInputMutant(n) == [amount |-> 0, blinding |-> 0, path |-> 0, index |-> 0]
DummyInput(n) == [amount |-> 0, blinding |-> n, path |-> 0, index |-> 0]
DummyOutput(n) ==
    [amount |-> 0, blinding |-> n, notePubkey |-> None, encryptionPubkey |-> None]

InputSlots(inputs, first) ==
    [i \in 1..N_INPUTS |-> IF i <= Len(inputs) THEN inputs[i] ELSE DummyInput(first + i)]
OutputSlots(outputs, first) ==
    [i \in 1..N_OUTPUTS |-> IF i <= Len(outputs) THEN outputs[i] ELSE DummyOutput(first + i)]

\* Outputs without keys are the sender's own.
RecipientNotePubkey(u, out) ==
    IF out.notePubkey = None THEN NotePubkey(u) ELSE out.notePubkey
RecipientEncryptionPubkeyMutant(u, out) == EncryptionPubkey(u)
RecipientEncryptionPubkey(u, out) ==
    IF out.encryptionPubkey = None THEN EncryptionPubkey(u) ELSE out.encryptionPubkey

OutputCommitment(u, out) ==
    ComputeCommitment(out.amount, RecipientNotePubkey(u, out), out.blinding)
EncryptedOutput(u, out) ==
    EncryptOutputNote(RecipientEncryptionPubkey(u, out), out.amount, out.blinding)

InputCommitment(u, in) == ComputeCommitment(in.amount, NotePubkey(u), in.blinding)
InputNullifier(u, in) ==
    NullifierOf(NotePrivateKey(u), InputCommitment(u, in), in.index)

\* Field::try_from(ExtAmount)
PublicAmount(ext) == IF ext >= 0 THEN ext ELSE Field + ext

Each(op(_), slots) == [i \in 1..2 |-> op(slots[i])]

\* The circuit's inputs and the contract's.  The hash of ExtData is ExtData.
Artifacts(u, p) ==
    LET ins  == InputSlots(p.inputs, fresh + 2)
        outs == OutputSlots(p.outputs, fresh)
        ext  == [recipient |-> p.recipient, amount |-> p.ext,
                 outputs |-> Each(LAMBDA o : EncryptedOutput(u, o), outs)]
    IN  [circuit |->
            [root |-> p.root, publicAmount |-> PublicAmount(p.ext), extDataHash |-> ext,
             inputNullifier   |-> Each(LAMBDA in : InputNullifier(u, in), ins),
             outputCommitment |-> Each(LAMBDA o : OutputCommitment(u, o), outs),
             inAmount |-> AmountsIn(ins), inPrivateKey |-> NotePrivateKey(u),
             inBlinding |-> Each(LAMBDA in : in.blinding, ins),
             inPathIndices  |-> Each(LAMBDA in : in.index, ins),
             inPathElements |-> Each(LAMBDA in : in.path, ins),
             outAmount |-> AmountsIn(outs),
             outPubkey |-> Each(LAMBDA o : RecipientNotePubkey(u, o), outs),
             outBlinding |-> Each(LAMBDA o : o.blinding, outs),
             membershipRoots |-> <<MembershipRoot, MembershipRoot>>,
             nonMembershipRoots |-> <<NonMembershipRoot, NonMembershipRoot>>,
             membershipBlinding |-> MembershipBlinding(u)],
         ext |-> ext]

-----------------------------------------------------------------------------
(* The flows: what each asks transact for.                                 *)

Outputs(amounts, keys) ==
    [i \in DOMAIN amounts |->
        [amount |-> amounts[i], blinding |-> fresh + i,
         notePubkey |-> keys[i].note, encryptionPubkey |-> keys[i].encryption]]

Self == [note |-> None, encryption |-> None]

Deposit(amount, outputs) ==
    [root |-> Len(leaves), recipient |-> "pool", ext |-> amount,
     inputs |-> << >>, outputs |-> outputs]

\* An amount the inputs do not cover is refused; the change goes back.
CanWithdraw(amount, inputs) ==
    LET total == NoteSum(AmountsIn(inputs)) IN total # None /\ amount \in 0..total

Withdraw(amount, inputs) ==
    [root |-> Len(leaves), recipient |-> "outside", ext |-> -amount, inputs |-> inputs,
     outputs |-> Outputs(<<NoteSum(AmountsIn(inputs)) - amount, 0>>, <<Self, Self>>)]

Transfer(inputs, outputs) ==
    [root |-> Len(leaves), recipient |-> "pool", ext |-> 0,
     inputs |-> inputs, outputs |-> outputs]

Registered == {registry[u] : u \in Users} \ {None}

\* At most one output is for another user (a bound); deposits stay within the
\* pool's limit, which the app does not look at.
Addressees == UNION {{<<k, Self>>, <<Self, k>>} : k \in Registered \cup {Self}}

\* Notes as build_pool_inputs hands them over, with their paths.
InputNotes(notes) ==
    SetToSeq({[amount |-> n.amount, blinding |-> n.blinding, index |-> n.index,
               path |-> Len(leaves)] : n \in notes})

CanPrepare(u) == prepared[u] = None /\ fresh < 4 * MaxPrepared

Prepare(u, p) ==
    /\ Valid(p)
    /\ prepared' = [prepared EXCEPT ![u] = Artifacts(u, p)]
    /\ fresh' = fresh + 4
    /\ UNCHANGED <<registry, leaves, nullifiers, balance>>

Deposits(u) ==
    \E amount \in 0..ExtMax, a, b \in Parts, keys \in Addressees :
        Prepare(u, Deposit(amount, Outputs(<<a, b>>, keys)))

Withdraws(u) ==
    \E notes \in SUBSET Unspent(u), amount \in 0..ExtMax :
        /\ CanWithdraw(amount, InputNotes(notes))
        /\ Prepare(u, Withdraw(amount, InputNotes(notes)))

Transfers(u) ==
    \E notes \in SUBSET Unspent(u), a, b \in Parts, keys \in Addressees :
        Prepare(u, Transfer(InputNotes(notes), Outputs(<<a, b>>, keys)))

-----------------------------------------------------------------------------
(* The registry, the circuit and the pool.                                 *)

Register(u) ==
    /\ registry[u] = None
    /\ registry' = [registry EXCEPT ![u] = [note |-> NotePubkey(u),
                                            encryption |-> EncryptionPubkey(u)]]
    /\ UNCHANGED <<leaves, nullifiers, balance, prepared, fresh>>

\* The root of the tree in which the path leads to the commitment.
NoRoot == -1
PathRoot(commitment, index, path) ==
    IF index < path /\ leaves[index + 1].commitment = commitment THEN path ELSE NoRoot

\* policyTransaction.circom
InputHolds(c, i) ==
    LET commitment == ComputeCommitment(c.inAmount[i], DerivePublicKey(c.inPrivateKey),
                                        c.inBlinding[i])
    IN  /\ c.inputNullifier[i]
             = NullifierOf(c.inPrivateKey, commitment, c.inPathIndices[i])
        /\ c.inAmount[i] # 0 =>
             PathRoot(commitment, c.inPathIndices[i], c.inPathElements[i]) = c.root
        /\ AspMembershipLeaf(DerivePublicKey(c.inPrivateKey), c.membershipBlinding)
             \in Approved

OutputHolds(c, i) ==
    /\ c.outputCommitment[i]
         = ComputeCommitment(c.outAmount[i], c.outPubkey[i], c.outBlinding[i])
    /\ c.outAmount[i] < MaxAmount

CircuitHolds(c) ==
    /\ \A i \in 1..2 : InputHolds(c, i) /\ OutputHolds(c, i)
    /\ c.inputNullifier[1] # c.inputNullifier[2]
    /\ (c.inAmount[1] + c.inAmount[2] + c.publicAmount) % Field
         = (c.outAmount[1] + c.outAmount[2]) % Field

HasRoom == Len(leaves) + 2 <= Capacity
IsKnownRoot(root) == root > Len(leaves) - 2 * RootHistorySize

\* calculate_public_amount
CalculatePublicAmount(ext) == IF ext >= 0 THEN ext ELSE Field - (-ext)

\* A proof is made, and verified by the worker, only where the circuit holds.
Proved(tx) ==
    LET signals == PublicSignals(tx.circuit)
    IN  CircuitHolds(tx.circuit) /\ VerifyProofWithProcessedVk(signals, signals)

\* The arguments of transact.
PoolProof(tx) ==
    PoolProofToScval(ProofToUncompressedBytes(ProofPoints), PreparedTx(tx.circuit))

\* internal_transact
Accepts(proof, ext, signals) ==
    /\ HasRoom
    /\ IsKnownRoot(proof.root)
    /\ balance + ext.amount >= 0
    /\ nullifiers \cap ToSet(proof.input_nullifiers) = {}
    /\ proof.ext_data_hash = ext
    /\ (IF ext.amount >= 0 THEN ext.amount ELSE -ext.amount) < MaxAmount
    /\ proof.public_amount = CalculatePublicAmount(ext.amount)
    /\ proof.asp_membership_root = MembershipRoot
    /\ proof.asp_non_membership_root = NonMembershipRoot
    /\ PoolVerifyProof(proof, signals)

Succeeds(tx) ==
    /\ Proved(tx)
    /\ Accepts(PoolProof(tx), tx.ext, PublicSignals(tx.circuit))

Submit(u) ==
    /\ prepared[u] # None
    /\ LET tx    == prepared[u]
           proof == PoolProof(tx)
       IN  /\ Succeeds(tx)
           /\ nullifiers' = nullifiers \cup ToSet(proof.input_nullifiers)
           /\ balance' = balance + tx.ext.amount
           /\ leaves' = leaves \o
                  <<[commitment |-> proof.output_commitment0, output |-> tx.ext.outputs[1]],
                    [commitment |-> proof.output_commitment1, output |-> tx.ext.outputs[2]]>>
    /\ prepared' = [prepared EXCEPT ![u] = None]
    /\ UNCHANGED <<registry, fresh>>

\* The user does not sign, or the transaction is refused.
GiveUp(u) ==
    /\ prepared[u] # None
    /\ prepared' = [prepared EXCEPT ![u] = None]
    /\ UNCHANGED <<registry, leaves, nullifiers, balance, fresh>>

FlowNext ==
    \E u \in Users :
        \/ CanPrepare(u) /\ (Deposits(u) \/ Withdraws(u) \/ Transfers(u))
        \/ Register(u)
        \/ Submit(u)
        \/ GiveUp(u)

FlowSpec == FlowInit /\ [][FlowNext]_flowVars

-----------------------------------------------------------------------------

\* Whatever transact returns for a user's own notes satisfies the circuit and
\* passes the contract's checks, whoever transacts in between, as long as the
\* root is still known: no proof is made for nothing.
PreparedIsAccepted ==
    \A u \in Users :
        (prepared[u] # None /\ HasRoom /\ IsKnownRoot(prepared[u].circuit.root))
            => Succeeds(prepared[u])

Found == UNION {{u} \X Unspent(u) : u \in Users}

\* The notes the users find and hold to be unspent add up to what the pool
\* holds: every note is found by its recipient and by nobody else, with the
\* nullifier that its spending publishes.
WalletsAddUp == balance = SumOf(Found, [found \in Found |-> found[2].amount])
=============================================================================
