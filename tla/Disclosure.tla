----------------------------- MODULE Disclosure -----------------------------
(***************************************************************************)
(* Selective disclosure (app/crates/core/disclosure): a user proves to an  *)
(* authority that a note of the pool is hers, and hands over a receipt, a  *)
(* file that anyone may change.  Whoever verifies it has a key of his own  *)
(* choice to check the proof with and the pool to ask about the root.      *)
(*                                                                         *)
(* SHA-256 is the sequence of what it is fed, so the boundaries between    *)
(* the fields of a context are what the code makes them.                   *)
(***************************************************************************)
EXTENDS NoteFlow

CONSTANTS
    MaxText,           \* bound on the length of a context's texts
    Vks,               \* verifying keys of the builds in use
    MaxReceipts,       \* bound on the receipts issued
    ReceiptsUntil      \* bound on the transactions prepared before them

VARIABLE issued        \* receipts as their makers handed them out

discVars == <<flowVars, issued>>

DiscInit == FlowInit /\ issued = {}

Version   == 1
Circuit   == "selectiveDisclosure_1"
DisclosureLevels == 10
NumNotes  == 1

-----------------------------------------------------------------------------
(* A context and its hash.                                                 *)

Texts == UNION {[1..n -> {1}] : n \in 0..MaxText}

Contexts ==
    [network : {<<1>>}, pool : {<<2>>}, label : Texts, payload : Texts,
     purpose : {<<3>>}, nonce : {<<4>>}]

ValidContext(ctx) ==
    /\ ctx.network # << >> /\ ctx.pool # << >> /\ ctx.label # << >>
    /\ ctx.payload # << >> /\ ctx.purpose # << >>

\* The length goes before the text.
FeedStrMutant(s) == s
FeedStr(s) == <<Len(s)>> \o s

DeriveExtContextHash(ctx) ==
    FeedStr(ctx.network) \o FeedStr(ctx.pool) \o FeedStr(ctx.label)
        \o FeedStr(ctx.payload) \o FeedStr(ctx.purpose) \o ctx.nonce

-----------------------------------------------------------------------------
(* Making a receipt.                                                       *)

VkHash(vk) == <<"sha256", vk>>

ReceiptMetadata(vkHash) ==
    [name |-> Circuit, levels |-> DisclosureLevels, notes |-> NumNotes, vkHash |-> vkHash]

\* selective_disclosure_1, for a note as the storage worker found it.
SelectiveDisclosure1(u, note, hash) ==
    LET commitment == ComputeCommitment(note.amount, NotePubkey(u), note.blinding)
    IN  [roots |-> <<Len(leaves)>>, noteCommitments |-> <<commitment>>,
         extContextHash |-> hash,
         inAmount |-> note.amount, inPrivateKey |-> NotePrivateKey(u),
         inBlinding |-> note.blinding, inPathIndices |-> note.index,
         inPathElements |-> Len(leaves)]

\* selectiveDisclosure.circom
DisclosureHolds(c) ==
    LET commitment == ComputeCommitment(c.inAmount, DerivePublicKey(c.inPrivateKey),
                                        c.inBlinding)
    IN  /\ c.noteCommitments = <<commitment>>
        /\ c.roots = <<PathRoot(commitment, c.inPathIndices, c.inPathElements)>>

\* The signals of a proof in the circuit's order, and a receipt's in
\* public_inputs_order.
WitnessPublicInputs(c) == <<c.roots, c.noteCommitments, c.extContextHash>>

PublicInputsBytesMutant(pub) == <<pub.roots, pub.noteCommitments>>
PublicInputsBytes(pub) == <<pub.roots, pub.noteCommitments, pub.extContextHash>>

Receipt(vk, ctx, c) ==
    [version |-> Version, circuit |-> ReceiptMetadata(VkHash(vk)), context |-> ctx,
     public |-> [roots |-> c.roots, noteCommitments |-> c.noteCommitments,
                 extContextHash |-> c.extContextHash],
     proof |-> [vk |-> vk, inputs |-> WitnessPublicInputs(c)],
     issuedAt |-> "date"]

\* generate_selective_disclosure on a device whose build has this key.
Generate(u, note, vk, ctx) ==
    LET c == SelectiveDisclosure1(u, note, DeriveExtContextHash(ctx))
    IN  /\ Cardinality(issued) < MaxReceipts
        /\ fresh <= 4 * ReceiptsUntil
        /\ prepared[u] = None
        /\ note \in Unspent(u)
        /\ ValidContext(ctx)
        /\ DisclosureHolds(c)
        /\ issued' = issued \cup {Receipt(vk, ctx, c)}
        /\ UNCHANGED flowVars

\* Receipts are made with one label and payload (a bound); they may be changed
\* to any.
Requested == {ctx \in Contexts : Len(ctx.label) = 1 /\ Len(ctx.payload) = MaxText}

DiscNext ==
    \/ FlowNext /\ UNCHANGED issued
    \/ \E u \in Users, vk \in Vks, ctx \in Requested :
          \E note \in Unspent(u) : Generate(u, note, vk, ctx)

-----------------------------------------------------------------------------
(* Verifying one, with the key hash the verifier expects and the key of    *)
(* the build he runs.                                                      *)

\* validate_receipt, after find_circuit; a mismatch is an error.
ValidReceiptMutant(r, expected) ==
    /\ r.version = Version
    /\ ValidContext(r.context)
    /\ Len(r.public.roots) = NumNotes /\ Len(r.public.noteCommitments) = NumNotes
    /\ r.circuit.name = Circuit
    /\ r.issuedAt # ""
ValidReceipt(r, expected) ==
    /\ r.version = Version
    /\ ValidContext(r.context)
    /\ Len(r.public.roots) = NumNotes /\ Len(r.public.noteCommitments) = NumNotes
    /\ r.circuit = ReceiptMetadata(expected)
    /\ r.issuedAt # ""

VerifyProof(vk, proof, inputs) == proof.vk = vk /\ proof.inputs = inputs

VerifyReceiptProof(r, vk, expected) ==
    /\ VkHash(vk) = expected
    /\ ValidReceipt(r, expected)
    /\ VerifyProof(vk, r.proof, PublicInputsBytes(r.public))

VerifyReceiptContextMutant(r) == TRUE
VerifyReceiptContext(r) == DeriveExtContextHash(r.context) = r.public.extContextHash

KnownRoots(r) == \A i \in DOMAIN r.public.roots : IsKnownRoot(r.public.roots[i])

IsFullyVerified(r, vk, expected) ==
    /\ VerifyReceiptProof(r, vk, expected)
    /\ VerifyReceiptContext(r)
    /\ KnownRoots(r)

\* The app's own verification: the worker's key is the build's, and a refusal is
\* an error rather than a report.
VerifySelectiveDisclosure(r, vk, expected) ==
    IF VkHash(vk) # expected \/ ~ValidReceipt(r, expected) THEN None
    ELSE [proofVerified   |-> VerifyReceiptProof(r, vk, expected),
          knownRootStatus |-> KnownRoots(r),
          contextVerified |-> VerifyReceiptContext(r)]

Verified(report) ==
    report # None /\ report.proofVerified /\ report.contextVerified /\ report.knownRootStatus

-----------------------------------------------------------------------------

\* Files made by changing a part of a receipt.
WithContext(r, ctx, hash) == [r EXCEPT !.context = ctx, !.public.extContextHash = hash]
AlteredContext(r) ==
    {WithContext(r, ctx, hash) : ctx \in {c \in Contexts : ValidContext(c)},
                                 hash \in {r.public.extContextHash, << >>}}
AlteredInputs(r) ==
    {[r EXCEPT !.public.roots = <<root>>] : root \in 0..Len(leaves)}
      \cup {[r EXCEPT !.public.noteCommitments = <<leaves[i].commitment>>] :
              i \in DOMAIN leaves}
AlteredCircuit(r) == {[r EXCEPT !.circuit.vkHash = VkHash(vk)] : vk \in Vks}

Altered(r) == AlteredContext(r) \cup AlteredInputs(r) \cup AlteredCircuit(r)

Discloses(r, s) ==
    r.context = s.context /\ r.public = s.public /\ r.circuit = s.circuit

\* A changed receipt is fully verified only if it still says what its maker
\* disclosed, to that authority and for that purpose, about a note in a recent
\* tree of the pool; and one that was not changed is, with its maker's key,
\* while its root is known.  The app's report agrees with the library's.
ReceiptsAreSound ==
    \A r \in issued, vk \in Vks :
        /\ \A s \in Altered(r) \cup {r} :
              /\ IsFullyVerified(s, vk, VkHash(vk)) => Discloses(r, s)
              /\ IsFullyVerified(s, vk, VkHash(vk))
                   <=> Verified(VerifySelectiveDisclosure(s, vk, VkHash(vk)))
        /\ IsFullyVerified(r, vk, VkHash(vk))
             <=> (vk = r.proof.vk /\ IsKnownRoot(r.public.roots[1]))
=============================================================================
