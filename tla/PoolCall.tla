------------------------------ MODULE PoolCall ------------------------------
(***************************************************************************)
(* A proof's way from the prover's worker to the contract that verifies    *)
(* it: the worker's response (platforms/web/src/workers/prover.rs), the    *)
(* proof's points as bytes (prover/src/prover.rs), the arguments of        *)
(* transact (core/stellar/src/soroban_encode.rs), what the contract makes  *)
(* of them (contracts/types, pool.rs: verify_proof) and the verifier       *)
(* (circom-groth16-verifier).                                              *)
(*                                                                         *)
(* Public values are ordered five times on this way and a point's          *)
(* coordinates three times, each by code of its own.  Groth16 is taken as  *)
(* complete and sound: a proof verifies with the public signals, and the   *)
(* points, that it was made of.  A field element of 32 bytes is one cell.  *)
(***************************************************************************)
EXTENDS Integers, Sequences, SequencesExt

CONSTANT Field         \* BN254 modulus

MembershipRoot    == "root of the approved"
NonMembershipRoot == "root of the blocked"

-----------------------------------------------------------------------------
(* The worker.                                                             *)

\* The public signals of policyTransaction.circom, as they are declared.
PublicSignals(c) ==
    <<c.root, c.publicAmount, c.extDataHash>>
        \o c.inputNullifier \o c.outputCommitment
        \o c.membershipRoots \o c.nonMembershipRoots

\* One point for the constant and one for every public signal of the circuit.
IcLength == 1 + 11

\* The worker verifies what it has proved, with the signals of the witness.
VerifyProofWithProcessedVk(inputs, signals) ==
    /\ Len(inputs) = IcLength - 1
    /\ inputs = signals

\* What transact returns besides the circuit's inputs, from the same values.
PreparedTx(c) ==
    [pool_root               |-> c.root,
     input_nullifiers        |-> c.inputNullifier,
     output_commitments      |-> c.outputCommitment,
     public_amount           |-> c.publicAmount,
     ext_data_hash_be        |-> c.extDataHash,
     asp_membership_root     |-> c.membershipRoots[1],
     asp_non_membership_root |-> c.nonMembershipRoots[1]]

\* The points of a proof, with coordinates in Fq and in Fq2 = c0 + c1 * u.
ProofPoints ==
    [a |-> [x |-> "a.x", y |-> "a.y"],
     b |-> [x |-> [c0 |-> "b.x.c0", c1 |-> "b.x.c1"],
            y |-> [c0 |-> "b.y.c0", c1 |-> "b.y.c1"]],
     c |-> [x |-> "c.x", y |-> "c.y"]]

G1BytesUncompressed(p) == <<p.x, p.y>>

\* Imaginary part first, unlike arkworks.
G2BytesUncompressedMutant(p) == <<p.x.c0, p.x.c1, p.y.c0, p.y.c1>>
G2BytesUncompressed(p) == <<p.x.c1, p.x.c0, p.y.c1, p.y.c0>>

ProofToUncompressedBytes(p) ==
    G1BytesUncompressed(p.a) \o G2BytesUncompressed(p.b) \o G1BytesUncompressed(p.c)

-----------------------------------------------------------------------------
(* The call.                                                               *)

\* 64, 128 and 64 bytes
Groth16ProofToScval(bytes) ==
    [a |-> SubSeq(bytes, 1, 2), b |-> SubSeq(bytes, 3, 6), c |-> SubSeq(bytes, 7, 8)]

PoolProofToScval(bytes, public) ==
    [proof                   |-> Groth16ProofToScval(bytes),
     root                    |-> public.pool_root,
     input_nullifiers        |-> public.input_nullifiers,
     output_commitment0      |-> public.output_commitments[1],
     output_commitment1      |-> public.output_commitments[2],
     public_amount           |-> public.public_amount,
     ext_data_hash           |-> public.ext_data_hash_be,
     asp_membership_root     |-> public.asp_membership_root,
     asp_non_membership_root |-> public.asp_non_membership_root]

-----------------------------------------------------------------------------
(* The contracts.                                                          *)

\* The host reads a point of G2 imaginary part first.
Bn254G1Affine(bytes) == [x |-> bytes[1], y |-> bytes[2]]
Bn254G2Affine(bytes) == [x |-> [c1 |-> bytes[1], c0 |-> bytes[2]],
                         y |-> [c1 |-> bytes[3], c0 |-> bytes[4]]]
Groth16Proof(scval) ==
    [a |-> Bn254G1Affine(scval.a), b |-> Bn254G2Affine(scval.b),
     c |-> Bn254G1Affine(scval.c)]

\* Roots, nullifiers and commitments are hashes: only an amount could be
\* outside the field.
ValidateBn256PublicInputs(proof) == proof.public_amount \in 0..(Field - 1)

\* verify_proof: the policies' roots are repeated for every input.
PublicInputsMutant(proof) ==
    <<proof.root, proof.public_amount, proof.ext_data_hash>>
        \o <<proof.output_commitment0, proof.output_commitment1>>
        \o proof.input_nullifiers
        \o [i \in DOMAIN proof.input_nullifiers |-> proof.asp_membership_root]
        \o [i \in DOMAIN proof.input_nullifiers |-> proof.asp_non_membership_root]
PublicInputs(proof) ==
    <<proof.root, proof.public_amount, proof.ext_data_hash>>
        \o proof.input_nullifiers
        \o <<proof.output_commitment0, proof.output_commitment1>>
        \o [i \in DOMAIN proof.input_nullifiers |-> proof.asp_membership_root]
        \o [i \in DOMAIN proof.input_nullifiers |-> proof.asp_non_membership_root]

\* verify_with_vk.  Where the points are not the proof's, the pairing fails.
VerifyWithVk(points, inputs, signals) ==
    /\ Len(inputs) + 1 = IcLength
    /\ points = ProofPoints
    /\ inputs = signals

PoolVerifyProof(proof, signals) ==
    /\ ValidateBn256PublicInputs(proof)
    /\ VerifyWithVk(Groth16Proof(proof.proof), PublicInputs(proof), signals)
=============================================================================
