---------------------------- MODULE SpendProofs ----------------------------
(***************************************************************************)
(* Theorems about the flows that make transactions of notes and about      *)
(* selective disclosure (modules NoteFlow, Disclosure and PoolCall), for   *)
(* any number of users, notes, transactions and receipts, any amounts and  *)
(* any field.                                                              *)
(***************************************************************************)
EXTENDS MCSpend, AmountsProofs, SequenceTheorems

-----------------------------------------------------------------------------
(* Notes, commitments and nullifiers.                                      *)

Commitment(u, amount, blinding) ==
    Disc!ComputeCommitment(amount, Disc!NotePubkey(u), blinding)

Nullifier(u, amount, blinding, index) ==
    Disc!NullifierOf(Disc!NotePrivateKey(u), Commitment(u, amount, blinding), index)

\* A commitment is of one user, amount and blinding.
LEMMA CommitmentInjective ==
    ASSUME NEW u, NEW v, NEW a, NEW b, NEW c, NEW d, Commitment(u, a, b) = Commitment(v, c, d)
    PROVE  u = v /\ a = c /\ b = d
BY DEF Commitment, Disc!ComputeCommitment, Disc!NotePubkey, Disc!DerivePublicKey,
       Disc!NotePrivateKey

\* A nullifier is of one note at one place in the tree.
LEMMA NullifierInjective ==
    ASSUME NEW u, NEW v, NEW a, NEW b, NEW c, NEW d, NEW i, NEW j,
           Nullifier(u, a, b, i) = Nullifier(v, c, d, j)
    PROVE  u = v /\ a = c /\ b = d /\ i = j
<1>1. Commitment(u, a, b) = Commitment(v, c, d) /\ i = j
  BY DEF Nullifier, Disc!NullifierOf, Disc!ComputeNullifier
<1> QED
  BY <1>1, CommitmentInjective

\* Encryption keys are of one user.
LEMMA EncryptionInjective ==
    ASSUME NEW u, NEW v, Disc!EncryptionPubkey(u) = Disc!EncryptionPubkey(v)
    PROVE  u = v
BY DEF Disc!EncryptionPubkey, Disc!DerivePublicKey, Disc!EncryptionPrivateKey

\* What None is not, by name.
LEMMA NoneFacts ==
    /\ None \notin Nat
    /\ \A u \in Users : None # Disc!NotePubkey(u) /\ None # Disc!EncryptionPubkey(u)
    /\ \A u \in Users, a, b \in Nat :
           None # [for |-> Disc!EncryptionPubkey(u), amount |-> a, blinding |-> b]
    /\ \A u \in Users, a, b, i \in Nat :
           None # [amount |-> a, blinding |-> b, index |-> i,
                   nullifier |-> Nullifier(u, a, b, i)]
    /\ \A p, k, c \in BOOLEAN :
           None # [proofVerified |-> p, knownRootStatus |-> k, contextVerified |-> c]
<1> DEFINE keys        == {Disc!NotePrivateKey(u) : u \in Users}
           pubkeys     == {Disc!NotePubkey(u) : u \in Users}
           encryption  == {Disc!EncryptionPubkey(u) : u \in Users}
           commitments == {1} \X Nat \X pubkeys \X Nat
           signatures  == {4} \X keys \X commitments \X Nat
           nulls       == {2} \X commitments \X Nat \X signatures
<1>1. /\ None \notin Nat \cup pubkeys \cup encryption
      /\ None \notin [for : encryption, amount : Nat, blinding : Nat]
      /\ None \notin [amount : Nat, blinding : Nat, index : Nat, nullifier : nulls]
      /\ None \notin [proofVerified : BOOLEAN, knownRootStatus : BOOLEAN,
                      contextVerified : BOOLEAN]
  BY NoneAssumption, Zenon
<1>2. \A u \in Users, a, b, i \in Nat : Nullifier(u, a, b, i) \in nulls
  <2> TAKE u \in Users, a, b, i \in Nat
  <2>1. Disc!NotePubkey(u) \in pubkeys /\ Disc!NotePrivateKey(u) \in keys
    OBVIOUS
  <2> HIDE DEF pubkeys, keys
  <2>2. Commitment(u, a, b) \in commitments
    BY <2>1 DEF Commitment, Disc!ComputeCommitment
  <2> HIDE DEF commitments
  <2>3. Disc!ComputeSignature(Disc!NotePrivateKey(u), Commitment(u, a, b), i) \in signatures
    BY <2>1, <2>2 DEF Disc!ComputeSignature
  <2> HIDE DEF signatures
  <2> QED
    BY <2>2, <2>3 DEF Nullifier, Disc!NullifierOf, Disc!ComputeNullifier
<1> HIDE DEF nulls
<1>3. \A u \in Users, a, b, i \in Nat :
           None # [amount |-> a, blinding |-> b, index |-> i,
                   nullifier |-> Nullifier(u, a, b, i)]
  BY <1>1, <1>2
<1>4. \A u \in Users, a, b \in Nat :
           None # [for |-> Disc!EncryptionPubkey(u), amount |-> a, blinding |-> b]
  BY <1>1
<1> QED
  BY <1>1, <1>3, <1>4

-----------------------------------------------------------------------------
(* The call: what the worker proved is what the contract verifies.         *)

\* Two slots are a pair.
LEMMA PairOf ==
    ASSUME NEW f, f = [i \in 1..2 |-> f[i]]
    PROVE  f = <<f[1], f[2]>>
OBVIOUS

\* A row of five pieces has as many elements as they have.
LEMMA FiveLen ==
    ASSUME NEW S, NEW a \in Seq(S), NEW b \in Seq(S), NEW c \in Seq(S), NEW d \in Seq(S),
           NEW e \in Seq(S)
    PROVE  Len(a \o b \o c \o d \o e) = Len(a) + Len(b) + Len(c) + Len(d) + Len(e)
<1>1. a \o b \in Seq(S) /\ Len(a \o b) = Len(a) + Len(b)
  BY ConcatProperties
<1>2. a \o b \o c \in Seq(S) /\ Len(a \o b \o c) = Len(a) + Len(b) + Len(c)
  BY <1>1, ConcatProperties
<1>3. a \o b \o c \o d \in Seq(S) /\ Len(a \o b \o c \o d) = Len(a) + Len(b) + Len(c) + Len(d)
  BY <1>2, ConcatProperties
<1> QED
  BY <1>3, ConcatProperties

\* The points of a proof are read as they were made.
LEMMA PointsRead ==
    Disc!Groth16Proof(Disc!Groth16ProofToScval(
        Disc!ProofToUncompressedBytes(Disc!ProofPoints))) = Disc!ProofPoints
<1> DEFINE S == {"a.x", "a.y", "b.x.c1", "b.x.c0", "b.y.c1", "b.y.c0", "c.x", "c.y"}
           a == <<"a.x", "a.y">>
           b == <<"b.x.c1", "b.x.c0", "b.y.c1", "b.y.c0">>
           c == <<"c.x", "c.y">>
           bytes == (a \o b) \o c
<1>1. Disc!ProofToUncompressedBytes(Disc!ProofPoints) = bytes
  BY DEF Disc!ProofToUncompressedBytes, Disc!ProofPoints, Disc!G1BytesUncompressed,
         Disc!G2BytesUncompressed
<1>2. /\ a \in Seq(S) /\ Len(a) = 2
      /\ b \in Seq(S) /\ Len(b) = 4
      /\ c \in Seq(S) /\ Len(c) = 2
  OBVIOUS
<1>3. /\ a[1] = "a.x" /\ a[2] = "a.y"
      /\ b[1] = "b.x.c1" /\ b[2] = "b.x.c0" /\ b[3] = "b.y.c1" /\ b[4] = "b.y.c0"
      /\ c[1] = "c.x" /\ c[2] = "c.y"
  OBVIOUS
<1> HIDE DEF a, b, c, S
<1>4. /\ a \o b \in Seq(S) /\ Len(a \o b) = 6
      /\ \A i \in 1..6 : (a \o b)[i] = IF i <= 2 THEN a[i] ELSE b[i - 2]
  <2>1. /\ a \o b \in Seq(S) /\ Len(a \o b) = Len(a) + Len(b)
        /\ \A i \in 1..(Len(a) + Len(b)) :
              (a \o b)[i] = IF i <= Len(a) THEN a[i] ELSE b[i - Len(a)]
    BY <1>2, ConcatProperties, Zenon
  <2> QED
    BY <1>2, <2>1
<1>5. /\ bytes \in Seq(S) /\ Len(bytes) = 8
      /\ \A i \in 1..8 : bytes[i] = IF i <= 6 THEN (a \o b)[i] ELSE c[i - 6]
  <2> DEFINE ab == a \o b
  <2>1. ab \in Seq(S)
    BY <1>4
  <2> HIDE DEF ab
  <2>2. /\ ab \o c \in Seq(S) /\ Len(ab \o c) = Len(ab) + Len(c)
        /\ \A i \in 1..(Len(ab) + Len(c)) :
              (ab \o c)[i] = IF i <= Len(ab) THEN ab[i] ELSE c[i - Len(ab)]
    BY <1>2, <2>1, ConcatProperties, Zenon
  <2>3. Len(ab) = 6
    BY <1>4 DEF ab
  <2>4. bytes = ab \o c
    BY DEF ab
  <2> HIDE DEF bytes
  <2>7. \A i \in 1..(Len(ab) + Len(c)) :
            bytes[i] = IF i <= Len(ab) THEN ab[i] ELSE c[i - Len(ab)]
    BY <2>2, <2>4, Zenon
  <2>5. \A i \in 1..8 : bytes[i] = IF i <= 6 THEN ab[i] ELSE c[i - 6]
    BY <1>2, <2>3, <2>7
  <2>6. bytes \in Seq(S) /\ Len(bytes) = 8
    BY <1>2, <2>2, <2>3, <2>4
  <2> QED
    BY <2>5, <2>6 DEF ab
<1>6. /\ bytes[1] = "a.x" /\ bytes[2] = "a.y" /\ bytes[3] = "b.x.c1"
      /\ bytes[4] = "b.x.c0" /\ bytes[5] = "b.y.c1" /\ bytes[6] = "b.y.c0"
      /\ bytes[7] = "c.x" /\ bytes[8] = "c.y"
  <2> DEFINE ab == a \o b
  <2>1. \A i \in 1..6 : ab[i] = IF i <= 2 THEN a[i] ELSE b[i - 2]
    BY <1>4
  <2>2. \A i \in 1..8 : bytes[i] = IF i <= 6 THEN ab[i] ELSE c[i - 6]
    BY <1>5
  <2> HIDE DEF ab, bytes
  <2> QED
    BY <1>3, <2>1, <2>2
<1>7. \A i \in 1..8 : bytes[i] \in S
  BY <1>5, ElementOfSeq
<1> HIDE DEF bytes
<1>8. /\ SubSeq(bytes, 1, 2)[1] = bytes[1] /\ SubSeq(bytes, 1, 2)[2] = bytes[2]
      /\ SubSeq(bytes, 7, 8)[1] = bytes[7] /\ SubSeq(bytes, 7, 8)[2] = bytes[8]
      /\ SubSeq(bytes, 3, 6)[1] = bytes[3] /\ SubSeq(bytes, 3, 6)[2] = bytes[4]
      /\ SubSeq(bytes, 3, 6)[3] = bytes[5] /\ SubSeq(bytes, 3, 6)[4] = bytes[6]
  <2>1. \A i \in 1..2 : SubSeq(bytes, 1, 2)[i] = bytes[1 + i - 1]
    BY <1>7, SubSeqProperties
  <2>2. \A i \in 1..2 : SubSeq(bytes, 7, 8)[i] = bytes[7 + i - 1]
    BY <1>7, SubSeqProperties
  <2>3. \A i \in 1..4 : SubSeq(bytes, 3, 6)[i] = bytes[3 + i - 1]
    BY <1>7, SubSeqProperties
  <2> QED
    BY <2>1, <2>2, <2>3
<1> QED
  BY <1>1, <1>6, <1>8
     DEF Disc!Groth16Proof, Disc!Groth16ProofToScval, Disc!Bn254G1Affine,
         Disc!Bn254G2Affine, Disc!ProofPoints

\* The contract orders the public values of a proof of two inputs and two outputs
\* as the circuit does, and the proof verifies with them.
LEMMA SignalsKept ==
    ASSUME NEW c, NEW n1, NEW n2, NEW o1, NEW o2,
           c.inputNullifier = <<n1, n2>>, c.outputCommitment = <<o1, o2>>,
           c.membershipRoots = <<Disc!MembershipRoot, Disc!MembershipRoot>>,
           c.nonMembershipRoots = <<Disc!NonMembershipRoot, Disc!NonMembershipRoot>>,
           c.publicAmount \in 0..(Field - 1),
           NEW proof, proof = Disc!PoolProof([circuit |-> c, ext |-> c.extDataHash])
    PROVE  /\ Disc!VerifyProofWithProcessedVk(Disc!PublicSignals(c), Disc!PublicSignals(c))
           /\ Disc!PoolVerifyProof(proof, Disc!PublicSignals(c))
           /\ proof.root = c.root /\ proof.ext_data_hash = c.extDataHash
           /\ proof.public_amount = c.publicAmount
           /\ proof.input_nullifiers = <<n1, n2>>
           /\ proof.output_commitment0 = o1 /\ proof.output_commitment1 = o2
           /\ proof.asp_membership_root = Disc!MembershipRoot
           /\ proof.asp_non_membership_root = Disc!NonMembershipRoot
<1> DEFINE R == <<c.root, c.publicAmount, c.extDataHash>>
           M == Disc!MembershipRoot
           N == Disc!NonMembershipRoot
           S == {c.root, c.publicAmount, c.extDataHash, n1, n2, o1, o2, M, N}
           publics == R \o <<n1, n2>> \o <<o1, o2>> \o <<M, M>> \o <<N, N>>
           public == Disc!PreparedTx(c)
<1>1. Disc!PublicSignals(c) = publics
  BY DEF Disc!PublicSignals
<1>2. Len(publics) = 11
  <2> DEFINE n == <<n1, n2>>
             o == <<o1, o2>>
             m == <<M, M>>
             q == <<N, N>>
  <2>1. /\ R \in Seq(S) /\ Len(R) = 3
        /\ n \in Seq(S) /\ Len(n) = 2 /\ o \in Seq(S) /\ Len(o) = 2
        /\ m \in Seq(S) /\ Len(m) = 2 /\ q \in Seq(S) /\ Len(q) = 2
    OBVIOUS
  <2>2. publics = R \o n \o o \o m \o q
    OBVIOUS
  <2> HIDE DEF R, S, n, o, m, q, publics
  <2>3. Len(R \o n \o o \o m \o q) = Len(R) + Len(n) + Len(o) + Len(m) + Len(q)
    <3>1. R \in Seq(S) /\ n \in Seq(S) /\ o \in Seq(S) /\ m \in Seq(S) /\ q \in Seq(S)
      BY <2>1
    <3> QED
      BY <3>1, FiveLen, SMT
  <2> QED
    BY <2>1, <2>2, <2>3
<1>3. /\ public.pool_root = c.root /\ public.input_nullifiers = <<n1, n2>>
      /\ public.output_commitments = <<o1, o2>>
      /\ public.public_amount = c.publicAmount
      /\ public.ext_data_hash_be = c.extDataHash
      /\ public.asp_membership_root = M /\ public.asp_non_membership_root = N
  BY DEF Disc!PreparedTx
<1>4. proof = Disc!PoolProofToScval(Disc!ProofToUncompressedBytes(Disc!ProofPoints), public)
  BY DEF Disc!PoolProof
<1> HIDE DEF public
<1>5. /\ proof.root = c.root /\ proof.ext_data_hash = c.extDataHash
      /\ proof.public_amount = c.publicAmount
      /\ proof.input_nullifiers = <<n1, n2>>
      /\ proof.output_commitment0 = o1 /\ proof.output_commitment1 = o2
      /\ proof.asp_membership_root = M /\ proof.asp_non_membership_root = N
      /\ proof.proof = Disc!Groth16ProofToScval(Disc!ProofToUncompressedBytes(Disc!ProofPoints))
  BY <1>3, <1>4 DEF Disc!PoolProofToScval
<1>6. Disc!PublicInputs(proof) = publics
  <2>1. /\ [i \in DOMAIN <<n1, n2>> |-> M] = <<M, M>>
        /\ [i \in DOMAIN <<n1, n2>> |-> N] = <<N, N>>
    OBVIOUS
  <2> HIDE DEF M, N
  <2> QED
    BY <1>5, <2>1, Zenon DEF Disc!PublicInputs
<1>7. Disc!Groth16Proof(proof.proof) = Disc!ProofPoints
  BY <1>5, PointsRead, Zenon
<1> HIDE DEF publics
<1>8. Disc!PoolVerifyProof(proof, publics)
  <2>1. Disc!ValidateBn256PublicInputs(proof)
    BY <1>5 DEF Disc!ValidateBn256PublicInputs
  <2>2. Disc!VerifyWithVk(Disc!ProofPoints, publics, publics)
    BY <1>2 DEF Disc!VerifyWithVk, Disc!IcLength
  <2> QED
    BY <1>6, <1>7, <2>1, <2>2, Zenon DEF Disc!PoolVerifyProof
<1>9. Disc!VerifyProofWithProcessedVk(publics, publics)
  BY <1>2 DEF Disc!VerifyProofWithProcessedVk, Disc!IcLength
<1> QED
  BY <1>1, <1>5, <1>8, <1>9

-----------------------------------------------------------------------------
(* Sums of amounts, and notes in a row.                                    *)

\* checked_add is the sum, or fails.
LEMMA CheckedSumIs ==
    ASSUME NEW a \in Nat, NEW b \in Nat, NEW s \in Nat, Disc!CheckedSum(a, b) = s
    PROVE  s = a + b /\ s <= NoteMax
<1>1. None \notin Nat
  BY NoneFacts, Zenon
<1> QED
  BY <1>1, AmountsAssumption DEF Disc!CheckedSum

\* The sum of at most two amounts, where it does not fail.
LEMMA NoteSumIs ==
    ASSUME NEW n \in 0..2, NEW amounts \in [1..n -> Nat]
    PROVE  \/ Disc!NoteSum(amounts) = None
           \/ /\ Disc!NoteSum(amounts) \in 0..NoteMax
              /\ Disc!NoteSum(amounts) = (IF n >= 1 THEN amounts[1] ELSE 0)
                                           + (IF n = 2 THEN amounts[2] ELSE 0)
<1> DEFINE Next(s, i) == IF s = None THEN None ELSE Disc!CheckedSum(s, amounts[i])
           First == Next(0, 1)
           F(f) == [k \in 0..n |-> IF k = 0 THEN 0 ELSE Next(f[k - 1], k)]
           sum == CHOOSE f : f = F(f)
           g == [k \in 0..n |-> IF k = 0 THEN 0 ELSE IF k = 1 THEN First ELSE Next(First, 2)]
<1>1. Len(amounts) = n
  OBVIOUS
<1>2. Disc!NoteSum(amounts) = sum[n]
  BY <1>1 DEF Disc!NoteSum
<1>3. g = F(g)
  <2> HIDE DEF Next
  <2>1. \A k \in 0..n : g[k] = IF k = 0 THEN 0 ELSE Next(g[k - 1], k)
    <3>1. \A k \in 0..n : k = 0 \/ k = 1 \/ k = 2
      OBVIOUS
    <3>2. g[0] = 0
      OBVIOUS
    <3>3. 1 \in 0..n => g[1] = Next(g[0], 1)
      BY <3>2
    <3>4. 2 \in 0..n => g[2] = Next(g[1], 2)
      OBVIOUS
    <3> QED
      BY <3>1, <3>2, <3>3, <3>4
  <2> QED
    BY <2>1
<1> HIDE DEF g
<1>4. sum = F(sum)
  BY <1>3, Zenon
<1> HIDE DEF sum
<1>5. sum[0] = 0 /\ (n >= 1 => sum[1] = Next(sum[0], 1)) /\ (n = 2 => sum[2] = Next(sum[1], 2))
  BY <1>4
<1>6. None \notin Nat
  BY NoneFacts, Zenon
<1>7. CASE n = 0
  BY <1>2, <1>5, <1>7, AmountsAssumption
<1>8. ASSUME n >= 1
      PROVE  \/ sum[1] = None
             \/ sum[1] \in 0..NoteMax /\ sum[1] = amounts[1]
  BY <1>5, <1>6, <1>8, AmountsAssumption DEF Disc!CheckedSum
<1>9. CASE n = 1
  BY <1>2, <1>8, <1>9
<1>10. CASE n = 2
  <2>1. \/ sum[1] = None
        \/ sum[1] \in 0..NoteMax /\ sum[1] = amounts[1]
    BY <1>8, <1>10
  <2>2. sum[2] = Next(sum[1], 2)
    BY <1>5, <1>10
  <2>3. CASE sum[1] = None
    BY <1>2, <1>10, <2>2, <2>3
  <2>4. CASE sum[1] \in 0..NoteMax /\ sum[1] = amounts[1]
    <3>1. sum[1] # None /\ amounts[2] \in Nat
      BY <1>6, <1>10, <2>4, AmountsAssumption
    <3>2. sum[2] = Disc!CheckedSum(sum[1], amounts[2])
      BY <2>2, <3>1
    <3> QED
      BY <1>2, <1>10, <2>4, <3>1, <3>2, AmountsAssumption DEF Disc!CheckedSum
  <2> QED
    BY <2>1, <2>3, <2>4
<1> QED
  BY <1>7, <1>9, <1>10

\* The elements of a finite set in a row are all different.
LEMMA InARow ==
    ASSUME NEW S, IsFiniteSet(S)
    PROVE  /\ Disc!SetToSeq(S) \in [1..Cardinality(S) -> S]
           /\ \A i, j \in 1..Cardinality(S) :
                  Disc!SetToSeq(S)[i] = Disc!SetToSeq(S)[j] => i = j
           /\ Cardinality(S) \in Nat
<1>0. Disc!Cardinality(S) = Cardinality(S)
  BY Zenon DEF Disc!Cardinality, Cardinality
<1>1. /\ Cardinality(S) \in Nat
      /\ ExistsBijection(1..Cardinality(S), S)
  BY FS_CardinalityType
<1>2. PICK f \in Bijection(1..Cardinality(S), S) : TRUE
  BY <1>1 DEF ExistsBijection
<1>3. /\ f \in [1..Cardinality(S) -> S]
      /\ \A a, b \in 1..Cardinality(S) : f[a] = f[b] => a = b
  BY <1>2 DEF Bijection, Injection, IsInjective
<1>4. Disc!IsInjective(f)
  BY <1>3 DEF Disc!IsInjective
<1> DEFINE g == Disc!SetToSeq(S)
<1>5. g \in [1..Cardinality(S) -> S] /\ Disc!IsInjective(g)
  <2>1. g = CHOOSE h \in [1..Cardinality(S) -> S] : Disc!IsInjective(h)
    BY <1>0, Zenon DEF Disc!SetToSeq
  <2> HIDE DEF g
  <2> QED
    BY <1>3, <1>4, <2>1, Zenon
<1> QED
  BY <1>1, <1>5 DEF Disc!IsInjective

\* A number is its quotient and its remainder.
LEMMA Divided ==
    ASSUME NEW a \in Nat, NEW m \in Nat, m > 0
    PROVE  a = (a \div m) * m + (a % m) /\ a \div m \in Nat /\ a % m \in 0..(m - 1)
BY SMT

\* A multiple of m between -m and m is 0.
LEMMA SmallMultiple ==
    ASSUME NEW d \in Int, NEW m \in Nat, m > 0, NEW x \in Int, x = d * m, x < m, x > -m
    PROVE  x = 0
<1>1. CASE d >= 1
  <2>1. d * m >= m
    BY <1>1, SMT
  <2> QED
    BY <2>1
<1>2. CASE d <= -1
  <2>1. d * m <= -m
    BY <1>2, SMT
  <2> QED
    BY <2>1
<1>3. CASE d = 0
  BY <1>3
<1> QED
  BY <1>1, <1>2, <1>3

\* Adding the field's order changes no remainder.
LEMMA ModField ==
    ASSUME NEW a \in Nat, NEW m \in Nat, m > 0
    PROVE  (a + m) % m = a % m
<1> DEFINE b == a + m
           q == a \div m
           r == a % m
           p == b \div m
           s == b % m
           d == p - q - 1
<1>1. a = q * m + r /\ q \in Nat /\ r \in 0..(m - 1)
  BY Divided
<1>2. b \in Nat
  OBVIOUS
<1> HIDE DEF b
<1>3. b = p * m + s /\ p \in Nat /\ s \in 0..(m - 1)
  BY <1>2, Divided
<1> HIDE DEF q, r, p, s
<1>4. d * m = p * m - q * m - m
  BY <1>1, <1>3, SMT
<1>5. /\ r - s = d * m /\ d \in Int
      /\ r - s \in Int /\ r - s < m /\ r - s > -m
  BY <1>1, <1>3, <1>4 DEF b
<1> HIDE DEF d
<1>6. r - s = 0
  BY <1>5, SmallMultiple
<1> QED
  BY <1>1, <1>3, <1>6 DEF b, r, s

-----------------------------------------------------------------------------
(* The inductive invariant.                                                *)

Leaf(v, amount, blinding) ==
    [commitment |-> Commitment(v, amount, blinding),
     output |-> [for |-> Disc!EncryptionPubkey(v), amount |-> amount, blinding |-> blinding]]

Keys(v) == [note |-> Disc!NotePubkey(v), encryption |-> Disc!EncryptionPubkey(v)]

\* What a leaf publishes when its owner spends it.
SpentAs(v, i) ==
    Nullifier(v, leaves[i].output.amount, leaves[i].output.blinding, i - 1)

\* The leaves that are notes and not spent.
Live ==
    {i \in 1..Len(leaves) :
        /\ leaves[i].output.amount # 0
        /\ \E v \in Users : /\ leaves[i].output.for = Disc!EncryptionPubkey(v)
                            /\ SpentAs(v, i) \notin nullifiers}

StateInv ==
    /\ registry \in [Users -> {None} \cup {Keys(v) : v \in Users}]
    /\ leaves = [i \in 1..Len(leaves) |-> leaves[i]] /\ Len(leaves) \in Nat
    /\ fresh \in Nat /\ balance \in Nat
    /\ prepared = [u \in Users |-> prepared[u]]

\* Every leaf is a user's, who can decrypt it.
LeavesInv ==
    \A i \in 1..Len(leaves) : \E v \in Users :
        /\ leaves[i] = Leaf(v, leaves[i].output.amount, leaves[i].output.blinding)
        /\ leaves[i].output.amount \in Nat /\ leaves[i].output.blinding \in Nat

\* A nullifier is of a leaf of the tree, or of a slot without a note.
NullifiersInv ==
    \A n \in nullifiers : \E v \in Users :
        \/ \E b \in 0..fresh, i \in 0..Len(leaves) : n = Nullifier(v, 0, b, i)
        \/ \E i \in 1..Len(leaves) :
              /\ n = SpentAs(v, i)
              /\ leaves[i].output.for = Disc!EncryptionPubkey(v)
              /\ leaves[i].output.amount # 0

LeafAmounts == [i \in 1..Len(leaves) |-> leaves[i].output.amount]

BalanceInv == balance = SumOf(Live, LeafAmounts)

\* What the circuit is told of input i: a note of the user's, at its place in the
\* tree of the root, or nothing, with a blinding of its own.
InputReady(u, c, i) ==
    /\ c.inAmount[i] \in Nat /\ c.inBlinding[i] \in Nat
    /\ c.inAmount[i] = 0 => c.inBlinding[i] \in 0..fresh
    /\ c.inPathIndices[i] \in 0..Len(leaves)
    /\ c.inputNullifier[i]
         = Nullifier(u, c.inAmount[i], c.inBlinding[i], c.inPathIndices[i])
    /\ c.inputNullifier[i] \notin nullifiers
    /\ c.inAmount[i] # 0 =>
          /\ c.inPathElements[i] = c.root
          /\ c.inPathIndices[i] < c.root
          /\ leaves[c.inPathIndices[i] + 1] = Leaf(u, c.inAmount[i], c.inBlinding[i])

\* And of output i, for one user, who will find it.
OutputReady(c, i) ==
    /\ c.outAmount[i] \in 0..NoteMax /\ c.outBlinding[i] \in Nat
    /\ \E v \in Users :
          /\ c.outPubkey[i] = Disc!NotePubkey(v)
          /\ c.outputCommitment[i] = Commitment(v, c.outAmount[i], c.outBlinding[i])
          /\ c.extDataHash.outputs[i] = Leaf(v, c.outAmount[i], c.outBlinding[i]).output

Ready(u, tx) ==
    LET c == tx.circuit
    IN  /\ c.root \in 0..Len(leaves)
        /\ c.extDataHash = tx.ext
        /\ tx.ext.amount \in (-ExtMax)..ExtMax
        /\ c.publicAmount = Disc!PublicAmount(tx.ext.amount)
        /\ c.membershipRoots = <<Disc!MembershipRoot, Disc!MembershipRoot>>
        /\ c.nonMembershipRoots = <<Disc!NonMembershipRoot, Disc!NonMembershipRoot>>
        /\ c.membershipBlinding = Disc!MembershipBlinding(u)
        /\ c.inPrivateKey = Disc!NotePrivateKey(u)
        /\ c.inputNullifier = <<c.inputNullifier[1], c.inputNullifier[2]>>
        /\ c.inputNullifier[1] # c.inputNullifier[2]
        /\ c.outputCommitment = <<c.outputCommitment[1], c.outputCommitment[2]>>
        /\ c.inAmount[1] + c.inAmount[2] + tx.ext.amount = c.outAmount[1] + c.outAmount[2]
        /\ InputReady(u, c, 1) /\ InputReady(u, c, 2)
        /\ OutputReady(c, 1) /\ OutputReady(c, 2)

PreparedInv == \A u \in Users : prepared[u] # None => Ready(u, prepared[u])

NotesInv == StateInv /\ LeavesInv /\ NullifiersInv /\ BalanceInv /\ PreparedInv

-----------------------------------------------------------------------------
(* What the invariant says of a prepared transaction.                      *)

\* The leaves it spends.
Spends(c) == {c.inPathIndices[i] + 1 : i \in {k \in 1..2 : c.inAmount[k] # 0}}

\* They are notes and not spent, and the notes left are worth that much less.
LEMMA SpendsLive ==
    ASSUME NotesInv, NEW u \in Users, NEW tx, Ready(u, tx)
    PROVE  /\ Spends(tx.circuit) \subseteq Live
           /\ IsFiniteSet(Live) /\ \A i \in Live : LeafAmounts[i] \in Nat
           /\ SumOf(Live \ Spends(tx.circuit), LeafAmounts) \in Nat
           /\ balance = SumOf(Live \ Spends(tx.circuit), LeafAmounts)
                          + tx.circuit.inAmount[1] + tx.circuit.inAmount[2]
<1> DEFINE c == tx.circuit
           x1 == c.inPathIndices[1] + 1
           x2 == c.inPathIndices[2] + 1
           A == LeafAmounts
           L == Live
<1>1. /\ InputReady(u, c, 1) /\ InputReady(u, c, 2)
      /\ c.inputNullifier[1] # c.inputNullifier[2]
      /\ c.root \in 0..Len(leaves) /\ Len(leaves) \in Nat
      /\ LeavesInv /\ balance = SumOf(L, A)
  BY DEF Ready, NotesInv, StateInv, BalanceInv
<1>2. IsFiniteSet(L)
  <2> DEFINE n == Len(leaves)
             I == 1..n
  <2>1. n \in Nat /\ L \subseteq I
    BY <1>1 DEF Live
  <2> HIDE DEF n, L
  <2>2. IsFiniteSet(I)
    BY <2>1, FS_Interval
  <2> HIDE DEF I
  <2> QED
    BY <2>1, <2>2, FS_Subset
<1>3. \A i \in L : A[i] \in Nat
  BY <1>1 DEF Live, LeafAmounts, LeavesInv
<1>4. ASSUME NEW i \in 1..2, c.inAmount[i] # 0
      PROVE  /\ c.inPathIndices[i] + 1 \in L /\ A[c.inPathIndices[i] + 1] = c.inAmount[i]
             /\ leaves[c.inPathIndices[i] + 1] = Leaf(u, c.inAmount[i], c.inBlinding[i])
  <2> DEFINE x == c.inPathIndices[i] + 1
  <2>1. InputReady(u, c, i)
    BY <1>1
  <2>2. /\ c.inPathIndices[i] \in 0..Len(leaves) /\ c.inPathIndices[i] < c.root
        /\ leaves[x] = Leaf(u, c.inAmount[i], c.inBlinding[i])
        /\ c.inputNullifier[i] \notin nullifiers
        /\ c.inputNullifier[i] = Nullifier(u, c.inAmount[i], c.inBlinding[i], c.inPathIndices[i])
    BY <1>4, <2>1 DEF InputReady
  <2>3. x \in 1..Len(leaves) /\ x - 1 = c.inPathIndices[i]
    BY <1>1, <2>2
  <2> HIDE DEF x
  <2>4. /\ leaves[x].output.amount = c.inAmount[i]
        /\ leaves[x].output.blinding = c.inBlinding[i]
        /\ leaves[x].output.for = Disc!EncryptionPubkey(u)
    BY <2>2 DEF Leaf
  <2>5. SpentAs(u, x) = c.inputNullifier[i]
    BY <2>2, <2>3, <2>4 DEF SpentAs
  <2>6. x \in Live /\ LeafAmounts[x] = c.inAmount[i]
    BY <1>4, <2>2, <2>3, <2>4, <2>5 DEF Live, LeafAmounts
  <2> QED
    BY <2>2, <2>6 DEF x
<1>5. ASSUME c.inAmount[1] # 0, c.inAmount[2] # 0
      PROVE  x1 # x2
  <2> SUFFICES ASSUME x1 = x2
               PROVE  FALSE
    OBVIOUS
  <2>1. Leaf(u, c.inAmount[1], c.inBlinding[1]) = Leaf(u, c.inAmount[2], c.inBlinding[2])
    BY <1>4, <1>5
  <2>2. c.inAmount[1] = c.inAmount[2] /\ c.inBlinding[1] = c.inBlinding[2]
    BY <2>1 DEF Leaf
  <2>3. c.inPathIndices[1] = c.inPathIndices[2]
    BY <1>1 DEF InputReady
  <2> QED
    BY <1>1, <2>2, <2>3 DEF InputReady
<1>6. c.inAmount[1] \in Nat /\ c.inAmount[2] \in Nat
  BY <1>1 DEF InputReady
<1>7. Spends(c) = (IF c.inAmount[1] # 0 THEN {x1} ELSE {})
                    \cup (IF c.inAmount[2] # 0 THEN {x2} ELSE {})
  BY DEF Spends
<1>8. /\ c.inAmount[1] # 0 => x1 \in L /\ A[x1] = c.inAmount[1]
      /\ c.inAmount[2] # 0 => x2 \in L /\ A[x2] = c.inAmount[2]
  BY <1>4
<1> DEFINE a1 == c.inAmount[1]
           a2 == c.inAmount[2]
           S == Spends(c)
<1>9. /\ a1 \in Nat /\ a2 \in Nat
      /\ S = (IF a1 # 0 THEN {x1} ELSE {}) \cup (IF a2 # 0 THEN {x2} ELSE {})
      /\ a1 # 0 => x1 \in L /\ A[x1] = a1
      /\ a2 # 0 => x2 \in L /\ A[x2] = a2
      /\ a1 # 0 /\ a2 # 0 => x1 # x2
  BY <1>5, <1>6, <1>7, <1>8
<1> HIDE DEF a1, a2, S, x1, x2, A, L
<1>10. SumOf(L, A) = SumOf(L \ S, A) + a1 + a2 /\ SumOf(L \ S, A) \in Nat
  <2>1. CASE a1 = 0 /\ a2 = 0
    <3>1. L \ S = L
      BY <1>9, <2>1
    <3>2. SumOf(L, A) \in Nat
      <4>1. SumOf(L, [i \in L |-> A[i]]) \in Nat
        BY <1>2, <1>3, SumNat
      <4>2. SumOf(L, [i \in L |-> A[i]]) = SumOf(L, A)
        BY SumCongruent
      <4> QED
        BY <4>1, <4>2
    <3> QED
      BY <2>1, <3>1, <3>2
  <2>2. CASE a1 # 0 /\ a2 = 0
    <3>1. L \ S = L \ {x1}
      BY <1>9, <2>2
    <3>2. /\ SumOf(L, A) = SumOf(L \ {x1}, A) + A[x1]
          /\ SumOf(L \ {x1}, A) \in Nat
      BY <1>2, <1>3, <1>9, <2>2, SumSplit
    <3> QED
      BY <1>9, <2>2, <3>1, <3>2
  <2>3. CASE a1 = 0 /\ a2 # 0
    <3>1. L \ S = L \ {x2}
      BY <1>9, <2>3
    <3>2. /\ SumOf(L, A) = SumOf(L \ {x2}, A) + A[x2]
          /\ SumOf(L \ {x2}, A) \in Nat
      BY <1>2, <1>3, <1>9, <2>3, SumSplit
    <3> QED
      BY <1>9, <2>3, <3>1, <3>2
  <2>4. CASE a1 # 0 /\ a2 # 0
    <3> DEFINE K == L \ {x1}
    <3>1. L \ S = K \ {x2} /\ x2 \in K /\ IsFiniteSet(K) /\ \A i \in K : A[i] \in Nat
      BY <1>2, <1>3, <1>9, <2>4, FS_RemoveElement
    <3>2. /\ SumOf(L, A) = SumOf(K, A) + A[x1]
          /\ SumOf(K, A) \in Nat
      BY <1>2, <1>3, <1>9, <2>4, SumSplit
    <3> HIDE DEF K
    <3>3. /\ SumOf(K, A) = SumOf(K \ {x2}, A) + A[x2]
          /\ SumOf(K \ {x2}, A) \in Nat
      BY <3>1, SumSplit
    <3> QED
      BY <1>9, <2>4, <3>1, <3>2, <3>3
  <2> QED
    BY <2>1, <2>2, <2>3, <2>4
<1>11. S \subseteq L
  BY <1>9
<1> QED
  BY <1>1, <1>2, <1>3, <1>10, <1>11 DEF a1, a2, S, A, L

\* What is prepared satisfies the circuit.
LEMMA CircuitSatisfied ==
    ASSUME NotesInv, NEW u \in Users, NEW tx, Ready(u, tx)
    PROVE  Disc!CircuitHolds(tx.circuit)
<1> DEFINE c == tx.circuit
<1>1. /\ InputReady(u, c, 1) /\ InputReady(u, c, 2)
      /\ OutputReady(c, 1) /\ OutputReady(c, 2)
      /\ c.root \in 0..Len(leaves) /\ Len(leaves) \in Nat
      /\ c.inPrivateKey = Disc!NotePrivateKey(u)
      /\ c.membershipBlinding = Disc!MembershipBlinding(u)
      /\ c.inputNullifier[1] # c.inputNullifier[2]
      /\ c.inAmount[1] + c.inAmount[2] + tx.ext.amount = c.outAmount[1] + c.outAmount[2]
      /\ tx.ext.amount \in (-ExtMax)..ExtMax
      /\ c.publicAmount = Disc!PublicAmount(tx.ext.amount)
  BY DEF Ready, NotesInv, StateInv
<1> HIDE DEF c
<1>2. ASSUME NEW i \in 1..2
      PROVE  Disc!InputHolds(c, i)
  <2> DEFINE commitment == Disc!ComputeCommitment(c.inAmount[i],
                               Disc!DerivePublicKey(c.inPrivateKey), c.inBlinding[i])
  <2>1. InputReady(u, c, i)
    BY <1>1
  <2>2. commitment = Commitment(u, c.inAmount[i], c.inBlinding[i])
    BY <1>1 DEF Commitment, Disc!NotePubkey
  <2> HIDE DEF commitment
  <2>3. c.inputNullifier[i]
          = Disc!NullifierOf(c.inPrivateKey, commitment, c.inPathIndices[i])
    BY <1>1, <2>1, <2>2 DEF InputReady, Nullifier
  <2>4. ASSUME c.inAmount[i] # 0
        PROVE  Disc!PathRoot(commitment, c.inPathIndices[i], c.inPathElements[i]) = c.root
    BY <2>1, <2>2, <2>4 DEF InputReady, Disc!PathRoot, Leaf
  <2>5. Disc!AspMembershipLeaf(Disc!DerivePublicKey(c.inPrivateKey), c.membershipBlinding)
          \in Disc!Approved
    BY <1>1 DEF Disc!Approved, Disc!NotePubkey
  <2> QED
    BY <2>3, <2>4, <2>5, Zenon DEF Disc!InputHolds, commitment
<1>3. ASSUME NEW i \in 1..2
      PROVE  Disc!OutputHolds(c, i)
  <2>1. OutputReady(c, i)
    BY <1>1
  <2> QED
    BY <2>1, AmountsAssumption DEF OutputReady, Disc!OutputHolds, Commitment
<1>4. (c.inAmount[1] + c.inAmount[2] + c.publicAmount) % Field
        = (c.outAmount[1] + c.outAmount[2]) % Field
  <2> DEFINE e == tx.ext.amount
             in == c.inAmount[1] + c.inAmount[2]
             out == c.outAmount[1] + c.outAmount[2]
  <2>1. in + e = out /\ in \in Nat /\ out \in Nat /\ e \in Int
    <3>1. c.inAmount[1] \in Nat /\ c.inAmount[2] \in Nat
      BY <1>1 DEF InputReady
    <3>2. c.outAmount[1] \in Nat /\ c.outAmount[2] \in Nat
      BY <1>1, AmountsAssumption DEF OutputReady
    <3>3. e \in Int
      BY <1>1, AmountsAssumption
    <3>4. in + e = out
      BY <1>1
    <3> HIDE DEF e
    <3> QED
      BY <3>1, <3>2, <3>3, <3>4
  <2>2. c.publicAmount = IF e >= 0 THEN e ELSE Field + e
    BY <1>1 DEF Disc!PublicAmount
  <2> HIDE DEF in, out, e
  <2>3. in + c.publicAmount = out \/ in + c.publicAmount = out + Field
    BY <2>1, <2>2, AmountsAssumption
  <2>4. (out + Field) % Field = out % Field
    <3>1. Field \in Nat /\ Field > 0
      BY AmountsAssumption
    <3> QED
      BY <2>1, <3>1, ModField
  <2>5. (in + c.publicAmount) % Field = out % Field
    BY <2>3, <2>4
  <2> QED
    BY <2>5 DEF in, out
<1> QED
  BY <1>1, <1>2, <1>3, <1>4 DEF Disc!CircuitHolds, c

\* And passes the contract's checks while its root is known.
LEMMA ReadySucceeds ==
    ASSUME NotesInv, NEW u \in Users, NEW tx, Ready(u, tx),
           Disc!HasRoom, Disc!IsKnownRoot(tx.circuit.root)
    PROVE  Disc!Succeeds(tx)
<1> DEFINE c == tx.circuit
           n1 == c.inputNullifier[1]
           n2 == c.inputNullifier[2]
           o1 == c.outputCommitment[1]
           o2 == c.outputCommitment[2]
           e == tx.ext.amount
           proof == Disc!PoolProof(tx)
           publics == Disc!PublicSignals(c)
<1>1. /\ c.inputNullifier = <<n1, n2>> /\ c.outputCommitment = <<o1, o2>>
      /\ c.membershipRoots = <<Disc!MembershipRoot, Disc!MembershipRoot>>
      /\ c.nonMembershipRoots = <<Disc!NonMembershipRoot, Disc!NonMembershipRoot>>
      /\ c.extDataHash = tx.ext
      /\ c.publicAmount = Disc!PublicAmount(e)
      /\ e \in (-ExtMax)..ExtMax
      /\ c.inAmount[1] + c.inAmount[2] + e = c.outAmount[1] + c.outAmount[2]
      /\ InputReady(u, c, 1) /\ InputReady(u, c, 2)
      /\ OutputReady(c, 1) /\ OutputReady(c, 2)
  BY DEF Ready
<1>2. e \in Int /\ c.publicAmount = (IF e >= 0 THEN e ELSE Field + e)
      /\ c.publicAmount \in 0..(Field - 1)
      /\ c.publicAmount = Disc!CalculatePublicAmount(e)
      /\ (IF e >= 0 THEN e ELSE -e) < MaxAmount
  <2> HIDE DEF e
  <2> QED
    BY <1>1, AmountsAssumption DEF Disc!PublicAmount, Disc!CalculatePublicAmount
<1>3. proof = Disc!PoolProof([circuit |-> c, ext |-> c.extDataHash])
  BY DEF Disc!PoolProof
<1> HIDE DEF proof
<1>4. /\ Disc!VerifyProofWithProcessedVk(publics, publics)
      /\ Disc!PoolVerifyProof(proof, publics)
      /\ proof.root = c.root /\ proof.ext_data_hash = c.extDataHash
      /\ proof.public_amount = c.publicAmount
      /\ proof.input_nullifiers = <<n1, n2>>
      /\ proof.asp_membership_root = Disc!MembershipRoot
      /\ proof.asp_non_membership_root = Disc!NonMembershipRoot
  <2> HIDE DEF c, n1, n2, o1, o2
  <2> QED
    BY <1>1, <1>2, <1>3, SignalsKept
<1>5. Disc!Proved(tx)
  BY <1>4, CircuitSatisfied DEF Disc!Proved
<1>6. balance + e >= 0
  <2>1. /\ balance = SumOf(Live \ Spends(c), LeafAmounts) + c.inAmount[1] + c.inAmount[2]
        /\ SumOf(Live \ Spends(c), LeafAmounts) \in Nat
    BY SpendsLive
  <2>2. /\ c.inAmount[1] \in Nat /\ c.inAmount[2] \in Nat
        /\ c.outAmount[1] \in Nat /\ c.outAmount[2] \in Nat
    BY <1>1, AmountsAssumption DEF InputReady, OutputReady
  <2> HIDE DEF c, e
  <2> QED
    BY <1>1, <1>2, <2>1, <2>2
<1>7. nullifiers \cap Disc!ToSet(proof.input_nullifiers) = {}
  <2>1. Disc!ToSet(<<n1, n2>>) = {n1, n2}
    BY DEF Disc!ToSet
  <2> QED
    BY <1>1, <1>4, <2>1 DEF InputReady
<1>8. Disc!Accepts(proof, tx.ext, publics)
  <2> HIDE DEF publics, c
  <2> QED
    BY <1>1, <1>2, <1>4, <1>6, <1>7 DEF Disc!Accepts, c
<1> QED
  BY <1>5, <1>8 DEF Disc!Succeeds, proof

-----------------------------------------------------------------------------
(* The invariant is kept: what is prepared is ready.                       *)

\* What transact makes of the slots of the inputs and outputs.
MadeOf(u, p, ins, outs, tx) ==
    /\ tx.ext.amount = p.ext /\ tx.circuit.extDataHash = tx.ext
    /\ tx.ext.outputs = [i \in 1..2 |-> Disc!EncryptedOutput(u, outs[i])]
    /\ tx.circuit.root = p.root
    /\ tx.circuit.publicAmount = Disc!PublicAmount(p.ext)
    /\ tx.circuit.inputNullifier = [i \in 1..2 |-> Disc!InputNullifier(u, ins[i])]
    /\ tx.circuit.outputCommitment = [i \in 1..2 |-> Disc!OutputCommitment(u, outs[i])]
    /\ tx.circuit.inAmount = [i \in 1..2 |-> ins[i].amount]
    /\ tx.circuit.inBlinding = [i \in 1..2 |-> ins[i].blinding]
    /\ tx.circuit.inPathIndices = [i \in 1..2 |-> ins[i].index]
    /\ tx.circuit.inPathElements = [i \in 1..2 |-> ins[i].path]
    /\ tx.circuit.outAmount = [i \in 1..2 |-> outs[i].amount]
    /\ tx.circuit.outPubkey = [i \in 1..2 |-> Disc!RecipientNotePubkey(u, outs[i])]
    /\ tx.circuit.outBlinding = [i \in 1..2 |-> outs[i].blinding]
    /\ tx.circuit.inPrivateKey = Disc!NotePrivateKey(u)
    /\ tx.circuit.membershipRoots = <<Disc!MembershipRoot, Disc!MembershipRoot>>
    /\ tx.circuit.nonMembershipRoots = <<Disc!NonMembershipRoot, Disc!NonMembershipRoot>>
    /\ tx.circuit.membershipBlinding = Disc!MembershipBlinding(u)

LEMMA ArtifactsAre ==
    ASSUME NEW u, NEW p, NEW ins, NEW outs, NEW tx,
           ins = Disc!InputSlots(p.inputs, fresh + 2),
           outs = Disc!OutputSlots(p.outputs, fresh),
           tx = Disc!Artifacts(u, p)
    PROVE  MadeOf(u, p, ins, outs, tx)
<1>1. DOMAIN ins = 1..2 /\ DOMAIN outs = 1..2
  BY DEF Disc!InputSlots, Disc!OutputSlots, Disc!N_INPUTS, Disc!N_OUTPUTS
<1>2. Disc!AmountsIn(ins) = [i \in 1..2 |-> ins[i].amount]
      /\ Disc!AmountsIn(outs) = [i \in 1..2 |-> outs[i].amount]
  BY <1>1 DEF Disc!AmountsIn
<1> QED
  BY <1>2 DEF MadeOf, Disc!Artifacts, Disc!Each

\* A user finds the leaves that are hers and not empty.
LEMMA DerivedNote ==
    ASSUME StateInv, LeavesInv, NEW u \in Users, NEW i \in 1..Len(leaves)
    PROVE  Disc!DeriveUserNote(u, i) =
              IF leaves[i].output.for = Disc!EncryptionPubkey(u) /\ leaves[i].output.amount # 0
              THEN [amount |-> leaves[i].output.amount, blinding |-> leaves[i].output.blinding,
                    index |-> i - 1, nullifier |-> SpentAs(u, i)]
              ELSE None
<1> DEFINE o == leaves[i].output
<1>1. PICK v \in Users :
          /\ leaves[i] = Leaf(v, o.amount, o.blinding)
          /\ o.amount \in Nat /\ o.blinding \in Nat
  BY DEF LeavesInv
<1>2. leaves[i].commitment = Commitment(v, o.amount, o.blinding)
      /\ o = [for |-> Disc!EncryptionPubkey(v), amount |-> o.amount, blinding |-> o.blinding]
      /\ o.for = Disc!EncryptionPubkey(v)
  BY <1>1 DEF Leaf
<1>3. o # None
  BY <1>1, <1>2, NoneFacts
<1>4. Disc!DecryptOutputNote(Disc!EncryptionPrivateKey(u), o)
        = IF o.for = Disc!EncryptionPubkey(u) THEN o ELSE None
  BY DEF Disc!DecryptOutputNote, Disc!EncryptionPubkey
<1> HIDE DEF o
<1>5. CASE o.for # Disc!EncryptionPubkey(u)
  BY <1>4, <1>5 DEF Disc!DeriveUserNote, o
<1>6. CASE o.for = Disc!EncryptionPubkey(u)
  <2>1. v = u
    BY <1>2, <1>6, EncryptionInjective
  <2>2. leaves[i].commitment = Commitment(u, o.amount, o.blinding)
    BY <1>2, <2>1
  <2>3. Disc!NullifierOf(Disc!NotePrivateKey(u), leaves[i].commitment, i - 1) = SpentAs(u, i)
    BY <2>2 DEF SpentAs, Nullifier, o
  <2>4. Disc!DecryptOutputNote(Disc!EncryptionPrivateKey(u), o) = o
    BY <1>4, <1>6
  <2>5. Disc!DeriveUserNote(u, i) =
          IF o = None \/ o.amount = 0 \/ Commitment(u, o.amount, o.blinding) # leaves[i].commitment
          THEN None
          ELSE [amount |-> o.amount, blinding |-> o.blinding, index |-> i - 1,
                nullifier |-> Disc!NullifierOf(Disc!NotePrivateKey(u), leaves[i].commitment, i - 1)]
    BY <2>4, Zenon DEF Disc!DeriveUserNote, o, Commitment
  <2> QED
    BY <1>3, <1>6, <2>2, <2>3, <2>5 DEF o
<1> QED
  BY <1>5, <1>6

\* The notes a user holds to be unspent are live leaves of hers.
LEMMA UnspentNote ==
    ASSUME StateInv, LeavesInv, NEW u \in Users, NEW note \in Disc!Unspent(u)
    PROVE  \E i \in Live :
              /\ leaves[i] = Leaf(u, note.amount, note.blinding)
              /\ note = [amount |-> leaves[i].output.amount,
                         blinding |-> leaves[i].output.blinding,
                         index |-> i - 1, nullifier |-> SpentAs(u, i)]
              /\ note.amount \in Nat \ {0} /\ note.blinding \in Nat /\ note.index = i - 1
              /\ SpentAs(u, i) \notin nullifiers
              /\ SpentAs(u, i) = Nullifier(u, note.amount, note.blinding, i - 1)
<1>1. DOMAIN leaves = 1..Len(leaves)
  BY DEF StateInv
<1>2. PICK i \in 1..Len(leaves) : note = Disc!DeriveUserNote(u, i) /\ note # None
  BY <1>1 DEF Disc!Unspent, Disc!NotesOf
<1>3. /\ leaves[i].output.for = Disc!EncryptionPubkey(u) /\ leaves[i].output.amount # 0
      /\ note = [amount |-> leaves[i].output.amount, blinding |-> leaves[i].output.blinding,
                 index |-> i - 1, nullifier |-> SpentAs(u, i)]
  BY <1>2, DerivedNote
<1>4. SpentAs(u, i) \notin nullifiers
  BY <1>3 DEF Disc!Unspent
<1>5. i \in Live
  BY <1>3, <1>4 DEF Live
<1>6. PICK v \in Users :
          /\ leaves[i] = Leaf(v, leaves[i].output.amount, leaves[i].output.blinding)
          /\ leaves[i].output.amount \in Nat /\ leaves[i].output.blinding \in Nat
  BY DEF LeavesInv
<1>7. u = v
  <2>1. leaves[i].output.for = Disc!EncryptionPubkey(v)
    BY <1>6 DEF Leaf
  <2> QED
    BY <1>3, <2>1, EncryptionInjective
<1> QED
  BY <1>3, <1>4, <1>5, <1>6, <1>7 DEF SpentAs

\* A user's notes are finitely many.
LEMMA UnspentFinite ==
    ASSUME StateInv, NEW u \in Users
    PROVE  IsFiniteSet(Disc!Unspent(u))
<1> DEFINE n == Len(leaves)
           I == 1..n
           T == {Disc!DeriveUserNote(u, i) : i \in I}
           f == [i \in I |-> Disc!DeriveUserNote(u, i)]
           N == Disc!Unspent(u)
<1>1. n \in Nat /\ DOMAIN leaves = I
  BY DEF StateInv
<1>2. N \subseteq T
  BY <1>1 DEF Disc!Unspent, Disc!NotesOf
<1>3. f \in Surjection(I, T)
  BY DEF Surjection
<1> HIDE DEF f, T, N, n
<1>4. IsFiniteSet(I)
  BY <1>1, FS_Interval
<1> HIDE DEF I
<1>5. IsFiniteSet(T)
  BY <1>3, <1>4, FS_Surjection
<1>6. IsFiniteSet(N)
  BY <1>2, <1>5, FS_Subset
<1> QED
  BY <1>6 DEF N

\* A row of a user's own unspent notes, each once, with paths in the present tree.
OwnInputs(u, given, m) ==
    /\ m \in Nat /\ given = [i \in 1..m |-> given[i]]
    /\ \A i \in 1..m : \E note \in Disc!Unspent(u) :
           given[i] = [amount |-> note.amount, blinding |-> note.blinding,
                        index |-> note.index, path |-> Len(leaves)]
    /\ \A i, j \in 1..m : given[i] = given[j] => i = j

LEMMA InputNotesAre ==
    ASSUME StateInv, NEW u \in Users, NEW notes \in SUBSET Disc!Unspent(u)
    PROVE  \E m \in Nat : OwnInputs(u, Disc!InputNotes(notes), m)
<1> DEFINE row(n) == [amount |-> n.amount, blinding |-> n.blinding, index |-> n.index,
                      path |-> Len(leaves)]
           S == {row(n) : n \in notes}
           f == [n \in notes |-> row(n)]
           g == Disc!SetToSeq(S)
           m == Cardinality(S)
<1>1. IsFiniteSet(notes)
  BY UnspentFinite, FS_Subset
<1>2. f \in Surjection(notes, S)
  BY DEF Surjection
<1>3. IsFiniteSet(S)
  <2> HIDE DEF f, S
  <2> QED
    BY <1>1, <1>2, FS_Surjection
<1>4. Disc!InputNotes(notes) = g
  BY DEF Disc!InputNotes
<1>5. m \in Nat /\ g \in [1..m -> S] /\ \A i, j \in 1..m : g[i] = g[j] => i = j
  <2> HIDE DEF S
  <2> QED
    BY <1>3, InARow
<1> HIDE DEF g, m
<1>6. \A i \in 1..m : \E note \in Disc!Unspent(u) : g[i] = row(note)
  BY <1>5
<1> QED
  BY <1>4, <1>5, <1>6 DEF OwnInputs

LEMMA NoInputsAre ==
    ASSUME NEW u \in Users
    PROVE  OwnInputs(u, << >>, 0)
BY DEF OwnInputs

\* What the flows ask to be put out: for the user, or for a registered one.
OwnOutputs(outputs, amounts, keys) ==
    /\ amounts \in [1..2 -> Nat]
    /\ outputs = [i \in 1..2 |-> [amount |-> amounts[i], blinding |-> fresh + i,
                                  notePubkey |-> keys[i].note,
                                  encryptionPubkey |-> keys[i].encryption]]
    /\ \A i \in 1..2 : keys[i] \in {Disc!Self} \cup {Keys(v) : v \in Users}

\* Where transact's checks pass, inputs and public amount pay for the outputs.
LEMMA ChecksPass ==
    ASSUME StateInv, LeavesInv, NEW u \in Users, NEW p, NEW m, NEW amounts, NEW keys,
           OwnInputs(u, p.inputs, m), OwnOutputs(p.outputs, amounts, keys),
           p.ext \in (-ExtMax)..ExtMax, Disc!Valid(p)
    PROVE  /\ m \in 0..2
           /\ \A i \in 1..m : p.inputs[i].amount \in Nat
           /\ amounts[1] \in 0..NoteMax /\ amounts[2] \in 0..NoteMax
           /\ (IF m >= 1 THEN p.inputs[1].amount ELSE 0)
                + (IF m = 2 THEN p.inputs[2].amount ELSE 0) + p.ext = amounts[1] + amounts[2]
<1> DEFINE x == p.ext
           ia == Disc!AmountsIn(p.inputs)
           oa == Disc!AmountsIn(p.outputs)
           in == Disc!NoteSum(ia)
           out == Disc!NoteSum(oa)
<1>1. /\ m \in Nat /\ p.inputs = [i \in 1..m |-> p.inputs[i]]
      /\ amounts \in [1..2 -> Nat]
      /\ DOMAIN p.outputs = 1..2 /\ \A i \in 1..2 : p.outputs[i].amount = amounts[i]
  BY DEF OwnInputs, OwnOutputs
<1>2. Len(p.inputs) = m
  BY <1>1
<1>3. Disc!Balanced(in, x, out) /\ m <= 2
  BY <1>2 DEF Disc!Valid, Disc!N_INPUTS
<1>4. \A i \in 1..m : p.inputs[i].amount \in Nat
  <2> TAKE i \in 1..m
  <2>1. PICK note \in Disc!Unspent(u) :
            p.inputs[i] = [amount |-> note.amount, blinding |-> note.blinding,
                           index |-> note.index, path |-> Len(leaves)]
    BY Zenon DEF OwnInputs
  <2>2. p.inputs[i].amount = note.amount
    BY <2>1
  <2> QED
    BY <2>2, UnspentNote
<1>5. ia = [i \in 1..m |-> p.inputs[i].amount] /\ oa = amounts
  BY <1>1 DEF Disc!AmountsIn
<1>6. m \in 0..2 /\ ia \in [1..m -> Nat]
  BY <1>1, <1>3, <1>4, <1>5
<1>7. \/ in = None
      \/ /\ in \in 0..NoteMax
         /\ in = (IF m >= 1 THEN ia[1] ELSE 0) + (IF m = 2 THEN ia[2] ELSE 0)
  <2> HIDE DEF ia
  <2> QED
    BY <1>6, NoteSumIs
<1>8. \/ out = None
      \/ /\ out \in 0..NoteMax
         /\ out = amounts[1] + amounts[2]
  <2> HIDE DEF oa
  <2>1. 2 \in 0..2 /\ oa \in [1..2 -> Nat]
    BY <1>1, <1>5
  <2>2. \/ out = None
        \/ /\ out \in 0..NoteMax
           /\ out = (IF 2 >= 1 THEN oa[1] ELSE 0) + (IF 2 = 2 THEN oa[2] ELSE 0)
    BY <2>1, NoteSumIs
  <2> QED
    BY <1>5, <2>2
<1> HIDE DEF in, out, x, ia
<1>9. in # None /\ out # None
  BY <1>3 DEF Disc!Balanced
<1>10. in + x = out
  <2>1. x \in Int /\ in \in Nat /\ out \in Nat
    BY <1>7, <1>8, <1>9, AmountsAssumption DEF x
  <2>2. CASE x >= 0
    <3>1. x \in Nat /\ Disc!CheckedSum(in, x) = out
      BY <1>3, <2>1, <2>2 DEF Disc!Balanced
    <3> QED
      BY <2>1, <3>1, CheckedSumIs
  <2>3. CASE x < 0
    <3>1. -x \in Nat /\ Disc!CheckedSum(out, -x) = in
      BY <1>3, <2>1, <2>3 DEF Disc!Balanced
    <3>2. in = out + (-x)
      BY <2>1, <3>1, CheckedSumIs
    <3> QED
      BY <2>1, <3>2
  <2> QED
    BY <2>1, <2>2, <2>3
<1>11. (IF m >= 1 THEN ia[1] ELSE 0) + (IF m = 2 THEN ia[2] ELSE 0)
        = (IF m >= 1 THEN p.inputs[1].amount ELSE 0) + (IF m = 2 THEN p.inputs[2].amount ELSE 0)
  BY <1>5, <1>6
<1>12. amounts[1] \in 0..NoteMax /\ amounts[2] \in 0..NoteMax
  BY <1>1, <1>8, <1>9, AmountsAssumption
<1> QED
  BY <1>4, <1>6, <1>7, <1>8, <1>9, <1>10, <1>11, <1>12 DEF x

\* The slots of the inputs: the user's notes, and nothing with blindings not drawn
\* before.
InputSlot(u, given, m, ins, i) ==
    /\ ins[i].amount \in Nat /\ ins[i].blinding \in Nat
    /\ ins[i].index \in 0..Len(leaves)
    /\ i <= m => /\ ins[i] = given[i] /\ ins[i].amount # 0
                 /\ ins[i].path = Len(leaves) /\ ins[i].index < Len(leaves)
                 /\ leaves[ins[i].index + 1] = Leaf(u, ins[i].amount, ins[i].blinding)
    /\ i > m => ins[i].amount = 0 /\ ins[i].blinding = fresh + 2 + i
    /\ Nullifier(u, ins[i].amount, ins[i].blinding, ins[i].index) \notin nullifiers

LEMMA InputSlotsAre ==
    ASSUME StateInv, LeavesInv, NullifiersInv, NEW u \in Users, NEW given, NEW m \in 0..2,
           OwnInputs(u, given, m),
           NEW ins, ins = Disc!InputSlots(given, fresh + 2), NEW i \in 1..2
    PROVE  InputSlot(u, given, m, ins, i)
<1>1. Len(leaves) \in Nat /\ fresh \in Nat
  BY DEF StateInv
<1>2. Len(given) = m
  BY DEF OwnInputs
<1>3. ins[i] = IF i <= m THEN given[i] ELSE Disc!DummyInput(fresh + 2 + i)
  BY <1>2 DEF Disc!InputSlots, Disc!N_INPUTS
<1>4. CASE i <= m
  <2>1. PICK note \in Disc!Unspent(u) :
            given[i] = [amount |-> note.amount, blinding |-> note.blinding,
                         index |-> note.index, path |-> Len(leaves)]
    <3>1. i \in 1..m
      BY <1>4
    <3> QED
      BY <3>1, Zenon DEF OwnInputs
  <2>2. /\ ins[i] = given[i] /\ ins[i].amount = note.amount
        /\ ins[i].blinding = note.blinding /\ ins[i].index = note.index
        /\ ins[i].path = Len(leaves)
    BY <1>3, <1>4, <2>1
  <2>3. PICK k \in Live :
            /\ leaves[k] = Leaf(u, note.amount, note.blinding)
            /\ note.amount \in Nat \ {0} /\ note.blinding \in Nat /\ note.index = k - 1
            /\ SpentAs(u, k) \notin nullifiers
            /\ SpentAs(u, k) = Nullifier(u, note.amount, note.blinding, k - 1)
    BY UnspentNote
  <2>4. k \in 1..Len(leaves)
    BY DEF Live
  <2>5. k - 1 \in 0..Len(leaves) /\ k - 1 < Len(leaves) /\ (k - 1) + 1 = k
    BY <1>1, <2>4
  <2> QED
    BY <1>4, <2>2, <2>3, <2>5 DEF InputSlot
<1>5. CASE i > m
  <2>1. /\ ins[i].amount = 0 /\ ins[i].blinding = fresh + 2 + i /\ ins[i].index = 0
    BY <1>3, <1>5 DEF Disc!DummyInput
  <2>2. Nullifier(u, 0, fresh + 2 + i, 0) \notin nullifiers
    <3> SUFFICES ASSUME Nullifier(u, 0, fresh + 2 + i, 0) \in nullifiers
                 PROVE  FALSE
      OBVIOUS
    <3>1. PICK v \in Users :
            \/ \E b \in 0..fresh, k \in 0..Len(leaves) :
                  Nullifier(u, 0, fresh + 2 + i, 0) = Nullifier(v, 0, b, k)
            \/ \E k \in 1..Len(leaves) :
                  /\ Nullifier(u, 0, fresh + 2 + i, 0) = SpentAs(v, k)
                  /\ leaves[k].output.amount # 0
      BY DEF NullifiersInv
    <3>2. ASSUME NEW b \in 0..fresh, NEW k,
                 Nullifier(u, 0, fresh + 2 + i, 0) = Nullifier(v, 0, b, k)
          PROVE  FALSE
      <4>1. fresh + 2 + i = b
        BY <3>2, NullifierInjective
      <4> QED
        BY <1>1, <4>1
    <3>3. ASSUME NEW k, Nullifier(u, 0, fresh + 2 + i, 0) = SpentAs(v, k),
                 leaves[k].output.amount # 0
          PROVE  FALSE
      <4>1. leaves[k].output.amount = 0
        BY <3>3, NullifierInjective DEF SpentAs
      <4> QED
        BY <3>3, <4>1
    <3> QED
      BY <3>1, <3>2, <3>3
  <2> QED
    BY <1>1, <1>5, <2>1, <2>2 DEF InputSlot
<1> QED
  BY <1>4, <1>5

\* Two slots never publish the same nullifier.
LEMMA SlotsApart ==
    ASSUME StateInv, LeavesInv, NullifiersInv, NEW u \in Users, NEW given, NEW m \in 0..2,
           OwnInputs(u, given, m),
           NEW ins, ins = Disc!InputSlots(given, fresh + 2)
    PROVE  Nullifier(u, ins[1].amount, ins[1].blinding, ins[1].index)
             # Nullifier(u, ins[2].amount, ins[2].blinding, ins[2].index)
<1> SUFFICES ASSUME Nullifier(u, ins[1].amount, ins[1].blinding, ins[1].index)
                      = Nullifier(u, ins[2].amount, ins[2].blinding, ins[2].index)
             PROVE  FALSE
  OBVIOUS
<1>1. /\ ins[1].amount = ins[2].amount /\ ins[1].blinding = ins[2].blinding
      /\ ins[1].index = ins[2].index
  BY NullifierInjective
<1>2. \A i \in 1..2 :
          /\ i <= m => ins[i] = given[i] /\ ins[i].amount # 0
          /\ i > m => ins[i].amount = 0 /\ ins[i].blinding = fresh + 2 + i
  BY InputSlotsAre DEF InputSlot
<1>3. fresh \in Nat
  BY DEF StateInv
<1>4. m # 0
  BY <1>1, <1>2, <1>3
<1>5. m # 1
  BY <1>1, <1>2
<1>6. m = 2 /\ ins[1] = given[1] /\ ins[2] = given[2]
  BY <1>2, <1>4, <1>5
<1>7. \A i \in 1..2 : \E note \in Disc!Unspent(u) :
          given[i] = [amount |-> note.amount, blinding |-> note.blinding,
                       index |-> note.index, path |-> Len(leaves)]
  BY <1>6, Zenon DEF OwnInputs
<1>8. given[1] = given[2]
  <2>0. 1 \in 1..2 /\ 2 \in 1..2
    OBVIOUS
  <2>1. PICK n1 \in Disc!Unspent(u) :
            given[1] = [amount |-> n1.amount, blinding |-> n1.blinding,
                         index |-> n1.index, path |-> Len(leaves)]
    BY <1>7, <2>0, Zenon
  <2>2. PICK n2 \in Disc!Unspent(u) :
            given[2] = [amount |-> n2.amount, blinding |-> n2.blinding,
                         index |-> n2.index, path |-> Len(leaves)]
    BY <1>7, <2>0, Zenon
  <2> QED
    BY <1>1, <1>6, <2>1, <2>2
<1> QED
  BY <1>6, <1>8 DEF OwnInputs

\* An output is for one user, who can decrypt it.
LEMMA OutputsAre ==
    ASSUME StateInv, NEW u \in Users, NEW outputs, NEW amounts, NEW keys,
           OwnOutputs(outputs, amounts, keys),
           NEW outs, outs = Disc!OutputSlots(outputs, fresh), NEW i \in 1..2
    PROVE  /\ outs[i].amount = amounts[i] /\ outs[i].blinding = fresh + i
           /\ \E v \in Users :
                 /\ Disc!RecipientNotePubkey(u, outs[i]) = Disc!NotePubkey(v)
                 /\ Disc!OutputCommitment(u, outs[i]) = Commitment(v, amounts[i], fresh + i)
                 /\ Disc!EncryptedOutput(u, outs[i]) = Leaf(v, amounts[i], fresh + i).output
<1>1. Len(outputs) = 2 /\ outs[i] = outputs[i]
  BY DEF OwnOutputs, Disc!OutputSlots, Disc!N_OUTPUTS
<1>2. outs[i] = [amount |-> amounts[i], blinding |-> fresh + i,
                 notePubkey |-> keys[i].note, encryptionPubkey |-> keys[i].encryption]
  BY <1>1 DEF OwnOutputs
<1>3. keys[i] \in {Disc!Self} \cup {Keys(v) : v \in Users}
  BY DEF OwnOutputs
<1>4. \E v \in Users :
          /\ Disc!RecipientNotePubkey(u, outs[i]) = Disc!NotePubkey(v)
          /\ Disc!RecipientEncryptionPubkey(u, outs[i]) = Disc!EncryptionPubkey(v)
  <2>1. CASE keys[i] = Disc!Self
    BY <1>2, <2>1 DEF Disc!Self, Disc!RecipientNotePubkey, Disc!RecipientEncryptionPubkey
  <2>2. ASSUME NEW v \in Users, keys[i] = Keys(v)
        PROVE  /\ Disc!RecipientNotePubkey(u, outs[i]) = Disc!NotePubkey(v)
               /\ Disc!RecipientEncryptionPubkey(u, outs[i]) = Disc!EncryptionPubkey(v)
    <3>1. None # Disc!NotePubkey(v) /\ None # Disc!EncryptionPubkey(v)
      BY NoneFacts
    <3> QED
      BY <1>2, <2>2, <3>1 DEF Keys, Disc!RecipientNotePubkey, Disc!RecipientEncryptionPubkey
  <2> QED
    BY <1>3, <2>1, <2>2
<1> QED
  BY <1>2, <1>4 DEF Disc!OutputCommitment, Disc!EncryptedOutput, Disc!EncryptOutputNote,
                    Commitment, Leaf

\* What is prepared is ready, once its blindings are drawn.
LEMMA ArtifactsReady ==
    ASSUME StateInv, LeavesInv, NullifiersInv, NEW u \in Users, NEW p, NEW m, NEW amounts,
           NEW keys, NEW ins, NEW outs, NEW tx,
           OwnInputs(u, p.inputs, m), OwnOutputs(p.outputs, amounts, keys),
           p.root = Len(leaves), p.ext \in (-ExtMax)..ExtMax, Disc!Valid(p),
           ins = Disc!InputSlots(p.inputs, fresh + 2),
           outs = Disc!OutputSlots(p.outputs, fresh),
           tx = Disc!Artifacts(u, p),
           fresh' = fresh + 4, leaves' = leaves, nullifiers' = nullifiers
    PROVE  Ready(u, tx)'
<1> DEFINE c == tx.circuit
           in == p.inputs
<1>2. /\ m \in 0..2
      /\ \A i \in 1..m : in[i].amount \in Nat
      /\ amounts[1] \in 0..NoteMax /\ amounts[2] \in 0..NoteMax
      /\ (IF m >= 1 THEN in[1].amount ELSE 0)
           + (IF m = 2 THEN in[2].amount ELSE 0) + p.ext = amounts[1] + amounts[2]
  BY ChecksPass
<1>3. ASSUME NEW i \in 1..2
      PROVE  InputSlot(u, in, m, ins, i)
  <2>1. OwnInputs(u, in, m) /\ ins = Disc!InputSlots(in, fresh + 2) /\ m \in 0..2
    BY <1>2
  <2> HIDE DEF in
  <2> QED
    BY <2>1, InputSlotsAre
<1>4. Nullifier(u, ins[1].amount, ins[1].blinding, ins[1].index)
        # Nullifier(u, ins[2].amount, ins[2].blinding, ins[2].index)
  <2>1. OwnInputs(u, in, m) /\ ins = Disc!InputSlots(in, fresh + 2) /\ m \in 0..2
    BY <1>2
  <2> HIDE DEF in
  <2> QED
    BY <2>1, SlotsApart
<1>5. ASSUME NEW i \in 1..2
      PROVE  /\ outs[i].amount = amounts[i] /\ outs[i].blinding = fresh + i
             /\ \E v \in Users :
                   /\ Disc!RecipientNotePubkey(u, outs[i]) = Disc!NotePubkey(v)
                   /\ Disc!OutputCommitment(u, outs[i]) = Commitment(v, amounts[i], fresh + i)
                   /\ Disc!EncryptedOutput(u, outs[i]) = Leaf(v, amounts[i], fresh + i).output
  BY OutputsAre
<1>6. MadeOf(u, p, ins, outs, tx)
  BY ArtifactsAre
<1>7. fresh \in Nat /\ Len(leaves) \in Nat
  BY DEF StateInv
<1>8. /\ c.extDataHash = tx.ext /\ tx.ext.amount = p.ext /\ c.root = p.root
      /\ c.publicAmount = Disc!PublicAmount(p.ext)
      /\ c.membershipRoots = <<Disc!MembershipRoot, Disc!MembershipRoot>>
      /\ c.nonMembershipRoots = <<Disc!NonMembershipRoot, Disc!NonMembershipRoot>>
      /\ c.membershipBlinding = Disc!MembershipBlinding(u)
      /\ c.inPrivateKey = Disc!NotePrivateKey(u)
  BY <1>6 DEF MadeOf
<1>9. ASSUME NEW i \in 1..2
      PROVE  /\ c.inputNullifier[i]
                  = Nullifier(u, ins[i].amount, ins[i].blinding, ins[i].index)
             /\ c.inAmount[i] = ins[i].amount /\ c.inBlinding[i] = ins[i].blinding
             /\ c.inPathIndices[i] = ins[i].index /\ c.inPathElements[i] = ins[i].path
             /\ c.outAmount[i] = outs[i].amount /\ c.outBlinding[i] = outs[i].blinding
             /\ c.outPubkey[i] = Disc!RecipientNotePubkey(u, outs[i])
             /\ c.outputCommitment[i] = Disc!OutputCommitment(u, outs[i])
             /\ c.extDataHash.outputs[i] = Disc!EncryptedOutput(u, outs[i])
  <2>1. /\ c.inAmount[i] = ins[i].amount /\ c.inBlinding[i] = ins[i].blinding
        /\ c.inPathIndices[i] = ins[i].index /\ c.inPathElements[i] = ins[i].path
        /\ c.outAmount[i] = outs[i].amount /\ c.outBlinding[i] = outs[i].blinding
    BY <1>6 DEF MadeOf
  <2>2. /\ c.outPubkey[i] = Disc!RecipientNotePubkey(u, outs[i])
        /\ c.outputCommitment[i] = Disc!OutputCommitment(u, outs[i])
        /\ c.extDataHash.outputs[i] = Disc!EncryptedOutput(u, outs[i])
    BY <1>6 DEF MadeOf
  <2>3. c.inputNullifier[i] = Disc!InputNullifier(u, ins[i])
    BY <1>6 DEF MadeOf
  <2>4. c.inputNullifier[i]
          = Nullifier(u, ins[i].amount, ins[i].blinding, ins[i].index)
    BY <2>3 DEF Disc!InputNullifier, Disc!InputCommitment, Nullifier, Commitment
  <2> QED
    BY <2>1, <2>2, <2>4
<1>10. /\ c.inputNullifier = <<c.inputNullifier[1], c.inputNullifier[2]>>
       /\ c.outputCommitment = <<c.outputCommitment[1], c.outputCommitment[2]>>
  <2>1. /\ c.inputNullifier = [i \in 1..2 |-> c.inputNullifier[i]]
        /\ c.outputCommitment = [i \in 1..2 |-> c.outputCommitment[i]]
    BY <1>6 DEF MadeOf
  <2> QED
    BY <2>1, PairOf
<1> HIDE DEF c
<1>11. ASSUME NEW i \in 1..2
       PROVE  InputReady(u, c, i)'
  <2> DEFINE a == ins[i].amount
             b == ins[i].blinding
             x == ins[i].index
  <2>1. /\ a \in Nat /\ b \in Nat /\ x \in 0..Len(leaves)
        /\ Nullifier(u, a, b, x) \notin nullifiers
        /\ a # 0 => ins[i].path = Len(leaves) /\ x < Len(leaves) /\ leaves[x + 1] = Leaf(u, a, b)
        /\ a = 0 => b = fresh + 2 + i
    <3>1. InputSlot(u, in, m, ins, i)
      BY <1>3
    <3>2. m \in Nat /\ i \in Nat
      BY <1>2
    <3> QED
      BY <3>1, <3>2 DEF InputSlot
  <2>2. /\ c.inAmount[i] = a /\ c.inBlinding[i] = b /\ c.inPathIndices[i] = x
        /\ c.inPathElements[i] = ins[i].path
        /\ c.inputNullifier[i] = Nullifier(u, a, b, x)
        /\ c.root = Len(leaves)
    BY <1>8, <1>9
  <2> HIDE DEF a, b, x
  <2>3. a = 0 => b \in 0..(fresh + 4)
    BY <1>7, <2>1
  <2> QED
    BY <2>1, <2>2, <2>3 DEF InputReady
<1>12. ASSUME NEW i \in 1..2
       PROVE  OutputReady(c, i)'
  <2>1. PICK v \in Users :
            /\ Disc!RecipientNotePubkey(u, outs[i]) = Disc!NotePubkey(v)
            /\ Disc!OutputCommitment(u, outs[i]) = Commitment(v, amounts[i], fresh + i)
            /\ Disc!EncryptedOutput(u, outs[i]) = Leaf(v, amounts[i], fresh + i).output
    BY <1>5
  <2>2. amounts[i] \in 0..NoteMax /\ fresh + i \in Nat
    BY <1>2, <1>7
  <2>3. /\ c.outAmount[i] = amounts[i] /\ c.outBlinding[i] = fresh + i
    BY <1>5, <1>9
  <2>4. /\ c.outPubkey[i] = Disc!NotePubkey(v)
        /\ c.outputCommitment[i] = Commitment(v, c.outAmount[i], c.outBlinding[i])
        /\ c.extDataHash.outputs[i] = Leaf(v, c.outAmount[i], c.outBlinding[i]).output
    BY <1>9, <2>1, <2>3
  <2>5. c.outAmount[i] \in 0..NoteMax /\ c.outBlinding[i] \in Nat
    BY <2>2, <2>3
  <2> QED
    BY <2>4, <2>5 DEF OutputReady
<1>13. c.inputNullifier[1] # c.inputNullifier[2]
  BY <1>4, <1>9
<1>14. c.inAmount[1] + c.inAmount[2] + tx.ext.amount = c.outAmount[1] + c.outAmount[2]
  <2>1. /\ ins[1].amount = IF m >= 1 THEN in[1].amount ELSE 0
        /\ ins[2].amount = IF m = 2 THEN in[2].amount ELSE 0
    <3>1. InputSlot(u, in, m, ins, 1) /\ InputSlot(u, in, m, ins, 2)
      BY <1>3
    <3>2. /\ 1 <= m => ins[1] = in[1]
          /\ 1 > m => ins[1].amount = 0
          /\ 2 <= m => ins[2] = in[2]
          /\ 2 > m => ins[2].amount = 0
      BY <3>1, Zenon DEF InputSlot
    <3>3. m = 0 \/ m = 1 \/ m = 2
      BY <1>2
    <3> HIDE DEF in
    <3> QED
      BY <3>2, <3>3
  <2>2. c.inAmount[1] = ins[1].amount /\ c.inAmount[2] = ins[2].amount
        /\ c.outAmount[1] = outs[1].amount /\ c.outAmount[2] = outs[2].amount
    BY <1>9
  <2>3. outs[1].amount = amounts[1] /\ outs[2].amount = amounts[2]
    BY <1>5
  <2>4. tx.ext.amount = p.ext
    BY <1>8
  <2> QED
    BY <1>2, <2>1, <2>2, <2>3, <2>4
<1>15. c.root \in 0..Len(leaves)
  BY <1>7, <1>8
<1>16. /\ InputReady(u, c, 1)' /\ InputReady(u, c, 2)'
       /\ OutputReady(c, 1)' /\ OutputReady(c, 2)'
  BY <1>11, <1>12
<1> QED
  BY <1>8, <1>10, <1>13, <1>14, <1>15, <1>16 DEF Ready, c

\* What is ready stays ready, while nobody spends its inputs.
LEMMA ReadyKept ==
    ASSUME StateInv, StateInv', NEW u, NEW tx, Ready(u, tx),
           fresh <= fresh', Len(leaves) <= Len(leaves'),
           \A i \in 1..Len(leaves) : leaves'[i] = leaves[i],
           tx.circuit.inputNullifier[1] \notin nullifiers',
           tx.circuit.inputNullifier[2] \notin nullifiers'
    PROVE  Ready(u, tx)'
<1> DEFINE c == tx.circuit
<1>1. /\ Len(leaves) \in Nat /\ Len(leaves') \in Nat /\ fresh \in Nat /\ fresh' \in Nat
  BY DEF StateInv
<1>2. /\ InputReady(u, c, 1) /\ InputReady(u, c, 2)
      /\ OutputReady(c, 1) /\ OutputReady(c, 2) /\ c.root \in 0..Len(leaves)
  BY DEF Ready
<1>3. c.inputNullifier[1] \notin nullifiers' /\ c.inputNullifier[2] \notin nullifiers'
  OBVIOUS
<1> HIDE DEF c
<1>4. ASSUME NEW i \in 1..2
      PROVE  InputReady(u, c, i)'
  <2>1. InputReady(u, c, i) /\ c.inputNullifier[i] \notin nullifiers'
    BY <1>2, <1>3
  <2>2. c.inBlinding[i] \in 0..fresh => c.inBlinding[i] \in 0..fresh'
    BY <1>1
  <2>3. /\ c.inPathIndices[i] \in 0..Len(leaves')
        /\ c.inPathIndices[i] < c.root =>
              leaves'[c.inPathIndices[i] + 1] = leaves[c.inPathIndices[i] + 1]
    <3> DEFINE x == c.inPathIndices[i]
               r == c.root
    <3>1. x \in 0..Len(leaves) /\ r \in 0..Len(leaves)
      BY <1>2, <2>1 DEF InputReady
    <3> HIDE DEF x, r
    <3>2. x \in 0..Len(leaves') /\ (x < r => x + 1 \in 1..Len(leaves))
      BY <1>1, <3>1
    <3> QED
      BY <3>2 DEF x, r
  <2> QED
    BY <2>1, <2>2, <2>3 DEF InputReady
<1>5. OutputReady(c, 1)' /\ OutputReady(c, 2)'
  BY <1>2 DEF OutputReady
<1>6. c.root \in 0..Len(leaves')
  BY <1>1, <1>2
<1>7. InputReady(u, c, 1)' /\ InputReady(u, c, 2)'
  BY <1>4
<1> QED
  BY <1>5, <1>6, <1>7 DEF Ready, c

\* A step that leaves the pool alone keeps what is known of its leaves.
LEMMA PoolAlone ==
    ASSUME NotesInv, StateInv', fresh <= fresh', leaves' = leaves,
           nullifiers' = nullifiers, balance' = balance
    PROVE  LeavesInv' /\ NullifiersInv' /\ BalanceInv'
<1>1. fresh \in Nat /\ fresh' \in Nat
  BY DEF NotesInv, StateInv
<1>2. LeavesInv'
  BY DEF NotesInv, LeavesInv
<1>3. \A b \in 0..fresh : b \in 0..fresh'
  BY <1>1
<1>4. NullifiersInv'
  BY <1>3 DEF NotesInv, NullifiersInv, SpentAs
<1>5. Live' = Live /\ LeafAmounts' = LeafAmounts
  BY DEF Live, SpentAs, LeafAmounts
<1>6. BalanceInv'
  BY <1>5 DEF NotesInv, BalanceInv
<1> QED
  BY <1>2, <1>4, <1>6

\* And what is prepared stays ready.
LEMMA PreparedAlone ==
    ASSUME NotesInv, StateInv', fresh <= fresh', leaves' = leaves,
           nullifiers' = nullifiers, NEW v \in Users,
           prepared'[v] = prepared[v], prepared[v] # None
    PROVE  Ready(v, prepared[v])'
<1>1. PICK tx : tx = prepared[v]
  OBVIOUS
<1>2. StateInv /\ Ready(v, tx)
  BY <1>1 DEF NotesInv, PreparedInv
<1>3. Len(leaves) \in Nat
  BY <1>2 DEF StateInv
<1>4. tx.circuit.inputNullifier[1] \notin nullifiers /\ tx.circuit.inputNullifier[2] \notin nullifiers
  BY <1>2 DEF Ready, InputReady
<1>5. Ready(v, tx)'
  BY <1>2, <1>3, <1>4, ReadyKept
<1>6. prepared'[v] = tx
  BY <1>1
<1> QED
  BY <1>5, <1>6

\* Nothing is there in the beginning.
LEMMA NotesInit ==
    ASSUME Disc!FlowInit
    PROVE  NotesInv
<1>1. /\ registry = [u \in Users |-> None] /\ leaves = << >> /\ nullifiers = {}
      /\ balance = 0 /\ prepared = [u \in Users |-> None] /\ fresh = 0
  BY DEF Disc!FlowInit
<1>2. StateInv
  BY <1>1 DEF StateInv
<1>3. LeavesInv /\ NullifiersInv /\ PreparedInv
  BY <1>1 DEF LeavesInv, NullifiersInv, PreparedInv
<1>4. Live = {}
  BY <1>1 DEF Live
<1>5. BalanceInv
  BY <1>1, <1>4, SumEmpty DEF BalanceInv
<1> QED
  BY <1>2, <1>3, <1>5 DEF NotesInv

\* Keys are registered and nothing else changes.
LEMMA RegisterKeeps ==
    ASSUME NotesInv, NEW u \in Users, Disc!Register(u)
    PROVE  NotesInv'
<1>1. /\ registry' = [registry EXCEPT ![u] = Keys(u)]
      /\ leaves' = leaves /\ nullifiers' = nullifiers /\ balance' = balance
      /\ prepared' = prepared /\ fresh' = fresh
  BY DEF Disc!Register, Keys
<1>2. StateInv /\ fresh \in Nat
  BY DEF NotesInv, StateInv
<1>3. StateInv'
  BY <1>1, <1>2 DEF StateInv
<1>4. LeavesInv' /\ NullifiersInv' /\ BalanceInv'
  BY <1>1, <1>2, <1>3, PoolAlone
<1>5. PreparedInv'
  <2> SUFFICES ASSUME NEW v \in Users, prepared'[v] # None
               PROVE  Ready(v, prepared[v])'
    BY DEF PreparedInv
  <2> QED
    BY <1>1, <1>2, <1>3, PreparedAlone
<1> QED
  BY <1>3, <1>4, <1>5 DEF NotesInv

\* A transaction is given up.
LEMMA GiveUpKeeps ==
    ASSUME NotesInv, NEW u \in Users, Disc!GiveUp(u)
    PROVE  NotesInv'
<1>1. /\ prepared' = [prepared EXCEPT ![u] = None]
      /\ leaves' = leaves /\ nullifiers' = nullifiers /\ balance' = balance
      /\ registry' = registry /\ fresh' = fresh
  BY DEF Disc!GiveUp
<1>2. StateInv /\ fresh \in Nat
  BY DEF NotesInv, StateInv
<1>3. StateInv'
  BY <1>1, <1>2 DEF StateInv
<1>4. LeavesInv' /\ NullifiersInv' /\ BalanceInv'
  BY <1>1, <1>2, <1>3, PoolAlone
<1>5. PreparedInv'
  <2> SUFFICES ASSUME NEW v \in Users, prepared'[v] # None
               PROVE  Ready(v, prepared[v])'
    BY DEF PreparedInv
  <2>1. prepared'[v] = prepared[v]
    BY <1>1, <1>2 DEF StateInv
  <2> QED
    BY <1>1, <1>2, <1>3, <2>1, PreparedAlone
<1> QED
  BY <1>3, <1>4, <1>5 DEF NotesInv

\* A transaction of a user's notes is prepared.
LEMMA PrepareKeeps ==
    ASSUME NotesInv, NEW u \in Users, NEW p, NEW m, NEW amounts, NEW keys,
           OwnInputs(u, p.inputs, m), OwnOutputs(p.outputs, amounts, keys),
           p.root = Len(leaves), p.ext \in (-ExtMax)..ExtMax, Disc!Prepare(u, p)
    PROVE  NotesInv'
<1>0. PICK tx, ins, outs : /\ tx = Disc!Artifacts(u, p)
                           /\ ins = Disc!InputSlots(p.inputs, fresh + 2)
                           /\ outs = Disc!OutputSlots(p.outputs, fresh)
  OBVIOUS
<1>1. /\ prepared' = [prepared EXCEPT ![u] = tx] /\ Disc!Valid(p)
      /\ leaves' = leaves /\ nullifiers' = nullifiers /\ balance' = balance
      /\ registry' = registry /\ fresh' = fresh + 4
  BY <1>0 DEF Disc!Prepare
<1>2. StateInv /\ LeavesInv /\ NullifiersInv /\ fresh \in Nat
  BY DEF NotesInv, StateInv
<1>3. StateInv' /\ fresh <= fresh'
  <2>1. prepared' = [v \in Users |-> prepared'[v]]
    BY <1>1, <1>2 DEF StateInv
  <2>2. fresh' \in Nat /\ fresh <= fresh'
    BY <1>1, <1>2
  <2> QED
    BY <1>1, <1>2, <2>1, <2>2 DEF StateInv
<1>4. LeavesInv' /\ NullifiersInv' /\ BalanceInv'
  BY <1>1, <1>2, <1>3, PoolAlone
<1>5. Ready(u, tx)'
  BY <1>0, <1>1, <1>2, ArtifactsReady
<1>6. PreparedInv'
  <2> SUFFICES ASSUME NEW v \in Users, prepared'[v] # None
               PROVE  Ready(v, prepared[v])'
    BY DEF PreparedInv
  <2>1. CASE v = u
    <3>1. prepared'[v] = tx
      BY <1>1, <1>2, <2>1 DEF StateInv
    <3> QED
      BY <1>5, <2>1, <3>1
  <2>2. CASE v # u
    <3>1. prepared'[v] = prepared[v]
      BY <1>1, <1>2, <2>2 DEF StateInv
    <3> QED
      BY <1>1, <1>3, <3>1, PreparedAlone
  <2> QED
    BY <2>1, <2>2
<1> QED
  BY <1>3, <1>4, <1>6 DEF NotesInv

\* Outputs are for the sender, or for a registered user.
LEMMA OutputsOwn ==
    ASSUME StateInv, NEW a \in Nat, NEW b \in Nat, NEW keys,
           \A i \in 1..2 : keys[i] \in {Disc!Self} \cup Disc!Registered
    PROVE  OwnOutputs(Disc!Outputs(<<a, b>>, keys), <<a, b>>, keys)
<1>1. Disc!Registered \subseteq {Keys(v) : v \in Users}
  BY DEF Disc!Registered, StateInv
<1>2. DOMAIN <<a, b>> = 1..2 /\ <<a, b>> \in [1..2 -> Nat]
  OBVIOUS
<1> DEFINE t == <<a, b>>
<1> HIDE DEF t
<1>3. Disc!Outputs(t, keys) = [i \in 1..2 |->
          [amount |-> t[i], blinding |-> fresh + i,
           notePubkey |-> keys[i].note, encryptionPubkey |-> keys[i].encryption]]
  BY <1>2 DEF Disc!Outputs, t
<1> QED
  BY <1>1, <1>2, <1>3 DEF OwnOutputs, t

LEMMA AddresseesAre ==
    ASSUME NEW keys \in Disc!Addressees
    PROVE  \A i \in 1..2 : keys[i] \in {Disc!Self} \cup Disc!Registered
BY DEF Disc!Addressees

LEMMA DepositsKeeps ==
    ASSUME NotesInv, NEW u \in Users, Disc!Deposits(u)
    PROVE  NotesInv'
<1>1. PICK amount \in 0..ExtMax, a \in Parts, b \in Parts, keys \in Disc!Addressees :
          Disc!Prepare(u, Disc!Deposit(amount, Disc!Outputs(<<a, b>>, keys)))
  BY DEF Disc!Deposits
<1>2. PICK p : p = Disc!Deposit(amount, Disc!Outputs(<<a, b>>, keys))
  OBVIOUS
<1>3. /\ p.root = Len(leaves) /\ p.ext = amount /\ p.inputs = << >>
      /\ p.outputs = Disc!Outputs(<<a, b>>, keys)
  BY <1>2 DEF Disc!Deposit
<1>4. a \in Nat /\ b \in Nat /\ amount \in (-ExtMax)..ExtMax
  BY AmountsAssumption
<1>5. OwnInputs(u, p.inputs, 0)
  BY <1>3, NoInputsAre
<1>6. OwnOutputs(p.outputs, <<a, b>>, keys)
  BY <1>3, <1>4, AddresseesAre, OutputsOwn DEF NotesInv
<1>7. PICK amounts : amounts = <<a, b>>
  OBVIOUS
<1> QED
  BY <1>1, <1>2, <1>3, <1>4, <1>5, <1>6, <1>7, PrepareKeeps

LEMMA TransfersKeeps ==
    ASSUME NotesInv, NEW u \in Users, Disc!Transfers(u)
    PROVE  NotesInv'
<1>1. PICK notes \in SUBSET Disc!Unspent(u), a \in Parts, b \in Parts,
           keys \in Disc!Addressees :
          Disc!Prepare(u, Disc!Transfer(Disc!InputNotes(notes), Disc!Outputs(<<a, b>>, keys)))
  BY DEF Disc!Transfers
<1>2. PICK p : p = Disc!Transfer(Disc!InputNotes(notes), Disc!Outputs(<<a, b>>, keys))
  OBVIOUS
<1>3. /\ p.root = Len(leaves) /\ p.ext = 0 /\ p.inputs = Disc!InputNotes(notes)
      /\ p.outputs = Disc!Outputs(<<a, b>>, keys)
  BY <1>2 DEF Disc!Transfer
<1>4. a \in Nat /\ b \in Nat /\ 0 \in (-ExtMax)..ExtMax
  BY AmountsAssumption
<1>5. PICK m \in Nat : OwnInputs(u, p.inputs, m)
  BY <1>3, InputNotesAre DEF NotesInv
<1>6. OwnOutputs(p.outputs, <<a, b>>, keys)
  BY <1>3, <1>4, AddresseesAre, OutputsOwn DEF NotesInv
<1>7. PICK amounts : amounts = <<a, b>>
  OBVIOUS
<1> QED
  BY <1>1, <1>2, <1>3, <1>4, <1>5, <1>6, <1>7, PrepareKeeps

LEMMA WithdrawsKeeps ==
    ASSUME NotesInv, NEW u \in Users, Disc!Withdraws(u)
    PROVE  NotesInv'
<1>1. PICK notes \in SUBSET Disc!Unspent(u), amount \in 0..ExtMax :
          /\ Disc!CanWithdraw(amount, Disc!InputNotes(notes))
          /\ Disc!Prepare(u, Disc!Withdraw(amount, Disc!InputNotes(notes)))
  BY DEF Disc!Withdraws
<1>2. PICK p : p = Disc!Withdraw(amount, Disc!InputNotes(notes))
  OBVIOUS
<1> DEFINE total == Disc!NoteSum(Disc!AmountsIn(Disc!InputNotes(notes)))
           keys  == <<Disc!Self, Disc!Self>>
<1>3. /\ p.root = Len(leaves) /\ p.ext = -amount /\ p.inputs = Disc!InputNotes(notes)
      /\ p.outputs = Disc!Outputs(<<total - amount, 0>>, keys)
  BY <1>2 DEF Disc!Withdraw
<1>4. Disc!Valid(p)
  BY <1>1, <1>2 DEF Disc!Prepare
<1>5. PICK m \in Nat : OwnInputs(u, p.inputs, m)
  BY <1>3, InputNotesAre DEF NotesInv
<1>6. total \in Nat
  <2>1. m <= 2 /\ p.inputs = [i \in 1..m |-> p.inputs[i]]
    BY <1>4, <1>5 DEF Disc!Valid, Disc!N_INPUTS, OwnInputs
  <2>2. ASSUME NEW i \in 1..m
        PROVE  p.inputs[i].amount \in Nat
    <3>1. PICK note \in Disc!Unspent(u) :
              p.inputs[i] = [amount |-> note.amount, blinding |-> note.blinding,
                             index |-> note.index, path |-> Len(leaves)]
      BY <1>5, Zenon DEF OwnInputs
    <3>2. p.inputs[i].amount = note.amount
      BY <3>1
    <3> QED
      BY <3>2, UnspentNote DEF NotesInv
  <2>3. Disc!AmountsIn(p.inputs) = [i \in 1..m |-> p.inputs[i].amount]
    BY <2>1 DEF Disc!AmountsIn
  <2> DEFINE ia == Disc!AmountsIn(p.inputs)
  <2>4. m \in 0..2 /\ ia \in [1..m -> Nat]
    BY <2>1, <2>2, <2>3
  <2> HIDE DEF ia
  <2>5. Disc!NoteSum(ia) = None \/ Disc!NoteSum(ia) \in 0..NoteMax
    BY <2>4, NoteSumIs
  <2>6. total = Disc!NoteSum(ia) /\ total # None
    BY <1>1, <1>3 DEF Disc!CanWithdraw, ia
  <2> QED
    BY <2>5, <2>6, AmountsAssumption
<1>7. amount \in 0..total
  BY <1>1 DEF Disc!CanWithdraw
<1>8. PICK a \in Nat : a = total - amount
  <2> HIDE DEF total
  <2> QED
    BY <1>6, <1>7
<1>9. p.ext \in (-ExtMax)..ExtMax
  BY <1>3, AmountsAssumption
<1>10. OwnOutputs(p.outputs, <<a, 0>>, keys)
  <2>1. \A i \in 1..2 : keys[i] \in {Disc!Self} \cup Disc!Registered
    OBVIOUS
  <2>2. p.outputs = Disc!Outputs(<<a, 0>>, keys)
    BY <1>3, <1>8
  <2> HIDE DEF keys
  <2> QED
    BY <2>1, <2>2, OutputsOwn DEF NotesInv
<1>11. PICK amounts, k : amounts = <<a, 0>> /\ k = keys
  OBVIOUS
<1> HIDE DEF keys
<1> QED
  BY <1>1, <1>2, <1>3, <1>5, <1>9, <1>10, <1>11, PrepareKeeps

\* What a submission does to the pool.
Submitted(u, tx, v, w) ==
    LET c == tx.circuit
    IN  /\ Ready(u, tx) /\ v \in Users /\ w \in Users
        /\ nullifiers' = nullifiers \cup {c.inputNullifier[1], c.inputNullifier[2]}
        /\ balance' = balance + tx.ext.amount
        /\ leaves' = leaves \o << Leaf(v, c.outAmount[1], c.outBlinding[1]),
                                  Leaf(w, c.outAmount[2], c.outBlinding[2]) >>
        /\ prepared' = [prepared EXCEPT ![u] = None]
        /\ registry' = registry /\ fresh' = fresh

LEMMA PublicAmountIs ==
    ASSUME NEW e \in (-ExtMax)..ExtMax
    PROVE  Disc!PublicAmount(e) \in 0..(Field - 1)
BY AmountsAssumption DEF Disc!PublicAmount

LEMMA SubmitIs ==
    ASSUME NotesInv, NEW u \in Users, Disc!Submit(u), NEW tx, tx = prepared[u]
    PROVE  \E v, w \in Users : Submitted(u, tx, v, w)
<1> DEFINE c == tx.circuit
           n1 == c.inputNullifier[1]
           n2 == c.inputNullifier[2]
           o1 == c.outputCommitment[1]
           o2 == c.outputCommitment[2]
           proof == Disc!PoolProof(tx)
<1>1. /\ tx # None
      /\ nullifiers' = nullifiers \cup Disc!ToSet(proof.input_nullifiers)
      /\ balance' = balance + tx.ext.amount
      /\ leaves' = leaves \o
             <<[commitment |-> proof.output_commitment0, output |-> tx.ext.outputs[1]],
               [commitment |-> proof.output_commitment1, output |-> tx.ext.outputs[2]]>>
      /\ prepared' = [prepared EXCEPT ![u] = None]
      /\ registry' = registry /\ fresh' = fresh
  BY DEF Disc!Submit
<1>2. Ready(u, tx)
  BY <1>1 DEF NotesInv, PreparedInv
<1>3. /\ c.inputNullifier = <<n1, n2>> /\ c.outputCommitment = <<o1, o2>>
      /\ c.membershipRoots = <<Disc!MembershipRoot, Disc!MembershipRoot>>
      /\ c.nonMembershipRoots = <<Disc!NonMembershipRoot, Disc!NonMembershipRoot>>
      /\ c.extDataHash = tx.ext
      /\ c.publicAmount = Disc!PublicAmount(tx.ext.amount)
      /\ tx.ext.amount \in (-ExtMax)..ExtMax
      /\ OutputReady(c, 1) /\ OutputReady(c, 2)
  BY <1>2 DEF Ready
<1>4. c.publicAmount \in 0..(Field - 1)
  BY <1>3, PublicAmountIs
<1>5. proof = Disc!PoolProof([circuit |-> c, ext |-> c.extDataHash])
  BY DEF Disc!PoolProof
<1> HIDE DEF proof
<1>6. /\ proof.input_nullifiers = <<n1, n2>>
      /\ proof.output_commitment0 = o1 /\ proof.output_commitment1 = o2
  <2> HIDE DEF c, n1, n2, o1, o2
  <2> QED
    BY <1>3, <1>4, <1>5, SignalsKept
<1>7. Disc!ToSet(<<n1, n2>>) = {n1, n2}
  BY DEF Disc!ToSet
<1>8. PICK v \in Users : [commitment |-> o1, output |-> tx.ext.outputs[1]]
                           = Leaf(v, c.outAmount[1], c.outBlinding[1])
  <2>1. PICK x \in Users :
            /\ o1 = Commitment(x, c.outAmount[1], c.outBlinding[1])
            /\ tx.ext.outputs[1] = Leaf(x, c.outAmount[1], c.outBlinding[1]).output
    <3>1. OutputReady(c, 1) /\ c.extDataHash = tx.ext
      BY <1>3
    <3> QED
      BY <3>1 DEF OutputReady
  <2> HIDE DEF c, o1
  <2> QED
    BY <2>1 DEF Leaf
<1>9. PICK w \in Users : [commitment |-> o2, output |-> tx.ext.outputs[2]]
                           = Leaf(w, c.outAmount[2], c.outBlinding[2])
  <2>1. PICK x \in Users :
            /\ o2 = Commitment(x, c.outAmount[2], c.outBlinding[2])
            /\ tx.ext.outputs[2] = Leaf(x, c.outAmount[2], c.outBlinding[2]).output
    <3>1. OutputReady(c, 2) /\ c.extDataHash = tx.ext
      BY <1>3
    <3> QED
      BY <3>1 DEF OutputReady
  <2> HIDE DEF c, o2
  <2> QED
    BY <2>1 DEF Leaf
<1>10. Submitted(u, tx, v, w)
  BY <1>1, <1>2, <1>6, <1>7, <1>8, <1>9 DEF Submitted
<1> QED
  BY <1>10

\* The tree after a submission: the old leaves and two new ones.
LEMMA TwoMoreLeaves ==
    ASSUME StateInv, NEW a, NEW b, leaves' = leaves \o <<a, b>>
    PROVE  /\ Len(leaves') = Len(leaves) + 2
           /\ leaves' = [i \in 1..(Len(leaves) + 2) |-> leaves'[i]]
           /\ \A i \in 1..Len(leaves) : leaves'[i] = leaves[i]
           /\ leaves'[Len(leaves) + 1] = a
           /\ leaves'[Len(leaves) + 2] = b
<1> DEFINE n == Len(leaves)
           S == {leaves[i] : i \in 1..n} \cup {a, b}
           s == leaves
           t == <<a, b>>
           r == leaves'
<1>1. n \in Nat /\ s \in Seq(S)
  <2>1. n \in Nat /\ s = [i \in 1..n |-> s[i]] /\ \A i \in 1..n : s[i] \in S
    BY DEF StateInv
  <2> HIDE DEF S, s, n
  <2>2. PICK f \in [1..n -> S] : f = s
    BY <2>1
  <2>3. f \in Seq(S)
    <3>1. Seq(S) = UNION {[1..m -> S] : m \in Nat}
      BY SeqDef, Zenon
    <3> QED
      BY <2>1, <3>1, Zenon
  <2> QED
    BY <2>1, <2>2, <2>3
<1>2. t \in Seq(S) /\ Len(t) = 2 /\ t[1] = a /\ t[2] = b
  OBVIOUS
<1>3. r = s \o t /\ Len(s) = n
  OBVIOUS
<1> HIDE DEF S, s, t, n, r
<1>4. /\ s \o t \in Seq(S) /\ Len(s \o t) = Len(s) + Len(t)
      /\ \A i \in 1..(Len(s) + Len(t)) :
            (s \o t)[i] = IF i <= Len(s) THEN s[i] ELSE t[i - Len(s)]
  BY <1>1, <1>2, ConcatProperties, Zenon
<1>5. /\ r \in Seq(S) /\ Len(r) = n + 2
      /\ \A i \in 1..(n + 2) : r[i] = IF i <= n THEN s[i] ELSE t[i - n]
  BY <1>2, <1>3, <1>4
<1>6. /\ \A i \in 1..n : r[i] = s[i]
      /\ r[n + 1] = t[1] /\ r[n + 2] = t[2]
  <2>1. \A i \in 1..n : i \in 1..(n + 2) /\ i <= n
    BY <1>1
  <2>2. /\ n + 1 \in 1..(n + 2) /\ ~(n + 1 <= n) /\ (n + 1) - n = 1
        /\ n + 2 \in 1..(n + 2) /\ ~(n + 2 <= n) /\ (n + 2) - n = 2
    BY <1>1
  <2> QED
    BY <1>5, <2>1, <2>2
<1>7. r = [i \in 1..(n + 2) |-> r[i]]
  BY <1>5
<1> QED
  BY <1>2, <1>5, <1>6, <1>7 DEF s, n, r

\* What a submission leaves behind.
LEMMA SubmittedState ==
    ASSUME NotesInv, NEW u \in Users, NEW tx, NEW v, NEW w, Submitted(u, tx, v, w)
    PROVE  StateInv'
<1> DEFINE c == tx.circuit
<1>1. Ready(u, tx) /\ StateInv
  BY DEF Submitted, NotesInv
<1>2. /\ Len(leaves') = Len(leaves) + 2 /\ Len(leaves) \in Nat
      /\ leaves' = [i \in 1..(Len(leaves) + 2) |-> leaves'[i]]
  BY <1>1, TwoMoreLeaves DEF Submitted, StateInv
<1>3. Len(leaves') \in Nat /\ leaves' = [i \in 1..Len(leaves') |-> leaves'[i]]
  BY <1>2
<1>4. balance' \in Nat
  <2>1. /\ balance = SumOf(Live \ Spends(c), LeafAmounts) + c.inAmount[1] + c.inAmount[2]
        /\ SumOf(Live \ Spends(c), LeafAmounts) \in Nat
    BY <1>1, SpendsLive
  <2>2. /\ c.inAmount[1] \in Nat /\ c.inAmount[2] \in Nat
        /\ c.outAmount[1] \in Nat /\ c.outAmount[2] \in Nat
        /\ tx.ext.amount \in Int
        /\ c.inAmount[1] + c.inAmount[2] + tx.ext.amount = c.outAmount[1] + c.outAmount[2]
    <3>1. /\ InputReady(u, c, 1) /\ InputReady(u, c, 2)
          /\ OutputReady(c, 1) /\ OutputReady(c, 2)
          /\ tx.ext.amount \in Int
          /\ c.inAmount[1] + c.inAmount[2] + tx.ext.amount = c.outAmount[1] + c.outAmount[2]
      BY <1>1 DEF Ready
    <3>2. /\ c.inAmount[1] \in Nat /\ c.inAmount[2] \in Nat
      BY <3>1, AmountsAssumption DEF InputReady
    <3>3. c.outAmount[1] \in Nat /\ c.outAmount[2] \in Nat
      BY <3>1, AmountsAssumption DEF OutputReady
    <3> QED
      BY <3>1, <3>2, <3>3
  <2>3. balance' = balance + tx.ext.amount
    BY DEF Submitted
  <2> HIDE DEF c
  <2> QED
    BY <2>1, <2>2, <2>3
<1>5. prepared' = [x \in Users |-> prepared'[x]]
  BY <1>1 DEF Submitted, StateInv
<1> QED
  BY <1>1, <1>3, <1>4, <1>5 DEF StateInv, Submitted

\* Old leaves stay and the two outputs follow.
LEMMA SubmittedLeaves ==
    ASSUME NotesInv, NEW u, NEW tx, NEW v, NEW w, Submitted(u, tx, v, w)
    PROVE  /\ Len(leaves) \in Nat /\ Len(leaves') = Len(leaves) + 2
           /\ \A i \in 1..Len(leaves) : leaves'[i] = leaves[i]
           /\ leaves'[Len(leaves) + 1]
                = Leaf(v, tx.circuit.outAmount[1], tx.circuit.outBlinding[1])
           /\ leaves'[Len(leaves) + 2]
                = Leaf(w, tx.circuit.outAmount[2], tx.circuit.outBlinding[2])
           /\ \A k \in 1..2 : /\ tx.circuit.outAmount[k] \in Nat
                              /\ tx.circuit.outBlinding[k] \in Nat
<1>1. StateInv
  BY DEF NotesInv
<1>2. PICK a, b : /\ a = Leaf(v, tx.circuit.outAmount[1], tx.circuit.outBlinding[1])
                  /\ b = Leaf(w, tx.circuit.outAmount[2], tx.circuit.outBlinding[2])
  OBVIOUS
<1>3. leaves' = leaves \o <<a, b>>
  BY <1>2 DEF Submitted
<1>4. /\ Len(leaves') = Len(leaves) + 2
      /\ \A i \in 1..Len(leaves) : leaves'[i] = leaves[i]
      /\ leaves'[Len(leaves) + 1] = a
      /\ leaves'[Len(leaves) + 2] = b
  BY <1>1, <1>3, TwoMoreLeaves
<1>5. \A k \in 1..2 : tx.circuit.outAmount[k] \in Nat /\ tx.circuit.outBlinding[k] \in Nat
  <2>1. OutputReady(tx.circuit, 1) /\ OutputReady(tx.circuit, 2)
    BY DEF Submitted, Ready
  <2>2. \A k \in 1..2 : OutputReady(tx.circuit, k)
    BY <2>1
  <2>3. \A x : x \in 0..NoteMax => x \in Nat
    BY AmountsAssumption
  <2> QED
    BY <2>2, <2>3, Zenon DEF OutputReady
<1> QED
  BY <1>1, <1>2, <1>4, <1>5 DEF StateInv

\* The inputs of what was submitted.
TakenInput(u, tx, k) ==
    LET a == tx.circuit.inAmount[k]
        b == tx.circuit.inBlinding[k]
        x == tx.circuit.inPathIndices[k]
        n == tx.circuit.inputNullifier[k]
    IN  /\ a \in Nat /\ b \in Nat /\ x \in 0..Len(leaves)
        /\ a = 0 => b \in 0..fresh
        /\ n = Nullifier(u, a, b, x) /\ n \in nullifiers' /\ n \notin nullifiers
        /\ a # 0 => x < Len(leaves) /\ leaves[x + 1] = Leaf(u, a, b)

LEMMA SubmittedInputs ==
    ASSUME NotesInv, NEW u, NEW tx, NEW v, NEW w, Submitted(u, tx, v, w), NEW k \in 1..2
    PROVE  TakenInput(u, tx, k)
<1>1. InputReady(u, tx.circuit, k) /\ tx.circuit.root \in 0..Len(leaves) /\ Len(leaves) \in Nat
  BY DEF Submitted, Ready, NotesInv, StateInv
<1>2. tx.circuit.inputNullifier[k] \in nullifiers'
  BY DEF Submitted
<1>3. tx.circuit.inPathIndices[k] \in 0..Len(leaves)
  BY <1>1 DEF InputReady
<1>4. tx.circuit.inPathIndices[k] < tx.circuit.root => tx.circuit.inPathIndices[k] < Len(leaves)
  BY <1>1, <1>3
<1> QED
  BY <1>1, <1>2, <1>3, <1>4 DEF InputReady, TakenInput

LEMMA SubmittedLeavesInv ==
    ASSUME NotesInv, NEW u \in Users, NEW tx, NEW v, NEW w, Submitted(u, tx, v, w)
    PROVE  LeavesInv'
<1> DEFINE n == Len(leaves)
<1>1. /\ n \in Nat /\ Len(leaves') = n + 2
      /\ \A i \in 1..n : leaves'[i] = leaves[i]
      /\ leaves'[n + 1] = Leaf(v, tx.circuit.outAmount[1], tx.circuit.outBlinding[1])
      /\ leaves'[n + 2] = Leaf(w, tx.circuit.outAmount[2], tx.circuit.outBlinding[2])
      /\ \A k \in 1..2 : tx.circuit.outAmount[k] \in Nat /\ tx.circuit.outBlinding[k] \in Nat
  BY SubmittedLeaves
<1>2. v \in Users /\ w \in Users
  BY DEF Submitted
<1> HIDE DEF n
<1>3. SUFFICES ASSUME NEW i \in 1..(n + 2)
               PROVE  \E x \in Users :
                  /\ leaves'[i] = Leaf(x, leaves'[i].output.amount, leaves'[i].output.blinding)
                  /\ leaves'[i].output.amount \in Nat /\ leaves'[i].output.blinding \in Nat
  BY <1>1 DEF LeavesInv
<1>4. CASE i \in 1..n
  <2>1. \E x \in Users :
            /\ leaves[i] = Leaf(x, leaves[i].output.amount, leaves[i].output.blinding)
            /\ leaves[i].output.amount \in Nat /\ leaves[i].output.blinding \in Nat
    BY <1>4 DEF NotesInv, LeavesInv, n
  <2>2. leaves'[i] = leaves[i]
    BY <1>1, <1>4
  <2> QED
    BY <2>1, <2>2
<1>5. CASE i = n + 1
  <2> DEFINE a == tx.circuit.outAmount[1]
             b == tx.circuit.outBlinding[1]
  <2>1. leaves'[i] = Leaf(v, a, b) /\ a \in Nat /\ b \in Nat
    BY <1>1, <1>5
  <2> HIDE DEF a, b
  <2>2. leaves'[i].output.amount = a /\ leaves'[i].output.blinding = b
    BY <2>1 DEF Leaf
  <2> QED
    BY <1>2, <2>1, <2>2
<1>6. CASE i = n + 2
  <2> DEFINE a == tx.circuit.outAmount[2]
             b == tx.circuit.outBlinding[2]
  <2>1. leaves'[i] = Leaf(w, a, b) /\ a \in Nat /\ b \in Nat
    BY <1>1, <1>6
  <2> HIDE DEF a, b
  <2>2. leaves'[i].output.amount = a /\ leaves'[i].output.blinding = b
    BY <2>1 DEF Leaf
  <2> QED
    BY <1>2, <2>1, <2>2
<1>7. i \in 1..n \/ i = n + 1 \/ i = n + 2
  BY <1>1
<1> QED
  BY <1>4, <1>5, <1>6, <1>7

LEMMA SubmittedNullifiers ==
    ASSUME NotesInv, NEW u \in Users, NEW tx, NEW v, NEW w, Submitted(u, tx, v, w)
    PROVE  NullifiersInv'
<1> DEFINE c == tx.circuit
           n == Len(leaves)
<1>1. /\ n \in Nat /\ Len(leaves') = n + 2
      /\ \A i \in 1..n : leaves'[i] = leaves[i]
  BY SubmittedLeaves
<1>2. /\ nullifiers' = nullifiers \cup {c.inputNullifier[1], c.inputNullifier[2]}
      /\ fresh' = fresh
  BY DEF Submitted
<1>3. \A i \in 1..n : i \in 1..Len(leaves') /\ \A x : SpentAs(x, i)' = SpentAs(x, i)
  <2>1. \A i \in 1..n : i \in 1..(n + 2)
    BY <1>1
  <2> QED
    BY <1>1, <2>1 DEF SpentAs
<1>4. \A i \in 0..n : i \in 0..Len(leaves')
  BY <1>1
<1> SUFFICES ASSUME NEW x \in nullifiers'
             PROVE  \E y \in Users :
                \/ \E b \in 0..fresh, i \in 0..Len(leaves') : x = Nullifier(y, 0, b, i)
                \/ \E i \in 1..Len(leaves') :
                      /\ x = SpentAs(y, i)'
                      /\ leaves'[i].output.for = Disc!EncryptionPubkey(y)
                      /\ leaves'[i].output.amount # 0
  BY <1>2 DEF NullifiersInv
<1>5. CASE x \in nullifiers
  <2>1. PICK y \in Users :
            \/ \E b \in 0..fresh, i \in 0..n : x = Nullifier(y, 0, b, i)
            \/ \E i \in 1..n : /\ x = SpentAs(y, i)
                               /\ leaves[i].output.for = Disc!EncryptionPubkey(y)
                               /\ leaves[i].output.amount # 0
    BY <1>5 DEF NotesInv, NullifiersInv
  <2> HIDE DEF n
  <2>2. CASE \E b \in 0..fresh, i \in 0..n : x = Nullifier(y, 0, b, i)
    BY <1>4, <2>2
  <2>3. CASE \E i \in 1..n : /\ x = SpentAs(y, i)
                             /\ leaves[i].output.for = Disc!EncryptionPubkey(y)
                             /\ leaves[i].output.amount # 0
    <3>1. PICK i \in 1..n : /\ x = SpentAs(y, i)
                            /\ leaves[i].output.for = Disc!EncryptionPubkey(y)
                            /\ leaves[i].output.amount # 0
      BY <2>3
    <3>2. /\ x = SpentAs(y, i)' /\ i \in 1..Len(leaves')
          /\ leaves'[i].output.for = Disc!EncryptionPubkey(y)
          /\ leaves'[i].output.amount # 0
      BY <1>1, <1>3, <3>1
    <3> QED
      BY <3>2
  <2> QED
    BY <2>1, <2>2, <2>3
<1>6. ASSUME NEW k \in 1..2, x = c.inputNullifier[k]
      PROVE  \E y \in Users :
                \/ \E b \in 0..fresh, i \in 0..Len(leaves') : x = Nullifier(y, 0, b, i)
                \/ \E i \in 1..Len(leaves') :
                      /\ x = SpentAs(y, i)'
                      /\ leaves'[i].output.for = Disc!EncryptionPubkey(y)
                      /\ leaves'[i].output.amount # 0
  <2> DEFINE a == c.inAmount[k]
             b == c.inBlinding[k]
             j == c.inPathIndices[k]
  <2>1. /\ a \in Nat /\ b \in Nat /\ j \in 0..n
        /\ a = 0 => b \in 0..fresh
        /\ x = Nullifier(u, a, b, j)
        /\ a # 0 => j < n /\ leaves[j + 1] = Leaf(u, a, b)
    <3>1. /\ a \in Nat /\ b \in Nat /\ j \in 0..Len(leaves)
          /\ a = 0 => b \in 0..fresh
          /\ c.inputNullifier[k] = Nullifier(u, a, b, j)
          /\ a # 0 => j < Len(leaves) /\ leaves[j + 1] = Leaf(u, a, b)
      <4>1. TakenInput(u, tx, k)
        BY SubmittedInputs, Zenon
      <4> QED
        BY <4>1, Zenon DEF TakenInput
    <3> HIDE DEF a, b, j
    <3> QED
      BY <1>6, <3>1, Zenon DEF n
  <2> HIDE DEF a, b, j, n
  <2>2. CASE a = 0
    BY <1>4, <2>1, <2>2
  <2>3. CASE a # 0
    <3>1. j + 1 \in 1..n /\ (j + 1) - 1 = j
      BY <1>1, <2>1, <2>3
    <3>2. leaves'[j + 1] = Leaf(u, a, b) /\ j + 1 \in 1..Len(leaves')
      BY <1>1, <1>3, <2>1, <2>3, <3>1
    <3>3. /\ leaves'[j + 1].output.for = Disc!EncryptionPubkey(u)
          /\ leaves'[j + 1].output.amount = a /\ leaves'[j + 1].output.blinding = b
      BY <3>2 DEF Leaf
    <3>4. SpentAs(u, j + 1)' = x
      BY <2>1, <3>1, <3>3 DEF SpentAs
    <3> QED
      BY <2>3, <3>2, <3>3, <3>4
  <2> QED
    BY <2>2, <2>3
<1>7. x \in nullifiers \/ x = c.inputNullifier[1] \/ x = c.inputNullifier[2]
  BY <1>2
<1>8. 1 \in 1..2 /\ 2 \in 1..2
  OBVIOUS
<1> HIDE DEF c, n
<1> QED
  BY <1>5, <1>6, <1>7, <1>8

\* Of the old leaves, those stay unspent that the transaction does not spend.
LEMMA OldLive ==
    ASSUME NotesInv, NEW u \in Users, NEW tx, NEW v, NEW w, Submitted(u, tx, v, w),
           NEW i \in 1..Len(leaves)
    PROVE  i \in Live' <=> i \in Live \ Spends(tx.circuit)
<1> DEFINE c == tx.circuit
           n == Len(leaves)
<1>1. /\ n \in Nat /\ Len(leaves') = n + 2 /\ leaves'[i] = leaves[i]
  BY SubmittedLeaves
<1>2. nullifiers' = nullifiers \cup {c.inputNullifier[1], c.inputNullifier[2]}
  BY DEF Submitted
<1>3. i \in 1..Len(leaves') /\ i \in 1..n
  BY <1>1
<1>4. \A y : SpentAs(y, i)' = SpentAs(y, i)
  BY <1>1 DEF SpentAs
<1>5. \A k \in 1..2 :
         /\ c.inAmount[k] \in Nat /\ c.inPathIndices[k] \in 0..n
         /\ c.inputNullifier[k]
              = Nullifier(u, c.inAmount[k], c.inBlinding[k], c.inPathIndices[k])
         /\ c.inputNullifier[k] \in nullifiers'
         /\ c.inAmount[k] # 0 => leaves[c.inPathIndices[k] + 1]
                                   = Leaf(u, c.inAmount[k], c.inBlinding[k])
  <2>1. \A k \in 1..2 : TakenInput(u, tx, k)
    BY SubmittedInputs, Zenon
  <2> QED
    BY <2>1, Zenon DEF TakenInput
<1> HIDE DEF c, n
<1>6. ASSUME i \in Live'
      PROVE  i \in Live /\ i \notin Spends(c)
  <2>1. PICK y \in Users : /\ leaves'[i].output.for = Disc!EncryptionPubkey(y)
                           /\ SpentAs(y, i)' \notin nullifiers'
                           /\ leaves'[i].output.amount # 0
    BY <1>6 DEF Live
  <2>2. /\ leaves[i].output.for = Disc!EncryptionPubkey(y)
        /\ SpentAs(y, i) \notin nullifiers'
        /\ leaves[i].output.amount # 0
    BY <1>1, <1>4, <2>1
  <2>3. i \in Live
    BY <1>2, <1>3, <2>2 DEF Live, n
  <2>4. ASSUME i \in Spends(c)
        PROVE  FALSE
    <3>1. PICK k \in 1..2 : c.inAmount[k] # 0 /\ i = c.inPathIndices[k] + 1
      BY <2>4 DEF Spends
    <3> DEFINE a == c.inAmount[k]
               b == c.inBlinding[k]
               x == c.inPathIndices[k]
    <3>2. leaves[i] = Leaf(u, a, b)
      BY <1>5, <3>1
    <3>3. c.inputNullifier[k] = Nullifier(u, a, b, x) /\ c.inputNullifier[k] \in nullifiers'
          /\ x \in 0..n /\ i = x + 1
      BY <1>5, <3>1
    <3> HIDE DEF a, b, x
    <3>4. /\ leaves[i].output.for = Disc!EncryptionPubkey(u)
          /\ leaves[i].output.amount = a /\ leaves[i].output.blinding = b
      BY <3>2 DEF Leaf
    <3>5. y = u
      BY <2>2, <3>4, EncryptionInjective
    <3>6. i - 1 = x
      BY <1>1, <3>3
    <3>7. SpentAs(y, i) = c.inputNullifier[k]
      BY <3>3, <3>4, <3>5, <3>6 DEF SpentAs
    <3> QED
      BY <2>2, <3>3, <3>7
  <2> QED
    BY <2>3, <2>4
<1>7. ASSUME i \in Live, i \notin Spends(c)
      PROVE  i \in Live'
  <2>1. PICK y \in Users : /\ leaves[i].output.for = Disc!EncryptionPubkey(y)
                           /\ SpentAs(y, i) \notin nullifiers
                           /\ leaves[i].output.amount # 0
    BY <1>7 DEF Live
  <2>2. ASSUME NEW k \in 1..2, SpentAs(y, i) = c.inputNullifier[k]
        PROVE  FALSE
    <3>1. Nullifier(y, leaves[i].output.amount, leaves[i].output.blinding, i - 1)
            = Nullifier(u, c.inAmount[k], c.inBlinding[k], c.inPathIndices[k])
      BY <1>5, <2>2 DEF SpentAs
    <3>2. leaves[i].output.amount = c.inAmount[k] /\ i - 1 = c.inPathIndices[k]
      BY <3>1, NullifierInjective
    <3> DEFINE x == c.inPathIndices[k]
    <3>3. i = x + 1
      <4>1. x \in 0..n /\ i - 1 = x
        BY <1>5, <3>2
      <4> HIDE DEF x
      <4> QED
        BY <1>1, <1>3, <4>1
    <3>4. i \in Spends(c)
      BY <2>1, <3>2, <3>3 DEF Spends
    <3> QED
      BY <1>7, <3>4
  <2>3. 1 \in 1..2 /\ 2 \in 1..2
    OBVIOUS
  <2>4. SpentAs(y, i) \notin nullifiers'
    BY <1>2, <2>1, <2>2, <2>3
  <2>5. leaves'[i].output.for = Disc!EncryptionPubkey(y) /\ leaves'[i].output.amount # 0
        /\ SpentAs(y, i)' \notin nullifiers'
    BY <1>1, <1>4, <2>1, <2>4
  <2> QED
    BY <1>3, <2>5 DEF Live
<1> QED
  BY <1>6, <1>7 DEF c

\* A new leaf is unspent, if it is a note.
LEMMA NewLive ==
    ASSUME NotesInv, NEW u \in Users, NEW tx, NEW v, NEW w, Submitted(u, tx, v, w),
           NEW y \in Users, NEW a \in Nat, NEW b, NEW i \in (Len(leaves) + 1)..(Len(leaves) + 2),
           leaves'[i] = Leaf(y, a, b)
    PROVE  i \in Live' <=> a # 0
<1> DEFINE c == tx.circuit
           n == Len(leaves)
<1>1. /\ n \in Nat /\ Len(leaves') = n + 2
  BY SubmittedLeaves
<1>2. i \in Nat /\ i \in 1..Len(leaves') /\ i > n
  BY <1>1
<1>3. /\ leaves'[i].output.for = Disc!EncryptionPubkey(y)
      /\ leaves'[i].output.amount = a /\ leaves'[i].output.blinding = b
  BY DEF Leaf
<1>4. SpentAs(y, i)' = Nullifier(y, a, b, i - 1)
  BY <1>3 DEF SpentAs
<1>5. ASSUME a # 0, Nullifier(y, a, b, i - 1) \in nullifiers
      PROVE  FALSE
  <2>1. PICK z \in Users :
            \/ \E d \in 0..fresh, j \in 0..Len(leaves) :
                  Nullifier(y, a, b, i - 1) = Nullifier(z, 0, d, j)
            \/ \E j \in 1..Len(leaves) : Nullifier(y, a, b, i - 1) = SpentAs(z, j)
    BY <1>5 DEF NotesInv, NullifiersInv
  <2>2. ASSUME NEW d, NEW j, Nullifier(y, a, b, i - 1) = Nullifier(z, 0, d, j)
        PROVE  FALSE
    BY <1>5, <2>2, NullifierInjective
  <2>3. ASSUME NEW j \in 1..n, Nullifier(y, a, b, i - 1) = SpentAs(z, j)
        PROVE  FALSE
    <3>1. i - 1 = j - 1
      BY <2>3, NullifierInjective DEF SpentAs
    <3> QED
      BY <1>1, <1>2, <3>1
  <2> QED
    BY <2>1, <2>2, <2>3
<1>6. ASSUME a # 0, NEW k \in 1..2, Nullifier(y, a, b, i - 1) = c.inputNullifier[k]
      PROVE  FALSE
  <2> DEFINE x == c.inPathIndices[k]
             e == c.inAmount[k]
  <2>1. /\ c.inputNullifier[k] = Nullifier(u, e, c.inBlinding[k], x)
        /\ e # 0 => x < n
        /\ x \in 0..n
    <3>1. TakenInput(u, tx, k)
      BY SubmittedInputs, Zenon
    <3> QED
      BY <3>1, Zenon DEF TakenInput, n
  <2>2. a = e /\ i - 1 = x
    BY <1>6, <2>1, NullifierInjective
  <2> HIDE DEF x, e, n
  <2> QED
    BY <1>1, <1>2, <1>6, <2>1, <2>2
<1>7. nullifiers' = nullifiers \cup {c.inputNullifier[1], c.inputNullifier[2]}
  BY DEF Submitted
<1>8. 1 \in 1..2 /\ 2 \in 1..2
  OBVIOUS
<1>9. a # 0 => SpentAs(y, i)' \notin nullifiers'
  BY <1>4, <1>5, <1>6, <1>7, <1>8
<1> HIDE DEF n, c
<1> QED
  BY <1>2, <1>3, <1>9 DEF Live

\* One more note, if it is one, adds its amount.
LEMMA OneMore ==
    ASSUME NEW R, IsFiniteSet(R), NEW A, \A y \in R : A[y] \in Nat,
           NEW x, x \notin R, A[x] \in Nat,
           NEW T, T = R \cup (IF A[x] # 0 THEN {x} ELSE {})
    PROVE  /\ IsFiniteSet(T) /\ \A y \in T : A[y] \in Nat
           /\ SumOf(T, A) = SumOf(R, A) + A[x]
<1>1. CASE A[x] = 0
  <2>1. T = R
    BY <1>1
  <2>2. SumOf(R, [y \in R |-> A[y]]) \in Nat
    BY SumNat
  <2>3. SumOf(R, [y \in R |-> A[y]]) = SumOf(R, A)
    BY SumCongruent
  <2> QED
    BY <1>1, <2>1, <2>2, <2>3
<1>2. CASE A[x] # 0
  <2>1. T = R \cup {x} /\ T \ {x} = R /\ x \in T
    BY <1>2
  <2>2. IsFiniteSet(T)
    BY <2>1, FS_AddElement
  <2>3. \A y \in T : A[y] \in Nat
    BY <2>1
  <2>4. SumOf(T, A) = SumOf(T \ {x}, A) + A[x]
    BY <2>1, <2>2, <2>3, SumSplit
  <2> QED
    BY <2>1, <2>2, <2>3, <2>4
<1> QED
  BY <1>1, <1>2

\* The pool holds what the unspent notes are worth.
LEMMA SubmittedBalance ==
    ASSUME NotesInv, NEW u \in Users, NEW tx, NEW v, NEW w, Submitted(u, tx, v, w)
    PROVE  BalanceInv'
<1> DEFINE c == tx.circuit
           n == Len(leaves)
           R == Live \ Spends(c)
           B == LeafAmounts'
           x1 == n + 1
           x2 == n + 2
           T == R \cup (IF B[x1] # 0 THEN {x1} ELSE {})
           U == T \cup (IF B[x2] # 0 THEN {x2} ELSE {})
<1>1. /\ n \in Nat /\ Len(leaves') = n + 2
      /\ \A i \in 1..n : leaves'[i] = leaves[i]
      /\ leaves'[x1] = Leaf(v, c.outAmount[1], c.outBlinding[1])
      /\ leaves'[x2] = Leaf(w, c.outAmount[2], c.outBlinding[2])
      /\ c.outAmount[1] \in Nat /\ c.outAmount[2] \in Nat
  BY SubmittedLeaves
<1>2. Ready(u, tx) /\ v \in Users /\ w \in Users /\ balance' = balance + tx.ext.amount
  BY DEF Submitted
<1>3. /\ IsFiniteSet(Live) /\ \A i \in Live : LeafAmounts[i] \in Nat
      /\ SumOf(R, LeafAmounts) \in Nat
      /\ balance = SumOf(R, LeafAmounts) + c.inAmount[1] + c.inAmount[2]
  BY <1>2, SpendsLive
<1>4. /\ c.inAmount[1] + c.inAmount[2] + tx.ext.amount = c.outAmount[1] + c.outAmount[2]
      /\ c.inAmount[1] \in Nat /\ c.inAmount[2] \in Nat /\ tx.ext.amount \in Int
  BY <1>2, AmountsAssumption DEF Ready, InputReady
<1>5. x1 \in 1..(n + 2) /\ x2 \in 1..(n + 2) /\ x1 \in (n + 1)..(n + 2)
      /\ x2 \in (n + 1)..(n + 2) /\ x1 # x2 /\ x1 \notin 1..n /\ x2 \notin 1..n
      /\ \A i \in 1..n : i \in 1..(n + 2)
  BY <1>1
<1>6. /\ leaves'[x1].output.amount = c.outAmount[1]
      /\ leaves'[x2].output.amount = c.outAmount[2]
  BY <1>1 DEF Leaf
<1>7. /\ B[x1] = c.outAmount[1] /\ B[x2] = c.outAmount[2]
      /\ \A i \in 1..n : B[i] = LeafAmounts[i]
  <2>1. \A i \in 1..(n + 2) : B[i] = leaves'[i].output.amount
    BY <1>1 DEF LeafAmounts
  <2>2. \A i \in 1..n : LeafAmounts[i] = leaves[i].output.amount
    BY DEF LeafAmounts
  <2> HIDE DEF B, n, x1, x2, c
  <2> QED
    BY <1>1, <1>5, <1>6, <2>1, <2>2
<1>8. Live \subseteq 1..n /\ R \subseteq 1..n
  BY DEF Live
<1>9. /\ x1 \in Live' <=> B[x1] # 0
      /\ x2 \in Live' <=> B[x2] # 0
  <2>1. x1 \in Live' <=> c.outAmount[1] # 0
    BY <1>1, <1>2, <1>5, NewLive
  <2>2. x2 \in Live' <=> c.outAmount[2] # 0
    BY <1>1, <1>2, <1>5, NewLive
  <2> HIDE DEF x1, x2, B, c
  <2> QED
    BY <1>7, <2>1, <2>2
<1>10. Live' = U
  <2>1. Live' \subseteq 1..(n + 2)
    BY <1>1 DEF Live
  <2>2. \A i \in 1..n : i \in Live' <=> i \in R
    BY OldLive
  <2>3. \A i : i \in U <=> \/ i \in R
                           \/ i = x1 /\ B[x1] # 0
                           \/ i = x2 /\ B[x2] # 0
    OBVIOUS
  <2>4. PICK L : L = Live'
    OBVIOUS
  <2>5. n \in Nat
    BY <1>1
  <2> HIDE DEF R, U, x1, x2, B, n, T
  <2>6. \A i \in L : i \in 1..n \/ i = x1 \/ i = x2
    <3>1. \A i \in L : i \in 1..(n + 2)
      BY <2>1, <2>4
    <3>2. \A i \in 1..(n + 2) : i \in 1..n \/ i = x1 \/ i = x2
      BY <2>5 DEF x1, x2
    <3> QED
      BY <3>1, <3>2, Zenon
  <2>7. \A i \in 1..n : i \in L <=> i \in R
    BY <2>2, <2>4
  <2>8. (x1 \in L <=> B[x1] # 0) /\ (x2 \in L <=> B[x2] # 0)
    BY <1>9, <2>4
  <2>9. \A i \in R : i \in 1..n
    BY <1>8
  <2>10. \A i : i \in L <=> i \in U
    BY <2>3, <2>6, <2>7, <2>8, <2>9, Zenon
  <2> QED
    BY <2>4, <2>10
<1>11. IsFiniteSet(R) /\ (\A i \in R : B[i] \in Nat) /\ SumOf(R, B) = SumOf(R, LeafAmounts)
  <2>1. IsFiniteSet(R)
    BY <1>3, FS_Subset
  <2>2. \A i \in R : B[i] = LeafAmounts[i]
    BY <1>7, <1>8
  <2>3. \A i \in R : LeafAmounts[i] \in Nat
    BY <1>3
  <2> HIDE DEF R, B
  <2> QED
    BY <2>1, <2>2, <2>3, SumCongruent
<1>12. x1 \notin R /\ x2 \notin R /\ x1 # x2
  BY <1>5, <1>8
<1>13. B[x1] \in Nat /\ B[x2] \in Nat
  BY <1>1, <1>7
<1> HIDE DEF R, B, x1, x2
<1>14. /\ IsFiniteSet(T) /\ \A y \in T : B[y] \in Nat
       /\ SumOf(T, B) = SumOf(R, B) + B[x1]
  <2>1. PICK t : t = T
    OBVIOUS
  <2>2. IsFiniteSet(t) /\ (\A y \in t : B[y] \in Nat) /\ SumOf(t, B) = SumOf(R, B) + B[x1]
    BY <1>11, <1>12, <1>13, <2>1, OneMore
  <2> QED
    BY <2>1, <2>2
<1>15. x2 \notin T
  BY <1>12
<1> HIDE DEF T
<1>16. SumOf(U, B) = SumOf(T, B) + B[x2]
  <2>1. PICK t : t = U
    OBVIOUS
  <2>2. SumOf(t, B) = SumOf(T, B) + B[x2]
    BY <1>13, <1>14, <1>15, <2>1, OneMore
  <2> QED
    BY <2>1, <2>2
<1> HIDE DEF U
<1>17. SumOf(U, B) = SumOf(R, LeafAmounts) + c.outAmount[1] + c.outAmount[2]
  BY <1>7, <1>11, <1>14, <1>16
<1>18. balance' = SumOf(U, B)
  <2> DEFINE s == SumOf(R, LeafAmounts)
             a1 == c.inAmount[1]
             a2 == c.inAmount[2]
             b1 == c.outAmount[1]
             b2 == c.outAmount[2]
             e == tx.ext.amount
  <2>1. /\ s \in Nat /\ a1 \in Nat /\ a2 \in Nat /\ b1 \in Nat /\ b2 \in Nat /\ e \in Int
        /\ balance = s + a1 + a2 /\ balance' = balance + e /\ a1 + a2 + e = b1 + b2
        /\ SumOf(U, B) = s + b1 + b2
    BY <1>1, <1>2, <1>3, <1>4, <1>17
  <2> HIDE DEF s, a1, a2, b1, b2, e
  <2> QED
    BY <2>1
<1> QED
  BY <1>10, <1>18 DEF BalanceInv, B

\* What others prepared stays ready: their notes are not spent.
LEMMA SubmittedPrepared ==
    ASSUME NotesInv, NEW u \in Users, NEW tx, NEW v, NEW w, Submitted(u, tx, v, w)
    PROVE  PreparedInv'
<1> SUFFICES ASSUME NEW y \in Users, prepared'[y] # None
             PROVE  Ready(y, prepared[y])'
  BY DEF PreparedInv
<1>1. StateInv /\ StateInv'
  BY SubmittedState DEF NotesInv
<1>2. y # u /\ prepared'[y] = prepared[y]
  BY <1>1 DEF Submitted, StateInv
<1>3. PICK t : t = prepared[y]
  OBVIOUS
<1>4. Ready(y, t)
  BY <1>2, <1>3 DEF NotesInv, PreparedInv
<1>5. /\ fresh' = fresh /\ fresh \in Nat
      /\ nullifiers' = nullifiers \cup {tx.circuit.inputNullifier[1],
                                        tx.circuit.inputNullifier[2]}
  BY <1>1 DEF Submitted, StateInv
<1>6. /\ Len(leaves) \in Nat /\ Len(leaves') = Len(leaves) + 2
      /\ \A i \in 1..Len(leaves) : leaves'[i] = leaves[i]
  BY SubmittedLeaves
<1>7. \A k \in 1..2 : \E a, b, x : tx.circuit.inputNullifier[k] = Nullifier(u, a, b, x)
  <2> TAKE k \in 1..2
  <2>1. TakenInput(u, tx, k)
    BY SubmittedInputs, Zenon
  <2>2. tx.circuit.inputNullifier[k]
          = Nullifier(u, tx.circuit.inAmount[k], tx.circuit.inBlinding[k],
                      tx.circuit.inPathIndices[k])
    BY <2>1 DEF TakenInput
  <2> QED
    BY <2>2, Zenon
<1>8. ASSUME NEW k \in 1..2
      PROVE  t.circuit.inputNullifier[k] \notin nullifiers'
  <2>1. PICK a, b, x : t.circuit.inputNullifier[k] = Nullifier(y, a, b, x)
    BY <1>4 DEF Ready, InputReady
  <2>2. t.circuit.inputNullifier[k] \notin nullifiers
    BY <1>4 DEF Ready, InputReady
  <2>3. ASSUME NEW j \in 1..2
        PROVE  t.circuit.inputNullifier[k] # tx.circuit.inputNullifier[j]
    <3>1. PICK a2, b2, x2 : tx.circuit.inputNullifier[j] = Nullifier(u, a2, b2, x2)
      BY <1>7
    <3> QED
      BY <1>2, <2>1, <3>1, NullifierInjective
  <2> QED
    BY <1>5, <2>2, <2>3
<1>9. fresh <= fresh' /\ Len(leaves) <= Len(leaves')
  BY <1>5, <1>6
<1>10. t.circuit.inputNullifier[1] \notin nullifiers' /\ t.circuit.inputNullifier[2] \notin nullifiers'
  BY <1>8
<1>11. Ready(y, t)'
  BY <1>1, <1>4, <1>6, <1>9, <1>10, ReadyKept
<1> QED
  BY <1>2, <1>3, <1>11

LEMMA SubmitKeeps ==
    ASSUME NotesInv, NEW u \in Users, Disc!Submit(u)
    PROVE  NotesInv'
<1>1. PICK tx : tx = prepared[u]
  OBVIOUS
<1>2. PICK v \in Users, w \in Users : Submitted(u, tx, v, w)
  BY <1>1, SubmitIs
<1> QED
  BY <1>2, SubmittedState, SubmittedLeavesInv, SubmittedNullifiers, SubmittedBalance,
     SubmittedPrepared DEF NotesInv

LEMMA NotesKept ==
    ASSUME NotesInv, Disc!FlowNext \/ UNCHANGED Disc!flowVars
    PROVE  NotesInv'
<1>1. ASSUME NEW u \in Users,
             \/ Disc!Deposits(u) \/ Disc!Withdraws(u) \/ Disc!Transfers(u)
             \/ Disc!Register(u) \/ Disc!Submit(u) \/ Disc!GiveUp(u)
      PROVE  NotesInv'
  BY <1>1, DepositsKeeps, WithdrawsKeeps, TransfersKeeps, RegisterKeeps, SubmitKeeps,
     GiveUpKeeps
<1>2. ASSUME UNCHANGED Disc!flowVars
      PROVE  NotesInv'
  <2>1. /\ registry' = registry /\ leaves' = leaves /\ nullifiers' = nullifiers
        /\ balance' = balance /\ prepared' = prepared /\ fresh' = fresh
    BY <1>2 DEF Disc!flowVars
  <2>2. Live' = Live /\ LeafAmounts' = LeafAmounts
    BY <2>1 DEF Live, SpentAs, LeafAmounts
  <2>3. StateInv' /\ LeavesInv' /\ BalanceInv'
    BY <2>1, <2>2 DEF NotesInv, StateInv, LeavesInv, BalanceInv
  <2>4. StateInv /\ fresh \in Nat
    BY DEF NotesInv, StateInv
  <2>5. LeavesInv' /\ NullifiersInv' /\ BalanceInv'
    BY <2>1, <2>3, <2>4, PoolAlone
  <2>6. PreparedInv'
    BY <2>1, <2>3, <2>4, PreparedAlone DEF PreparedInv
  <2> QED
    BY <2>3, <2>5, <2>6 DEF NotesInv
<1> QED
  BY <1>1, <1>2 DEF Disc!FlowNext

LEMMA PreparedAccepted ==
    ASSUME NotesInv
    PROVE  Disc!PreparedIsAccepted
BY ReadySucceeds DEF NotesInv, PreparedInv, Disc!PreparedIsAccepted

\* A live leaf is the unspent note of its owner.
Owner(i) == CHOOSE v \in Users : leaves[i].output.for = Disc!EncryptionPubkey(v)

LEMMA LiveNote ==
    ASSUME StateInv, LeavesInv, NEW i \in Live
    PROVE  /\ Owner(i) \in Users /\ Disc!DeriveUserNote(Owner(i), i) \in Disc!Unspent(Owner(i))
           /\ Disc!DeriveUserNote(Owner(i), i).amount = LeafAmounts[i]
           /\ Disc!DeriveUserNote(Owner(i), i).index = i - 1
           /\ LeafAmounts[i] \in Nat
<1> DEFINE v == Owner(i)
           d == Disc!DeriveUserNote(v, i)
           o == leaves[i].output
<1>1. i \in 1..Len(leaves) /\ o.amount # 0 /\ DOMAIN leaves = 1..Len(leaves)
  BY DEF Live, StateInv
<1>2. PICK x \in Users : o.for = Disc!EncryptionPubkey(x) /\ SpentAs(x, i) \notin nullifiers
  BY DEF Live
<1>3. v \in Users /\ o.for = Disc!EncryptionPubkey(v)
  BY <1>2 DEF Owner
<1>4. v = x
  BY <1>2, <1>3, EncryptionInjective
<1>5. o.amount \in Nat /\ o.blinding \in Nat
  BY <1>1 DEF LeavesInv
<1> HIDE DEF v
<1>6. d = [amount |-> o.amount, blinding |-> o.blinding, index |-> i - 1,
           nullifier |-> SpentAs(v, i)]
  BY <1>1, <1>3, DerivedNote
<1>7. i - 1 \in Nat
  BY <1>1
<1>8. d # None
  <2>1. d = [amount |-> o.amount, blinding |-> o.blinding, index |-> i - 1,
             nullifier |-> Nullifier(v, o.amount, o.blinding, i - 1)]
    BY <1>6 DEF SpentAs
  <2> HIDE DEF d, o
  <2> QED
    BY <1>3, <1>5, <1>7, <2>1, NoneFacts
<1>9. d \in Disc!NotesOf(v)
  BY <1>1, <1>8 DEF Disc!NotesOf
<1>10. d.nullifier \notin nullifiers
  BY <1>2, <1>4, <1>6
<1>11. d \in Disc!Unspent(v)
  <2> HIDE DEF d
  <2> QED
    BY <1>9, <1>10 DEF Disc!Unspent
<1>12. LeafAmounts[i] = o.amount
  BY <1>1 DEF LeafAmounts
<1> QED
  BY <1>3, <1>5, <1>6, <1>11, <1>12 DEF v

\* The sum of this module and of the instance are one.
LEMMA SameSum ==
    ASSUME NEW S, NEW f
    PROVE  Disc!SumOf(S, f) = SumOf(S, f)
<1>1. \A T : Disc!Cardinality(T) = Cardinality(T)
  BY Zenon DEF Disc!Cardinality, Cardinality
<1>2. \A x : Disc!Units(x, f) = Units(x, f)
  BY DEF Disc!Units, Units
<1>3. UNION {Disc!Units(x, f) : x \in S} = UNION {Units(x, f) : x \in S}
  BY <1>2
<1> QED
  BY <1>1, <1>3 DEF Disc!SumOf, SumOf

LEMMA AddUp ==
    ASSUME NotesInv
    PROVE  Disc!WalletsAddUp
<1> DEFINE S == Live
           T == Disc!Found
           f == [i \in S |-> LeafAmounts[i]]
           g == [found \in T |-> found[2].amount]
           at(i) == <<Owner(i), Disc!DeriveUserNote(Owner(i), i)>>
           name == [i \in S |-> at(i)]
<1>1. StateInv /\ LeavesInv /\ BalanceInv
  BY DEF NotesInv
<1>2. \A i \in S : /\ Owner(i) \in Users
                   /\ Disc!DeriveUserNote(Owner(i), i) \in Disc!Unspent(Owner(i))
                   /\ Disc!DeriveUserNote(Owner(i), i).amount = LeafAmounts[i]
                   /\ Disc!DeriveUserNote(Owner(i), i).index = i - 1
                   /\ LeafAmounts[i] \in Nat /\ i \in Int
  BY <1>1, LiveNote DEF Live
<1>3. \A i \in S : at(i) \in T
  BY <1>2 DEF Disc!Found
<1>4. f \in [S -> Nat]
  BY <1>2
<1>5. IsFiniteSet(S)
  <2> DEFINE n == Len(leaves)
             I == 1..n
  <2>1. n \in Nat /\ S \subseteq I
    BY <1>1 DEF Live, StateInv
  <2> HIDE DEF n, S
  <2>2. IsFiniteSet(I)
    BY <2>1, FS_Interval
  <2> HIDE DEF I
  <2> QED
    BY <2>1, <2>2, FS_Subset
<1>6. \A y \in T : \E i \in S : at(i) = y
  <2> TAKE y \in T
  <2>1. PICK u \in Users : \E note \in Disc!Unspent(u) : y = <<u, note>>
    BY DEF Disc!Found
  <2>2. PICK note \in Disc!Unspent(u) : y = <<u, note>>
    BY <2>1
  <2>3. PICK i \in Live :
          /\ leaves[i] = Leaf(u, note.amount, note.blinding)
          /\ note = [amount |-> leaves[i].output.amount,
                     blinding |-> leaves[i].output.blinding,
                     index |-> i - 1, nullifier |-> SpentAs(u, i)]
    BY <1>1, UnspentNote
  <2>4. leaves[i].output.for = Disc!EncryptionPubkey(u)
    BY <2>3 DEF Leaf
  <2>5. Owner(i) = u
    BY <2>4, EncryptionInjective DEF Owner
  <2>6. i \in 1..Len(leaves) /\ leaves[i].output.amount # 0
    BY DEF Live
  <2>7. Disc!DeriveUserNote(u, i) = note
    BY <1>1, <2>3, <2>4, <2>6, DerivedNote
  <2>8. at(i) = y
    BY <2>2, <2>5, <2>7
  <2> QED
    BY <2>8
<1>7. \A i, j \in S : at(i) = at(j) => i = j
  <2> TAKE i, j \in S
  <2> HAVE at(i) = at(j)
  <2>1. Disc!DeriveUserNote(Owner(i), i) = Disc!DeriveUserNote(Owner(j), j)
    OBVIOUS
  <2>2. i - 1 = j - 1 /\ i \in Int /\ j \in Int
    BY <1>2, <2>1
  <2> QED
    BY <2>2
<1>8. \A i \in S : g[at(i)] = f[i]
  <2> TAKE i \in S
  <2>1. at(i) \in T
    BY <1>3
  <2>2. g[at(i)] = Disc!DeriveUserNote(Owner(i), i).amount
    BY <2>1
  <2> QED
    BY <1>2, <2>2
<1>9. /\ name \in [S -> T] /\ \A i \in S : name[i] = at(i)
  BY <1>3
<1> HIDE DEF name, at, S, T, f, g
<1>10. /\ \A x, y \in S : name[x] = name[y] => x = y
       /\ \A y \in T : \E x \in S : name[x] = y
       /\ \A x \in S : g[name[x]] = f[x]
  <2>1. \A x, y \in S : name[x] = name[y] => x = y
    BY <1>7, <1>9
  <2>2. \A y \in T : \E x \in S : name[x] = y
    BY <1>6, <1>9
  <2>3. \A x \in S : g[name[x]] = f[x]
    BY <1>8, <1>9
  <2> QED
    BY <2>1, <2>2, <2>3
<1>11. SumOf(T, g) = SumOf(S, f)
  BY <1>4, <1>5, <1>9, <1>10, SumRenamed
<1>12. SumOf(S, f) = SumOf(S, LeafAmounts)
  BY SumCongruent DEF f
<1>13. balance = SumOf(T, g)
  BY <1>1, <1>11, <1>12 DEF BalanceInv, S
<1>14. balance = Disc!SumOf(T, g)
  BY <1>13, SameSum
<1> QED
  BY <1>14 DEF Disc!WalletsAddUp, T, g

-----------------------------------------------------------------------------
(* Receipts.                                                               *)

\* A context is fed with the length before each text, so a hash is of one context.
LEMMA Joined ==
    ASSUME NEW s \in Seq(Nat), NEW t \in Seq(Nat)
    PROVE  /\ s \o t \in Seq(Nat) /\ Len(s \o t) = Len(s) + Len(t)
           /\ \A i \in 1..Len(s) : (s \o t)[i] = s[i]
           /\ t # << >> => (s \o t)[Len(s) + 1] = t[1]
<1>1. /\ s \o t \in Seq(Nat) /\ Len(s \o t) = Len(s) + Len(t)
      /\ \A i \in 1..(Len(s) + Len(t)) :
            (s \o t)[i] = IF i <= Len(s) THEN s[i] ELSE t[i - Len(s)]
  BY ConcatProperties, Zenon
<1>2. Len(s) \in Nat /\ Len(t) \in Nat /\ (t # << >> => Len(t) > 0)
  OBVIOUS
<1> DEFINE r == s \o t
           m == Len(s)
           n == Len(t)
<1> HIDE DEF r, m, n
<1>3. /\ r \in Seq(Nat) /\ Len(r) = m + n /\ m \in Nat /\ n \in Nat
      /\ t # << >> => n > 0
      /\ \A i \in 1..(m + n) : r[i] = IF i <= m THEN s[i] ELSE t[i - m]
  BY <1>1, <1>2 DEF r, m, n
<1>4. \A i \in 1..m : r[i] = s[i]
  <2> TAKE i \in 1..m
  <2>1. i \in 1..(m + n) /\ i <= m
    BY <1>3
  <2> QED
    BY <1>3, <2>1
<1>5. t # << >> => r[m + 1] = t[1]
  <2> HAVE t # << >>
  <2>1. m + 1 \in 1..(m + n) /\ ~(m + 1 <= m) /\ (m + 1) - m = 1
    BY <1>3
  <2> QED
    BY <1>3, <2>1
<1> QED
  BY <1>3, <1>4, <1>5 DEF r, m, n

LEMMA Fed ==
    ASSUME NEW s \in Seq(Nat)
    PROVE  /\ Disc!FeedStr(s) \in Seq(Nat) /\ Disc!FeedStr(s) # << >>
           /\ Disc!FeedStr(s)[1] = Len(s) /\ Len(Disc!FeedStr(s)) = Len(s) + 1
<1> DEFINE l == <<Len(s)>>
<1>1. l \in Seq(Nat) /\ Len(l) = 1 /\ l[1] = Len(s) /\ 1 \in 1..1
  OBVIOUS
<1> HIDE DEF l
<1>2. /\ l \o s \in Seq(Nat) /\ Len(l \o s) = Len(l) + Len(s)
      /\ \A i \in 1..Len(l) : (l \o s)[i] = l[i]
  BY <1>1, Joined
<1>3. Disc!FeedStr(s) = l \o s
  BY DEF Disc!FeedStr, l
<1>4. Len(s) \in Nat
  OBVIOUS
<1>5. Len(Disc!FeedStr(s)) = Len(s) + 1
  BY <1>1, <1>2, <1>3, <1>4
<1>6. Disc!FeedStr(s)[1] = Len(s)
  BY <1>1, <1>2, <1>3
<1>7. Disc!FeedStr(s) # << >>
  <2> SUFFICES ASSUME Disc!FeedStr(s) = << >>
               PROVE  FALSE
    OBVIOUS
  <2>1. Len(Disc!FeedStr(s)) = 0
    OBVIOUS
  <2> QED
    BY <1>4, <1>5, <2>1
<1> QED
  BY <1>2, <1>3, <1>5, <1>6, <1>7

LEMMA TextsAre ==
    ASSUME NEW s \in Disc!Texts
    PROVE  s \in Seq(Nat) /\ s = [i \in 1..Len(s) |-> 1]
<1>1. PICK n \in 0..MaxText : s \in [1..n -> {1}]
  BY DEF Disc!Texts
<1>2. n \in Nat
  BY TextAssumption
<1>3. Len(s) = n
  BY <1>1, <1>2
<1>4. s = [i \in 1..n |-> 1]
  BY <1>1
<1>5. s \in [1..n -> Nat]
  BY <1>1
<1> QED
  BY <1>2, <1>3, <1>4, <1>5

LEMMA HashInjective ==
    ASSUME NEW c \in Disc!Contexts, NEW d \in Disc!Contexts,
           Disc!DeriveExtContextHash(c) = Disc!DeriveExtContextHash(d)
    PROVE  c = d
<1> DEFINE a   == Disc!FeedStr(<<1>>) \o Disc!FeedStr(<<2>>)
           b(l) == a \o Disc!FeedStr(l)
           e(l, q) == b(l) \o Disc!FeedStr(q)
           f(l, q) == e(l, q) \o Disc!FeedStr(<<3>>)
           g(l, q) == f(l, q) \o <<4>>
<1>1. /\ c = [network |-> <<1>>, pool |-> <<2>>, label |-> c.label, payload |-> c.payload,
              purpose |-> <<3>>, nonce |-> <<4>>]
      /\ d = [network |-> <<1>>, pool |-> <<2>>, label |-> d.label, payload |-> d.payload,
              purpose |-> <<3>>, nonce |-> <<4>>]
      /\ c.label \in Disc!Texts /\ c.payload \in Disc!Texts
      /\ d.label \in Disc!Texts /\ d.payload \in Disc!Texts
  BY DEF Disc!Contexts
<1>2. g(c.label, c.payload) = g(d.label, d.payload)
  <2>1. /\ c.network = <<1>> /\ c.pool = <<2>> /\ c.purpose = <<3>> /\ c.nonce = <<4>>
        /\ d.network = <<1>> /\ d.pool = <<2>> /\ d.purpose = <<3>> /\ d.nonce = <<4>>
    BY DEF Disc!Contexts
  <2> QED
    BY <2>1 DEF Disc!DeriveExtContextHash
<1>3. <<1>> \in Seq(Nat) /\ <<2>> \in Seq(Nat) /\ <<3>> \in Seq(Nat) /\ <<4>> \in Seq(Nat)
  OBVIOUS
<1>4. a \in Seq(Nat)
  BY <1>3, Fed, Joined
<1>5. ASSUME NEW l \in Disc!Texts, NEW q \in Disc!Texts
      PROVE  /\ b(l) \in Seq(Nat) /\ Len(b(l)) \in Nat
             /\ g(l, q)[Len(a) + 1] = Len(l)
             /\ g(l, q)[Len(b(l)) + 1] = Len(q)
  <2>1. l \in Seq(Nat) /\ q \in Seq(Nat)
    BY TextsAre
  <2>2. /\ Disc!FeedStr(l) \in Seq(Nat) /\ Disc!FeedStr(l) # << >>
        /\ Disc!FeedStr(l)[1] = Len(l) /\ Len(Disc!FeedStr(l)) = Len(l) + 1
        /\ Disc!FeedStr(q) \in Seq(Nat) /\ Disc!FeedStr(q) # << >>
        /\ Disc!FeedStr(q)[1] = Len(q) /\ Len(Disc!FeedStr(q)) = Len(q) + 1
        /\ Disc!FeedStr(<<3>>) \in Seq(Nat)
    BY <1>3, <2>1, Fed
  <2> HIDE DEF a
  <2>3. /\ b(l) \in Seq(Nat) /\ Len(b(l)) = Len(a) + Len(Disc!FeedStr(l))
        /\ b(l)[Len(a) + 1] = Len(l)
    BY <1>4, <2>2, Joined
  <2> HIDE DEF b
  <2>4. /\ e(l, q) \in Seq(Nat) /\ Len(e(l, q)) = Len(b(l)) + Len(Disc!FeedStr(q))
        /\ \A k \in 1..Len(b(l)) : e(l, q)[k] = b(l)[k]
        /\ e(l, q)[Len(b(l)) + 1] = Len(q)
    BY <2>2, <2>3, Joined
  <2> HIDE DEF e
  <2>5. /\ f(l, q) \in Seq(Nat)
        /\ Len(f(l, q)) = Len(e(l, q)) + Len(Disc!FeedStr(<<3>>))
        /\ \A k \in 1..Len(e(l, q)) : f(l, q)[k] = e(l, q)[k]
    BY <2>2, <2>4, Joined
  <2> HIDE DEF f
  <2>6. \A k \in 1..Len(f(l, q)) : g(l, q)[k] = f(l, q)[k]
    BY <1>3, <2>5, Joined
  <2> HIDE DEF g
  <2>7. /\ Len(a) \in Nat /\ Len(l) \in Nat /\ Len(q) \in Nat /\ Len(b(l)) \in Nat
        /\ Len(Disc!FeedStr(<<3>>)) \in Nat /\ Len(e(l, q)) \in Nat /\ Len(f(l, q)) \in Nat
    <3>1. \A s \in Seq(Nat) : Len(s) \in Nat
      OBVIOUS
    <3> QED
      BY <3>1, <1>4, <2>1, <2>2, <2>3, <2>4, <2>5, Zenon
  <2>8. /\ Len(a) + 1 \in 1..Len(b(l)) /\ Len(a) + 1 \in 1..Len(e(l, q))
        /\ Len(a) + 1 \in 1..Len(f(l, q))
        /\ Len(b(l)) + 1 \in 1..Len(e(l, q)) /\ Len(b(l)) + 1 \in 1..Len(f(l, q))
    <3> DEFINE na == Len(a)
               nb == Len(b(l))
               ne == Len(e(l, q))
               nf == Len(f(l, q))
               nl == Len(l)
               nq == Len(q)
               n3 == Len(Disc!FeedStr(<<3>>))
    <3>1. /\ na \in Nat /\ nl \in Nat /\ nq \in Nat /\ n3 \in Nat
          /\ nb = na + (nl + 1) /\ ne = nb + (nq + 1) /\ nf = ne + n3
      BY <2>2, <2>3, <2>4, <2>5, <2>7
    <3> HIDE DEF na, nb, ne, nf, nl, nq, n3
    <3>2. /\ na + 1 \in 1..nb /\ na + 1 \in 1..ne /\ na + 1 \in 1..nf
          /\ nb + 1 \in 1..ne /\ nb + 1 \in 1..nf
      BY <3>1
    <3> QED
      BY <3>2 DEF na, nb, ne, nf
  <2> QED
    BY <2>3, <2>4, <2>5, <2>6, <2>7, <2>8
<1> HIDE DEF g, b, a
<1>6. c.label = d.label
  <2>1. Len(c.label) = Len(d.label)
    <3>1. g(c.label, c.payload)[Len(a) + 1] = Len(c.label)
      BY <1>1, <1>5, Zenon
    <3>2. g(d.label, d.payload)[Len(a) + 1] = Len(d.label)
      BY <1>1, <1>5, Zenon
    <3> QED
      BY <1>2, <3>1, <3>2, Zenon
  <2>2. c.label = [i \in 1..Len(c.label) |-> 1] /\ d.label = [i \in 1..Len(d.label) |-> 1]
    BY <1>1, TextsAre
  <2> QED
    BY <2>1, <2>2
<1>7. c.payload = d.payload
  <2>1. Len(c.payload) = Len(d.payload)
    <3>1. g(c.label, c.payload)[Len(b(c.label)) + 1] = Len(c.payload)
      BY <1>1, <1>5, Zenon
    <3>2. g(d.label, d.payload)[Len(b(d.label)) + 1] = Len(d.payload)
      BY <1>1, <1>5, Zenon
    <3> QED
      BY <1>2, <1>6, <3>1, <3>2, Zenon
  <2>2. /\ c.payload = [i \in 1..Len(c.payload) |-> 1]
        /\ d.payload = [i \in 1..Len(d.payload) |-> 1]
    BY <1>1, TextsAre
  <2> QED
    BY <2>1, <2>2
<1> QED
  BY <1>1, <1>6, <1>7

\* A receipt as it was issued.
Issued(vk, ctx, n, commitment) ==
    LET hash == Disc!DeriveExtContextHash(ctx)
    IN  [version |-> Disc!Version, circuit |-> Disc!ReceiptMetadata(Disc!VkHash(vk)),
         context |-> ctx,
         public |-> [roots |-> <<n>>, noteCommitments |-> <<commitment>>,
                     extContextHash |-> hash],
         proof |-> [vk |-> vk, inputs |-> << <<n>>, <<commitment>>, hash >>],
         issuedAt |-> "date"]

IssuedInv ==
    \A r \in issued : \E vk, n, commitment : \E ctx \in Disc!Contexts :
        r = Issued(vk, ctx, n, commitment) /\ Disc!ValidContext(ctx)

LEMMA GenerateKeeps ==
    ASSUME IssuedInv, NEW u, NEW vk, NEW ctx \in Disc!Contexts, NEW note,
           Disc!Generate(u, note, vk, ctx)
    PROVE  IssuedInv'
<1> DEFINE c == Disc!SelectiveDisclosure1(u, note, Disc!DeriveExtContextHash(ctx))
<1>1. issued' = issued \cup {Disc!Receipt(vk, ctx, c)} /\ Disc!ValidContext(ctx)
  BY DEF Disc!Generate
<1>2. PICK n, commitment : c.roots = <<n>> /\ c.noteCommitments = <<commitment>>
                           /\ c.extContextHash = Disc!DeriveExtContextHash(ctx)
  BY DEF Disc!SelectiveDisclosure1
<1> HIDE DEF c
<1>3. Disc!Receipt(vk, ctx, c) = Issued(vk, ctx, n, commitment)
  BY <1>2 DEF Disc!Receipt, Issued, Disc!WitnessPublicInputs
<1> QED
  BY <1>1, <1>3 DEF IssuedInv

\* Whatever is changed, the proof and the version stay.
LEMMA AlteredIs ==
    ASSUME NEW vk, NEW n, NEW commitment, NEW ctx \in Disc!Contexts,
           NEW r, r = Issued(vk, ctx, n, commitment),
           NEW s \in Disc!Altered(r) \cup {r}
    PROVE  /\ s.proof = r.proof /\ s.context \in Disc!Contexts
           /\ s.public = [roots |-> s.public.roots,
                          noteCommitments |-> s.public.noteCommitments,
                          extContextHash |-> s.public.extContextHash]
<1>1. /\ r.proof = [vk |-> vk, inputs |-> << <<n>>, <<commitment>>,
                                             Disc!DeriveExtContextHash(ctx) >>]
      /\ r.context = ctx
      /\ r.public = [roots |-> <<n>>, noteCommitments |-> <<commitment>>,
                     extContextHash |-> Disc!DeriveExtContextHash(ctx)]
      /\ r = [version |-> r.version, circuit |-> r.circuit, context |-> r.context,
              public |-> r.public, proof |-> r.proof, issuedAt |-> r.issuedAt]
  BY DEF Issued
<1>2. CASE s = r
  BY <1>1, <1>2
<1>3. CASE s \in Disc!AlteredContext(r)
  <2>1. PICK d \in Disc!Contexts : \E h : s = Disc!WithContext(r, d, h)
    BY <1>3 DEF Disc!AlteredContext
  <2>2. PICK h : s = Disc!WithContext(r, d, h)
    BY <2>1
  <2>3. s = [r EXCEPT !.context = d, !.public.extContextHash = h]
    BY <2>2 DEF Disc!WithContext
  <2> QED
    BY <1>1, <2>3
<1>4. CASE s \in Disc!AlteredInputs(r)
  <2>1. \/ \E root : s = [r EXCEPT !.public.roots = <<root>>]
        \/ \E x : s = [r EXCEPT !.public.noteCommitments = <<x>>]
    BY <1>4 DEF Disc!AlteredInputs
  <2>2. CASE \E root : s = [r EXCEPT !.public.roots = <<root>>]
    BY <1>1, <2>2
  <2>3. CASE \E x : s = [r EXCEPT !.public.noteCommitments = <<x>>]
    BY <1>1, <2>3
  <2> QED
    BY <2>1, <2>2, <2>3
<1>5. CASE s \in Disc!AlteredCircuit(r)
  <2>1. PICK k : s = [r EXCEPT !.circuit.vkHash = Disc!VkHash(k)]
    BY <1>5 DEF Disc!AlteredCircuit
  <2> QED
    BY <1>1, <2>1
<1> QED
  BY <1>2, <1>3, <1>4, <1>5 DEF Disc!Altered

LEMMA ReportAgrees ==
    ASSUME NEW s, NEW vk
    PROVE  Disc!IsFullyVerified(s, vk, Disc!VkHash(vk))
             <=> Disc!Verified(Disc!VerifySelectiveDisclosure(s, vk, Disc!VkHash(vk)))
<1> DEFINE h == Disc!VkHash(vk)
           p == Disc!VerifyReceiptProof(s, vk, h)
           k == Disc!KnownRoots(s)
           x == Disc!VerifyReceiptContext(s)
           report == [proofVerified |-> p, knownRootStatus |-> k, contextVerified |-> x]
<1>1. CASE ~Disc!ValidReceipt(s, h)
  BY <1>1 DEF Disc!IsFullyVerified, Disc!VerifyReceiptProof, Disc!VerifySelectiveDisclosure,
              Disc!Verified
<1>2. CASE Disc!ValidReceipt(s, h)
  <2>1. Disc!VerifySelectiveDisclosure(s, vk, h) = report
    BY <1>2, Zenon DEF Disc!VerifySelectiveDisclosure
  <2>2. p \in BOOLEAN /\ k \in BOOLEAN /\ x \in BOOLEAN
    BY DEF Disc!VerifyReceiptProof, Disc!KnownRoots, Disc!VerifyReceiptContext
  <2> HIDE DEF p, k, x
  <2>3. report # None
    BY <2>2, NoneFacts
  <2>4. Disc!Verified(report) <=> p /\ x /\ k
    BY <2>2, <2>3 DEF Disc!Verified
  <2>5. Disc!IsFullyVerified(s, vk, h) <=> p /\ x /\ k
    BY DEF Disc!IsFullyVerified, p, x, k
  <2> QED
    BY <2>1, <2>4, <2>5
<1> QED
  BY <1>1, <1>2

LEMMA ReceiptsSound ==
    ASSUME IssuedInv
    PROVE  Disc!ReceiptsAreSound
<1> SUFFICES ASSUME NEW r \in issued, NEW vk \in Vks
             PROVE  /\ \A s \in Disc!Altered(r) \cup {r} :
                         /\ Disc!IsFullyVerified(s, vk, Disc!VkHash(vk)) => Disc!Discloses(r, s)
                         /\ Disc!IsFullyVerified(s, vk, Disc!VkHash(vk))
                              <=> Disc!Verified(
                                    Disc!VerifySelectiveDisclosure(s, vk, Disc!VkHash(vk)))
                    /\ Disc!IsFullyVerified(r, vk, Disc!VkHash(vk))
                         <=> (vk = r.proof.vk /\ Disc!IsKnownRoot(r.public.roots[1]))
  BY DEF Disc!ReceiptsAreSound
<1>0. PICK key, n, commitment : \E ctx \in Disc!Contexts :
          r = Issued(key, ctx, n, commitment) /\ Disc!ValidContext(ctx)
  BY DEF IssuedInv
<1>1. PICK ctx \in Disc!Contexts :
          r = Issued(key, ctx, n, commitment) /\ Disc!ValidContext(ctx)
  BY <1>0
<1> DEFINE hash == Disc!DeriveExtContextHash(ctx)
<1>2. /\ r.version = Disc!Version /\ r.circuit = Disc!ReceiptMetadata(Disc!VkHash(key))
      /\ r.context = ctx /\ r.issuedAt = "date"
      /\ r.public = [roots |-> <<n>>, noteCommitments |-> <<commitment>>, extContextHash |-> hash]
      /\ r.proof.vk = key /\ r.proof.inputs = << <<n>>, <<commitment>>, hash >>
  BY <1>1 DEF Issued
<1> HIDE DEF hash
<1>3. ASSUME NEW s \in Disc!Altered(r) \cup {r},
             Disc!IsFullyVerified(s, vk, Disc!VkHash(vk))
      PROVE  Disc!Discloses(r, s)
  <2>1. /\ s.circuit = Disc!ReceiptMetadata(Disc!VkHash(vk))
        /\ s.proof.vk = vk
        /\ s.proof.inputs = <<s.public.roots, s.public.noteCommitments, s.public.extContextHash>>
        /\ Disc!DeriveExtContextHash(s.context) = s.public.extContextHash
    BY <1>3 DEF Disc!IsFullyVerified, Disc!VerifyReceiptProof, Disc!ValidReceipt,
                Disc!VerifyProof, Disc!VerifyReceiptContext, Disc!PublicInputsBytes
  <2>2. /\ s.proof = r.proof /\ s.context \in Disc!Contexts
        /\ s.public = [roots |-> s.public.roots,
                       noteCommitments |-> s.public.noteCommitments,
                       extContextHash |-> s.public.extContextHash]
    BY <1>1, AlteredIs
  <2>3. /\ vk = key /\ s.public.roots = <<n>> /\ s.public.noteCommitments = <<commitment>>
        /\ s.public.extContextHash = hash
    BY <1>2, <2>1, <2>2
  <2>4. s.context = ctx
    BY <2>1, <2>2, <2>3, HashInjective DEF hash
  <2>5. s.public = r.public
    BY <1>2, <2>2, <2>3
  <2> QED
    BY <1>2, <2>1, <2>3, <2>4, <2>5 DEF Disc!Discloses
<1>4. Disc!IsFullyVerified(r, vk, Disc!VkHash(vk))
        <=> (vk = r.proof.vk /\ Disc!IsKnownRoot(r.public.roots[1]))
  <2>1. /\ r.public.roots = <<n>> /\ r.public.noteCommitments = <<commitment>>
        /\ r.public.extContextHash = hash /\ r.public.roots[1] = n
        /\ Len(r.public.roots) = 1 /\ Len(r.public.noteCommitments) = 1
        /\ DOMAIN r.public.roots = {1}
    BY <1>2
  <2>2. Disc!KnownRoots(r) <=> Disc!IsKnownRoot(n)
    BY <2>1 DEF Disc!KnownRoots
  <2>3. Disc!VerifyReceiptContext(r)
    BY <1>2, <2>1 DEF Disc!VerifyReceiptContext, hash
  <2>4. ASSUME vk = key
        PROVE  Disc!VerifyReceiptProof(r, vk, Disc!VkHash(vk))
    BY <1>1, <1>2, <2>1, <2>4 DEF Disc!VerifyReceiptProof, Disc!ValidReceipt, Disc!VerifyProof,
       Disc!PublicInputsBytes, Disc!NumNotes
  <2>5. ASSUME Disc!VerifyReceiptProof(r, vk, Disc!VkHash(vk))
        PROVE  vk = key
    BY <1>2, <2>5 DEF Disc!VerifyReceiptProof, Disc!VerifyProof
  <2> QED
    BY <1>2, <2>1, <2>2, <2>3, <2>4, <2>5 DEF Disc!IsFullyVerified
<1> QED
  BY <1>3, <1>4, ReportAgrees

-----------------------------------------------------------------------------
(* The theorems.                                                           *)

allVars == <<part, spendVars, discVars, inputVars, fileVars, hashVars, serviceVars>>

FlowInv == part = "notes" => NotesInv /\ IssuedInv

LEMMA FlowInit == AllInit => FlowInv
<1> SUFFICES ASSUME AllInit, part = "notes"
             PROVE  NotesInv /\ IssuedInv
  BY DEF FlowInv
<1>1. Disc!FlowInit /\ issued = {}
  BY DEF AllInit, Disc!DiscInit
<1> QED
  BY <1>1, NotesInit DEF IssuedInv

LEMMA FlowKept == FlowInv /\ [AllNext]_allVars => FlowInv'
<1> SUFFICES ASSUME FlowInv, [AllNext]_allVars, part' = "notes"
             PROVE  NotesInv' /\ IssuedInv'
  BY DEF FlowInv
<1>1. part = "notes" /\ (Disc!DiscNext \/ UNCHANGED discVars)
  BY DEF AllNext, allVars
<1>2. NotesInv /\ IssuedInv
  BY <1>1 DEF FlowInv
<1>3. ASSUME Disc!FlowNext, UNCHANGED issued
      PROVE  NotesInv' /\ IssuedInv'
  BY <1>2, <1>3, NotesKept DEF IssuedInv
<1>4. ASSUME NEW u \in Users, NEW vk \in Vks, NEW ctx \in Disc!Requested,
             NEW note \in Disc!Unspent(u), Disc!Generate(u, note, vk, ctx)
      PROVE  NotesInv' /\ IssuedInv'
  <2>1. UNCHANGED Disc!flowVars
    BY <1>4 DEF Disc!Generate
  <2>2. ctx \in Disc!Contexts
    BY DEF Disc!Requested
  <2>3. NotesInv'
    BY <1>2, <2>1, NotesKept
  <2>4. IssuedInv'
    BY <1>2, <1>4, <2>2, GenerateKeeps
  <2> QED
    BY <2>3, <2>4
<1>5. ASSUME UNCHANGED discVars
      PROVE  NotesInv' /\ IssuedInv'
  <2>1. UNCHANGED Disc!flowVars /\ issued' = issued
    BY <1>5 DEF discVars, Disc!flowVars
  <2> QED
    BY <1>2, <2>1, NotesKept DEF IssuedInv
<1> QED
  BY <1>1, <1>3, <1>4, <1>5 DEF Disc!DiscNext

LEMMA FlowInvariant == AllSpec => []FlowInv
<1>1. AllInit => FlowInv
  BY FlowInit
<1>2. FlowInv /\ [AllNext]_allVars => FlowInv'
  BY FlowKept
<1> QED
  BY <1>1, <1>2, PTL DEF AllSpec, allVars

\* Whatever transact returns for a user's own notes (flows.rs) satisfies the
\* transaction circuit and passes the contract's checks, as long as its root is
\* known and the tree has room: whatever the others prepare, submit or give up in
\* between, and however many users, notes and transactions there are.
THEOREM WhatIsPreparedIsAccepted == AllSpec => []PreparedIsAccepted
<1>1. FlowInv => PreparedIsAccepted
  BY PreparedAccepted DEF FlowInv, PreparedIsAccepted
<1> QED
  BY <1>1, FlowInvariant, PTL

\* The notes that the users find by decrypting every output (notes.rs), and hold
\* to be unspent, add up to what the pool holds: each is found by its recipient
\* alone, and with the nullifier that its spending publishes.
THEOREM WalletsHoldThePool == AllSpec => []WalletsAddUp
<1>1. FlowInv => WalletsAddUp
  BY AddUp DEF FlowInv, WalletsAddUp
<1> QED
  BY <1>1, FlowInvariant, PTL

\* A receipt of a disclosed note that was changed in any of its parts is fully
\* verified only if it still says what its maker disclosed, to that authority and
\* for that purpose; unchanged, it is with its maker's key while its root is
\* known; and the app's report says the same as the library (disclosure/src).
THEOREM ReceiptsSayWhatWasDisclosed == AllSpec => []ReceiptsAreSound
<1>1. FlowInv => ReceiptsAreSound
  BY ReceiptsSound DEF FlowInv, ReceiptsAreSound
<1> QED
  BY <1>1, FlowInvariant, PTL
=============================================================================
