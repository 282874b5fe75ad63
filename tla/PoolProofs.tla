----------------------------- MODULE PoolProofs -----------------------------
(***************************************************************************)
(* Theorems about the privacy pool (module Pool), for all sets of keys and *)
(* amounts, every modulus of at least three times the range of an amount,  *)
(* every history and every capacity.                                       *)
(***************************************************************************)
EXTENDS Pool, AmountsProofs

USE PoolAssumption

-----------------------------------------------------------------------------
(* Arithmetic in the field.                                                *)

\* The circuit's equation holds over the integers: three amounts below
\* MaxAmount do not wrap around.
LEMMA NoWrap ==
    ASSUME NEW in \in 0..(2 * (MaxAmount - 1)), NEW out \in 0..(2 * (MaxAmount - 1)),
           NEW ext \in Int, ExtInRange(ext),
           (in + PublicAmount(ext)) % Field = out % Field
    PROVE  in + ext = out
<1>1. \A x \in Nat : x < Field => x % Field = x
  OBVIOUS
<1>2. \A x \in Nat : Field <= x /\ x < 2 * Field => x % Field = x - Field
  OBVIOUS
<1>3. out % Field = out
  BY <1>1
<1>4. CASE ext >= 0
  BY <1>1, <1>3, <1>4 DEF PublicAmount, ExtInRange
<1>5. CASE ext < 0
  <2>1. in + PublicAmount(ext) = in + ext + Field
    BY <1>5 DEF PublicAmount
  <2>2. CASE in + ext >= 0
    <3>1. (in + PublicAmount(ext)) % Field = in + ext
      BY <1>2, <2>1, <2>2, <1>5
    <3> QED
      BY <3>1, <1>3
  <2>3. CASE in + ext < 0
    <3>1. (in + PublicAmount(ext)) % Field = in + ext + Field
      BY <1>1, <2>1, <2>3, <1>5 DEF ExtInRange
    <3> QED
      BY <3>1, <1>3, <2>3, <1>5 DEF ExtInRange
  <2> QED
    BY <2>2, <2>3
<1> QED
  BY <1>4, <1>5

-----------------------------------------------------------------------------
(* A transaction.                                                          *)

\* The notes of a transaction are notes of the pool's own tree.
LEMMA KnownTree ==
    ASSUME TypeOK, NEW tree, IsKnownRoot(tree)
    PROVE  /\ Len(tree) \in 0..Len(leaves)
           /\ \A i \in 1..Len(tree) : tree[i] = leaves[i]
<1>1. PICK age \in 0..(RootHistorySize - 1) :
        2 * age <= Len(leaves) /\ tree = SubSeq(leaves, 1, Len(leaves) - 2 * age)
  BY DEF IsKnownRoot
<1>2. leaves \in Seq([amount : 0..(MaxAmount - 1), key : Keys])
  BY DEF TypeOK
<1> QED
  BY <1>1, <1>2

LEMMA ElementType ==
    ASSUME NEW S, NEW s \in Seq(S), NEW i \in 1..Len(s)
    PROVE  s[i] \in S
OBVIOUS

LEMMA AmountType ==
    ASSUME NEW S, NEW note \in [amount : S, key : Keys]
    PROVE  note.amount \in S
OBVIOUS

LEMMA NoteType ==
    ASSUME NEW out \in Notes, InRange(out)
    PROVE  /\ out.amount \in 0..(MaxAmount - 1)
           /\ out \in [amount : 0..(MaxAmount - 1), key : Keys]
<1>1. out.amount \in NoteAmounts /\ out.amount < MaxAmount
  BY DEF Notes, InRange
<1>2. out.amount \in 0..(MaxAmount - 1)
  <2>1. NoteAmounts \subseteq 0..(Field - 1)
    OBVIOUS
  <2>2. out.amount \in 0..(Field - 1)
    BY <1>1, <2>1, Zenon
  <2> QED
    BY <1>1, <2>2
<1>3. out = [amount |-> out.amount, key |-> out.key] /\ out.key \in Keys
  BY DEF Notes
<1> QED
  BY <1>2, <1>3

\* What a transaction does to the leaves.
LEMMA LeavesAfter ==
    ASSUME TypeOK, NEW out1 \in Notes, NEW out2 \in Notes,
           InRange(out1), InRange(out2), HasRoom,
           leaves' = leaves \o <<out1, out2>>
    PROVE  /\ leaves' \in Seq([amount : 0..(MaxAmount - 1), key : Keys])
           /\ Len(leaves') = Len(leaves) + 2
           /\ \A i \in 1..Len(leaves) : leaves'[i] = leaves[i]
           /\ leaves'[Len(leaves) + 1] = out1
           /\ leaves'[Len(leaves) + 2] = out2
<1>1. out1 \in [amount : 0..(MaxAmount - 1), key : Keys]
  BY NoteType
<1>2. out2 \in [amount : 0..(MaxAmount - 1), key : Keys]
  BY NoteType
<1>3. leaves \in Seq([amount : 0..(MaxAmount - 1), key : Keys])
  BY DEF TypeOK
<1> QED
  BY <1>1, <1>2, <1>3

LEMMA TransactType ==
    ASSUME TypeOK, NEW tree, NEW allowed, NEW denied,
           NEW in1 \in Inputs, NEW in2 \in Inputs,
           NEW out1 \in Notes, NEW out2 \in Notes, NEW ext \in Int,
           NEW toPool \in BOOLEAN,
           Transact(tree, allowed, denied, in1, in2, out1, out2, ext, toPool)
    PROVE  TypeOK'
<1>1. InRange(out1) /\ InRange(out2) /\ HasRoom
  BY DEF Transact, Accepts, Provable
<1>2. /\ leaves' \in Seq([amount : 0..(MaxAmount - 1), key : Keys])
      /\ Len(leaves') = Len(leaves) + 2
  BY <1>1, LeavesAfter DEF Transact
<1>3. Len(leaves) \in Nat /\ Len(leaves) % 2 = 0
  BY DEF TypeOK
<1>4. Len(leaves') <= Capacity /\ Len(leaves') % 2 = 0
  BY <1>1, <1>2, <1>3 DEF HasRoom
<1>5. \A in \in {in1, in2} : in.leaf # 0 => in.leaf \in 1..Len(leaves)
  BY KnownTree DEF Transact, Accepts, Provable, OwnsInput, Inputs
<1>6. nullifiers' \subseteq 1..Len(leaves')
  <2>1. {in1.leaf, in2.leaf} \ {0} \subseteq 1..Len(leaves)
    BY <1>5
  <2>2. nullifiers' \subseteq 1..Len(leaves)
    BY <2>1 DEF TypeOK, Transact
  <2>3. 1..Len(leaves) \subseteq 1..Len(leaves')
    BY <1>2, <1>3
  <2> QED
    BY <2>2, <2>3
<1>7. balance' \in Nat
  BY DEF TypeOK, Transact, Accepts
<1> QED
  BY <1>2, <1>4, <1>6, <1>7 DEF TypeOK, Transact, policy

LEMMA PolicyType ==
    ASSUME TypeOK, NEW key \in Keys, NEW other \in SUBSET Keys,
           \/ AddMember(key) \/ Block(key) \/ Unblock(key)
           \/ UpdateAspMembership(other) \/ UpdateAspNonMembership(other)
    PROVE  TypeOK'
BY DEF TypeOK, AddMember, Block, Unblock, UpdateAspMembership,
       UpdateAspNonMembership, money

-----------------------------------------------------------------------------
(* Money.                                                                  *)

LEMMA SumPair ==
    ASSUME NEW x, NEW y, x # y, NEW f, f[x] \in Nat, f[y] \in Nat
    PROVE  SumOf({x, y}, f) = f[x] + f[y]
<1>1. SumOf({x}, f) = f[x] /\ SumOf({y}, f) = f[y]
  BY SumSingleton
<1>2. IsFiniteSet({x}) /\ IsFiniteSet({y})
  BY FS_Singleton
<1>3. SumOf({x} \cup {y}, f) = SumOf({x}, f) + SumOf({y}, f)
  BY <1>2, SumDisjoint
<1>4. {x} \cup {y} = {x, y}
  OBVIOUS
<1> QED
  BY <1>1, <1>3, <1>4

\* The inputs of an accepted transaction are two unspent notes, or fewer.
LEMMA SpentInputs ==
    ASSUME TypeOK, NEW tree, NEW allowed, NEW denied,
           NEW in1 \in Inputs, NEW in2 \in Inputs,
           NEW out1 \in Notes, NEW out2 \in Notes, NEW ext \in Int,
           Accepts(tree, allowed, denied, in1, in2, out1, out2, ext)
    PROVE  /\ \A in \in {in1, in2} :
                 in.leaf # 0 => /\ in.leaf \in Unspent
                                /\ InputAmount(tree, in) = AmountsOf[in.leaf]
                                /\ leaves[in.leaf].key = in.key
           /\ \A in \in {in1, in2} : InputAmount(tree, in) \in 0..(MaxAmount - 1)
           /\ SumOf({in1.leaf, in2.leaf} \ {0}, AmountsOf)
                = InputAmount(tree, in1) + InputAmount(tree, in2)
<1>0. leaves \in Seq([amount : 0..(MaxAmount - 1), key : Keys])
  BY DEF TypeOK
<1>1. \A i \in 1..Len(leaves) : /\ AmountsOf[i] = leaves[i].amount
                                /\ AmountsOf[i] \in 0..(MaxAmount - 1)
  <2>1. TAKE i \in 1..Len(leaves)
  <2>2. leaves[i] \in [amount : 0..(MaxAmount - 1), key : Keys]
    BY <1>0, ElementType, Zenon
  <2>3. leaves[i].amount \in 0..(MaxAmount - 1)
    BY <2>2, AmountType, Zenon
  <2> QED
    BY <2>3 DEF AmountsOf
<1>2. \A in \in {in1, in2} : in.leaf # 0 =>
        /\ in.leaf \in 1..Len(leaves)
        /\ tree[in.leaf] = leaves[in.leaf]
        /\ leaves[in.leaf].key = in.key
        /\ in.leaf \notin nullifiers
  BY KnownTree DEF Accepts, Provable, OwnsInput, Inputs, IsSpent
<1>3. \A in \in {in1, in2} :
        in.leaf # 0 => /\ in.leaf \in Unspent
                       /\ InputAmount(tree, in) = AmountsOf[in.leaf]
                       /\ leaves[in.leaf].key = in.key
  BY <1>1, <1>2 DEF Unspent, InputAmount
<1>4. MaxAmount > 0
  BY DEF Accepts, ExtInRange
<1>5. \A in \in {in1, in2} : InputAmount(tree, in) \in 0..(MaxAmount - 1)
  <2>1. TAKE in \in {in1, in2}
  <2>2. CASE in.leaf = 0
    BY <1>4, <2>2 DEF InputAmount
  <2>3. CASE in.leaf # 0
    <3>1. InputAmount(tree, in) = AmountsOf[in.leaf] /\ in.leaf \in 1..Len(leaves)
      BY <1>2, <1>3, <2>3
    <3> QED
      BY <1>1, <3>1
  <2> QED
    BY <2>2, <2>3
<1>6. in1.leaf = in2.leaf => in1.leaf = 0
  BY DEF Accepts, Provable, InputsDiffer
<1>7. SumOf({in1.leaf, in2.leaf} \ {0}, AmountsOf)
        = InputAmount(tree, in1) + InputAmount(tree, in2)
  <2>1. CASE in1.leaf = 0 /\ in2.leaf = 0
    <3>1. {in1.leaf, in2.leaf} \ {0} = {}
      BY <2>1
    <3>2. SumOf({}, AmountsOf) = 0
      BY SumEmpty
    <3> QED
      BY <2>1, <3>1, <3>2 DEF InputAmount
  <2>2. CASE in1.leaf # 0 /\ in2.leaf = 0
    <3>1. {in1.leaf, in2.leaf} \ {0} = {in1.leaf}
      BY <2>2
    <3>2. AmountsOf[in1.leaf] \in Nat
      BY <2>2, <1>1, <1>2
    <3>3. SumOf({in1.leaf}, AmountsOf) = AmountsOf[in1.leaf]
      BY <3>2, SumSingleton
    <3>4. InputAmount(tree, in1) = AmountsOf[in1.leaf] /\ InputAmount(tree, in2) = 0
      BY <2>2, <1>3 DEF InputAmount
    <3>5. InputAmount(tree, in1) + InputAmount(tree, in2) = AmountsOf[in1.leaf]
      BY <3>2, <3>4
    <3> QED
      BY <3>1, <3>3, <3>5
  <2>3. CASE in1.leaf = 0 /\ in2.leaf # 0
    <3>1. {in1.leaf, in2.leaf} \ {0} = {in2.leaf}
      BY <2>3
    <3>2. AmountsOf[in2.leaf] \in Nat
      BY <2>3, <1>1, <1>2
    <3>3. SumOf({in2.leaf}, AmountsOf) = AmountsOf[in2.leaf]
      BY <3>2, SumSingleton
    <3>4. InputAmount(tree, in2) = AmountsOf[in2.leaf] /\ InputAmount(tree, in1) = 0
      BY <2>3, <1>3 DEF InputAmount
    <3>5. InputAmount(tree, in1) + InputAmount(tree, in2) = AmountsOf[in2.leaf]
      BY <3>2, <3>4
    <3> QED
      BY <3>1, <3>3, <3>5
  <2>4. CASE in1.leaf # 0 /\ in2.leaf # 0
    <3>1. {in1.leaf, in2.leaf} \ {0} = {in1.leaf, in2.leaf}
      BY <2>4
    <3>2. AmountsOf[in1.leaf] \in Nat /\ AmountsOf[in2.leaf] \in Nat
      BY <2>4, <1>1, <1>2
    <3>3. SumOf({in1.leaf, in2.leaf}, AmountsOf)
            = AmountsOf[in1.leaf] + AmountsOf[in2.leaf]
      BY <3>2, <1>6, <2>4, SumPair
    <3>4. /\ InputAmount(tree, in1) = AmountsOf[in1.leaf]
          /\ InputAmount(tree, in2) = AmountsOf[in2.leaf]
      BY <2>4, <1>3
    <3> QED
      BY <3>1, <3>3, <3>4
  <2> QED
    BY <2>1, <2>2, <2>3, <2>4
<1> QED
  BY <1>3, <1>5, <1>7

LEMMA TransactBacked ==
    ASSUME TypeOK, Backed, NEW tree, NEW allowed, NEW denied,
           NEW in1 \in Inputs, NEW in2 \in Inputs,
           NEW out1 \in Notes, NEW out2 \in Notes, NEW ext \in Int,
           NEW toPool \in BOOLEAN,
           Transact(tree, allowed, denied, in1, in2, out1, out2, ext, toPool)
    PROVE  Backed'
<1> DEFINE n     == Len(leaves)
           spent == {in1.leaf, in2.leaf} \ {0}
           kept  == Unspent \ spent
           made  == {n + 1, n + 2}
           A     == AmountsOf
           B     == AmountsOf'
           ins   == InputAmount(tree, in1) + InputAmount(tree, in2)
           outs  == out1.amount + out2.amount
<1>1. Accepts(tree, allowed, denied, in1, in2, out1, out2, ext)
  BY DEF Transact
<1>2. InRange(out1) /\ InRange(out2) /\ HasRoom /\ ExtInRange(ext)
  BY <1>1 DEF Accepts, Provable
<1>3. /\ leaves' \in Seq([amount : 0..(MaxAmount - 1), key : Keys])
      /\ Len(leaves') = n + 2
      /\ \A i \in 1..n : leaves'[i] = leaves[i]
      /\ leaves'[n + 1] = out1
      /\ leaves'[n + 2] = out2
  BY <1>2, LeavesAfter DEF Transact
<1>4. n \in Nat
  BY DEF TypeOK
<1>5. \A i \in 1..n : A[i] = B[i] /\ A[i] \in Nat
  <2>1. TAKE i \in 1..n
  <2>2. leaves[i] \in [amount : 0..(MaxAmount - 1), key : Keys]
    BY ElementType, Zenon DEF TypeOK
  <2>3. leaves[i].amount \in 0..(MaxAmount - 1)
    BY <2>2, AmountType, Zenon
  <2>4. i \in 1..Len(leaves')
    BY <1>3, <1>4
  <2> QED
    BY <1>3, <2>3, <2>4 DEF AmountsOf
<1>6. B[n + 1] = out1.amount /\ B[n + 2] = out2.amount
  BY <1>3, <1>4 DEF AmountsOf
<1>7. out1.amount \in 0..(MaxAmount - 1) /\ out2.amount \in 0..(MaxAmount - 1)
  BY <1>2, NoteType
<1>8. spent \subseteq Unspent /\ SumOf(spent, A) = ins
  BY <1>1, SpentInputs
<1>9. ins \in 0..(2 * (MaxAmount - 1)) /\ outs \in 0..(2 * (MaxAmount - 1))
  <2>1. /\ InputAmount(tree, in1) \in 0..(MaxAmount - 1)
        /\ InputAmount(tree, in2) \in 0..(MaxAmount - 1)
    BY <1>1, SpentInputs
  <2> QED
    BY <2>1, <1>7
<1>10. ins + ext = outs
  <2>1. (ins + PublicAmount(ext)) % Field = outs % Field
    BY <1>1 DEF Accepts, Provable
  <2> HIDE DEF ins, outs
  <2> QED
    BY <2>1, <1>2, <1>9, NoWrap
<1>11. Unspent' = kept \cup made
  <2>1. nullifiers' = nullifiers \cup spent
    BY DEF Transact
  <2>2. 1..Len(leaves') = (1..n) \cup made
    BY <1>3, <1>4
  <2>3. nullifiers' \cap made = {}
    BY <2>1, <1>4, <1>8 DEF TypeOK, Unspent
  <2> QED
    BY <2>1, <2>2, <2>3 DEF Unspent
<1>12. Unspent \subseteq 1..n /\ IsFiniteSet(Unspent)
  <2>1. IsFiniteSet(1..n)
    BY <1>4, FS_Interval
  <2> QED
    BY <2>1, FS_Subset DEF Unspent
<1>13. IsFiniteSet(kept) /\ IsFiniteSet(spent) /\ IsFiniteSet(made)
  <2>1. kept \subseteq Unspent
    OBVIOUS
  <2>2. made \subseteq 1..(n + 2)
    BY <1>4
  <2>3. IsFiniteSet(1..(n + 2))
    BY <1>4, FS_Interval
  <2> QED
    BY <1>8, <1>12, <2>1, <2>2, <2>3, FS_Subset
<1>14. SumOf(Unspent, A) = SumOf(kept, A) + ins
  <2>1. Unspent = kept \cup spent /\ kept \cap spent = {}
    BY <1>8
  <2>2. \A x \in kept \cup spent : A[x] \in Nat
    BY <1>5, <1>12, <2>1
  <2> HIDE DEF kept, spent, A, ins
  <2> QED
    BY <1>8, <1>13, <2>1, <2>2, SumDisjoint
<1>15. SumOf(kept, A) = SumOf(kept, B)
  <2>1. \A x \in kept : A[x] = B[x]
    BY <1>5, <1>12
  <2> HIDE DEF kept, A, B
  <2> QED
    BY <2>1, SumCongruent
<1>16. SumOf(made, B) = outs
  <2>1. n + 1 # n + 2 /\ B[n + 1] \in Nat /\ B[n + 2] \in Nat
    BY <1>4, <1>6, <1>7
  <2>2. SumOf(made, B) = B[n + 1] + B[n + 2]
    BY <2>1, SumPair, Zenon
  <2> QED
    BY <2>2, <1>6
<1>17. SumOf(kept \cup made, B) = SumOf(kept, B) + outs
  <2>1. kept \cap made = {}
    BY <1>4, <1>12
  <2>2. \A x \in kept \cup made : B[x] \in Nat
    BY <1>5, <1>6, <1>7, <1>12
  <2> HIDE DEF kept, made, B, outs
  <2> QED
    BY <1>13, <1>16, <2>1, <2>2, SumDisjoint
<1>18. SumOf(kept, A) \in Nat
  <2>1. [x \in kept |-> A[x]] \in [kept -> Nat]
    BY <1>5, <1>12
  <2>2. SumOf(kept, A) = SumOf(kept, [x \in kept |-> A[x]])
    BY SumCongruent
  <2> HIDE DEF kept, A
  <2> QED
    BY <1>13, <2>1, <2>2, SumNat
<1>19. balance' \in Int /\ balance' >= balance + ext /\ balance >= SumOf(Unspent, A)
  BY DEF Transact, Backed, TypeOK
<1>20. balance' >= SumOf(Unspent', B)
  <2>1. balance \in Nat
    BY DEF TypeOK
  <2> HIDE DEF kept, made, A, B, ins, outs
  <2> QED
    BY <2>1, <1>9, <1>10, <1>11, <1>14, <1>15, <1>17, <1>18, <1>19
<1> QED
  BY <1>20 DEF Backed

LEMMA PolicyBacked ==
    ASSUME Backed, UNCHANGED money
    PROVE  Backed'
BY DEF Backed, money, Unspent, AmountsOf

LEMMA StepBacked ==
    TypeOK /\ Backed /\ [Next]_vars => TypeOK' /\ Backed'
<1> SUFFICES ASSUME TypeOK, Backed, [Next]_vars
             PROVE  TypeOK' /\ Backed'
  OBVIOUS
<1>1. CASE Transacting
  <2>1. PICK tree \in Trees, allowed \in SUBSET Keys, denied \in SUBSET Keys,
             in1 \in Inputs, in2 \in Inputs, out1 \in Notes, out2 \in Notes,
             ext \in -MaxExt..MaxExt, toPool \in BOOLEAN :
             Transact(tree, allowed, denied, in1, in2, out1, out2, ext, toPool)
    BY <1>1 DEF Transacting
  <2> QED
    BY <2>1, TransactType, TransactBacked
<1>2. CASE \E key \in Keys : AddMember(key) \/ Block(key) \/ Unblock(key)
  <2>1. PICK key \in Keys : AddMember(key) \/ Block(key) \/ Unblock(key)
    BY <1>2
  <2>2. UNCHANGED money
    BY <2>1 DEF AddMember, Block, Unblock
  <2> QED
    BY <2>1, <2>2, PolicyType, PolicyBacked
<1>3. CASE \E other \in SUBSET Keys :
             UpdateAspMembership(other) \/ UpdateAspNonMembership(other)
  <2>1. PICK other \in SUBSET Keys :
             UpdateAspMembership(other) \/ UpdateAspNonMembership(other)
    BY <1>3
  <2>2. UNCHANGED money
    BY <2>1 DEF UpdateAspMembership, UpdateAspNonMembership
  <2>3. TypeOK'
    BY <2>1 DEF TypeOK, UpdateAspMembership, UpdateAspNonMembership, money
  <2> QED
    BY <2>2, <2>3, PolicyBacked
<1>4. CASE UNCHANGED vars
  BY <1>4 DEF vars, TypeOK, Backed, Unspent, AmountsOf
<1> QED
  BY <1>1, <1>2, <1>3, <1>4 DEF Next

LEMMA InitBacked ==
    Init => TypeOK /\ Backed
<1> SUFFICES ASSUME Init
             PROVE  TypeOK /\ Backed
  OBVIOUS
<1>1. TypeOK
  BY DEF Init, TypeOK
<1>2. Unspent = {}
  BY DEF Init, Unspent
<1> QED
  BY <1>1, <1>2, SumEmpty DEF Init, Backed

\* The pool's types: also that a spent note is one of its own and that the tree
\* is never overfilled (mark_spent, insert_two_leaves).
THEOREM PoolTypeOK == Spec => []TypeOK
BY InitBacked, StepBacked, PTL DEF Spec

\* The pool holds at least the sum of its unspent notes after any calls of transact.
THEOREM PoolBacked == Spec => []Backed
BY InitBacked, StepBacked, PTL DEF Spec

\* A note is spent only while its key is approved (internal_transact's check of
\* the policy roots).
THEOREM PoolOnlyApprovedSpend == Spec => OnlyApprovedSpend
<1>1. TypeOK /\ [Next]_vars =>
        [\A i \in nullifiers' \ nullifiers :
            Approved(leaves[i].key, members, blocked)]_vars
  <2> SUFFICES ASSUME TypeOK, Next, NEW i \in nullifiers' \ nullifiers
               PROVE  Approved(leaves[i].key, members, blocked)
    BY DEF vars
  <2>1. Transacting
    BY DEF Next, AddMember, Block, Unblock, UpdateAspMembership,
           UpdateAspNonMembership, money
  <2>2. PICK tree \in Trees, allowed \in SUBSET Keys, denied \in SUBSET Keys,
             in1 \in Inputs, in2 \in Inputs, out1 \in Notes, out2 \in Notes,
             ext \in -MaxExt..MaxExt, toPool \in BOOLEAN :
             Transact(tree, allowed, denied, in1, in2, out1, out2, ext, toPool)
    BY <2>1 DEF Transacting
  <2>3. Accepts(tree, allowed, denied, in1, in2, out1, out2, ext)
    BY <2>2 DEF Transact
  <2>4. PICK in \in {in1, in2} : i = in.leaf /\ in.leaf # 0
    BY <2>2 DEF Transact
  <2>5. leaves[i].key = in.key
    <3>1. \A x \in {in1, in2} : x.leaf # 0 => leaves[x.leaf].key = x.key
      BY <2>3, KnownTree DEF Accepts, Provable, OwnsInput, Inputs
    <3> QED
      BY <2>4, <3>1
  <2>6. Approved(in.key, allowed, denied) /\ allowed = members /\ denied = blocked
    BY <2>3 DEF Accepts, Provable, IsCurrentPolicy
  <2> QED
    BY <2>5, <2>6
<1> QED
  BY <1>1, InitBacked, StepBacked, PTL DEF Spec, OnlyApprovedSpend

\* An amount of a finite sum is at most the sum.
LEMMA SumAtLeast ==
    ASSUME NEW S, IsFiniteSet(S), NEW x \in S, NEW f,
           \A y \in S : f[y] \in Nat
    PROVE  SumOf(S, f) \in Nat /\ f[x] <= SumOf(S, f)
<1> DEFINE R == S \ {x}
<1>1. IsFiniteSet(R) /\ IsFiniteSet({x})
  BY FS_Subset, FS_Singleton
<1>2. S = R \cup {x} /\ R \cap {x} = {}
  OBVIOUS
<1>3. SumOf({x}, f) = f[x]
  BY SumSingleton
<1>4. SumOf(R, f) \in Nat
  <2>1. [y \in R |-> f[y]] \in [R -> Nat]
    OBVIOUS
  <2> DEFINE g == [y \in R |-> f[y]]
  <2>2. \A y \in R : f[y] = g[y]
    OBVIOUS
  <2> HIDE DEF R, g
  <2>3. SumOf(R, f) = SumOf(R, g)
    BY <2>2, SumCongruent
  <2> QED
    BY <1>1, <2>1, <2>3, SumNat DEF g
<1>5. SumOf(S, f) = SumOf(R, f) + SumOf({x}, f)
  <2> HIDE DEF R
  <2> QED
    BY <1>1, <1>2, SumDisjoint
<1> QED
  BY <1>3, <1>4, <1>5

\* Nothing another user does keeps the holder of a note from withdrawing it
\* while the tree has room.
THEOREM PoolOwnersCanWithdraw == Spec => []OwnersCanWithdraw
<1>1. TypeOK /\ Backed => OwnersCanWithdraw
  <2> SUFFICES ASSUME TypeOK, Backed, HasRoom, NEW i \in Unspent,
                      Approved(leaves[i].key, members, blocked)
               PROVE  Withdrawal(i)
    BY DEF OwnersCanWithdraw
  <2> DEFINE a     == leaves[i].amount
             in    == [key |-> leaves[i].key, leaf |-> i]
             empty == [key |-> leaves[i].key, leaf |-> 0]
             out   == [key |-> leaves[i].key, amount |-> 0]
  <2>1. i \in 1..Len(leaves) /\ i \notin nullifiers
    BY DEF Unspent
  <2>2. a \in 0..(MaxAmount - 1)
    <3>1. leaves[i] \in [amount : 0..(MaxAmount - 1), key : Keys]
      BY <2>1, ElementType, Zenon DEF TypeOK
    <3> QED
      BY <3>1, AmountType, Zenon
  <2>3. a <= balance
    <3>1. IsFiniteSet(Unspent)
      <4>0. Len(leaves) \in Nat
        BY DEF TypeOK
      <4>1. IsFiniteSet(1..Len(leaves))
        BY <4>0, FS_Interval
      <4> QED
        BY <4>1, FS_Subset DEF Unspent
    <3>2. \A y \in Unspent : AmountsOf[y] \in Nat
      <4>1. TAKE y \in Unspent
      <4>2. y \in 1..Len(leaves)
        BY DEF Unspent
      <4>3. leaves[y] \in [amount : 0..(MaxAmount - 1), key : Keys]
        BY <4>2, ElementType, Zenon DEF TypeOK
      <4>4. leaves[y].amount \in 0..(MaxAmount - 1)
        BY <4>3, AmountType, Zenon
      <4> QED
        BY <4>2, <4>4 DEF AmountsOf
    <3>3. /\ SumOf(Unspent, AmountsOf) \in Nat
          /\ AmountsOf[i] <= SumOf(Unspent, AmountsOf)
      BY <3>1, <3>2, SumAtLeast
    <3>4. AmountsOf[i] = a
      BY <2>1 DEF AmountsOf
    <3>5. balance \in Nat
      BY DEF TypeOK
    <3> HIDE DEF a
    <3> QED
      BY <2>2, <3>3, <3>4, <3>5 DEF Backed
  <2>4. IsKnownRoot(leaves)
    <3>1. leaves = SubSeq(leaves, 1, Len(leaves) - 2 * 0)
      BY DEF TypeOK
    <3>2. 0 \in 0..(RootHistorySize - 1) /\ 2 * 0 <= Len(leaves)
      BY DEF TypeOK
    <3> QED
      BY <3>1, <3>2 DEF IsKnownRoot
  <2>5. (a + 0 + PublicAmount(-a)) % Field = (0 + 0) % Field
    <3>1. \A x \in Nat : x < Field => x % Field = x
      OBVIOUS
    <3>2. Field % Field = 0 /\ Field > 0
      BY <2>2
    <3>3. CASE a = 0
      BY <3>1, <3>2, <3>3 DEF PublicAmount
    <3>4. CASE a # 0
      <4>1. PublicAmount(-a) = Field - a
        <5>1. ~(-a >= 0)
          BY <2>2, <3>4
        <5> QED
          BY <2>2, <5>1 DEF PublicAmount
      <4>2. a + 0 + PublicAmount(-a) = Field
        BY <2>2, <4>1
      <4> QED
        BY <3>1, <3>2, <4>2
    <3> QED
      BY <3>3, <3>4
  <2>6. Provable(leaves, members, blocked, in, empty, out, out, PublicAmount(-a))
    BY <2>1, <2>2, <2>5
       DEF Provable, InputsDiffer, InRange, InputAmount, OwnsInput
  <2>7. ~IsSpent(in) /\ ~IsSpent(empty)
    BY <2>1 DEF IsSpent, TypeOK
  <2>8. /\ -a > 0 => -a <= MaximumDeposit
        /\ ExtInRange(-a)
        /\ balance + (-a) >= 0
    BY <2>2, <2>3 DEF ExtInRange, TypeOK
  <2>9. Accepts(leaves, members, blocked, in, empty, out, out, -a)
    BY <2>4, <2>6, <2>7, <2>8 DEF Accepts, IsCurrentPolicy
  <2> QED
    BY <2>9 DEF Withdrawal
<1> QED
  BY <1>1, InitBacked, StepBacked, PTL DEF Spec
=============================================================================
