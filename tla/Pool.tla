-------------------------------- MODULE Pool --------------------------------
(***************************************************************************)
(* The privacy pool (contracts/pool/src/pool.rs) with the statement of its *)
(* circuit (policyTransaction.circom) and the two policy contracts: notes  *)
(* are deposited, joined, split, passed on and withdrawn by transactions   *)
(* of two inputs and two outputs.                                          *)
(*                                                                         *)
(* A root is the tree it commits to, so a proof may be about any tree and  *)
(* any policy, and it is the contract that accepts only its own.  The tree *)
(* of the first n commitments is known while its root is in the history    *)
(* (module PoolTree).  A nullifier is the index of its note's commitment,  *)
(* of which it is a hash; inputs of amount 0 have fresh blindings, so      *)
(* their nullifiers are fresh and are not kept here.                       *)
(***************************************************************************)
EXTENDS Integers, Sequences, Amounts

CONSTANTS
    Keys,              \* note keys
    NoteAmounts,       \* amounts a prover may put into outputs
    MaxAmount,         \* 2^248: max_ext_amount, and the circuit's range check
    Field,             \* BN254 modulus
    MaxExt,            \* bound on what is paid in (positive) or out (negative)
    MaximumDeposit,    \* DataKey::MaximumDepositAmount
    RootHistorySize,   \* ROOT_HISTORY_SIZE = 90
    Capacity           \* 2^levels leaves

ASSUME PoolAssumption ==
    /\ NoteAmounts \subseteq 0..(Field - 1)
    /\ MaxAmount \in Nat /\ Field \in Nat /\ 3 * MaxAmount <= Field
    /\ MaxExt \in Nat
    /\ MaximumDeposit \in Nat
    /\ RootHistorySize \in Nat \ {0}
    /\ Capacity \in Nat /\ Capacity % 2 = 0

VARIABLES
    leaves,            \* the commitments, as the notes they commit to
    nullifiers,        \* DataKey::Nullifiers
    balance,           \* what the pool holds in the token contract
    members,           \* keys in the tree of the membership contract
    blocked            \* keys in the tree of the non-membership contract

money  == <<leaves, nullifiers, balance>>
policy == <<members, blocked>>
vars   == <<leaves, nullifiers, balance, members, blocked>>

Notes == [amount : NoteAmounts, key : Keys]

\* An input names its note by the leaf it is at, or is empty (leaf 0).
Inputs == [key : Keys, leaf : 0..Capacity]

TypeOK ==
    /\ leaves \in Seq([amount : 0..(MaxAmount - 1), key : Keys])
    /\ Len(leaves) <= Capacity /\ Len(leaves) % 2 = 0
    /\ nullifiers \subseteq 1..Len(leaves)
    /\ balance \in Nat
    /\ members \subseteq Keys
    /\ blocked \subseteq Keys

Init ==
    /\ leaves = << >>
    /\ nullifiers = {}
    /\ balance = 0
    /\ members = {}
    /\ blocked = {}

-----------------------------------------------------------------------------
(* What the circuit lets a prover prove.                                   *)

InputAmount(tree, in) == IF in.leaf = 0 THEN 0 ELSE tree[in.leaf].amount

OwnsInput(tree, in) ==
    in.leaf # 0 => in.leaf <= Len(tree) /\ tree[in.leaf].key = in.key

\* sameNullifiers
InputsDifferMutant(in1, in2) == TRUE
InputsDiffer(in1, in2) == in1.leaf = in2.leaf => in1.leaf = 0

InRangeMutant(out) == TRUE
InRange(out) == out.amount < MaxAmount

Approved(key, allowed, denied) == key \in allowed /\ key \notin denied

Provable(tree, allowed, denied, in1, in2, out1, out2, publicAmount) ==
    /\ InputsDiffer(in1, in2)
    /\ InRange(out1) /\ InRange(out2)
    /\ (InputAmount(tree, in1) + InputAmount(tree, in2) + publicAmount) % Field
         = (out1.amount + out2.amount) % Field
    /\ OwnsInput(tree, in1) /\ OwnsInput(tree, in2)
    /\ Approved(in1.key, allowed, denied) /\ Approved(in2.key, allowed, denied)

-----------------------------------------------------------------------------
(* What the contract checks.                                               *)

\* is_known_root
IsKnownRootMutant(tree) == TRUE
IsKnownRoot(tree) ==
    \E age \in 0..(RootHistorySize - 1) :
        /\ 2 * age <= Len(leaves)
        /\ tree = SubSeq(leaves, 1, Len(leaves) - 2 * age)

\* The roots in the proof are the policy contracts' roots of now.
IsCurrentPolicyMutant(allowed, denied) == allowed = members
IsCurrentPolicy(allowed, denied) == allowed = members /\ denied = blocked

\* calculate_public_amount
PublicAmount(ext) == IF ext >= 0 THEN ext ELSE Field + ext
ExtInRange(ext)   == -MaxAmount < ext /\ ext < MaxAmount

IsSpentMutant(in) == FALSE
IsSpent(in) == in.leaf \in nullifiers

HasRoomMutant == TRUE
HasRoom == Len(leaves) + 2 <= Capacity

Accepts(tree, allowed, denied, in1, in2, out1, out2, ext) ==
    /\ HasRoom
    /\ ext > 0 => ext <= MaximumDeposit
    /\ ExtInRange(ext)
    /\ balance + ext >= 0
    /\ ~IsSpent(in1) /\ ~IsSpent(in2)
    /\ Provable(tree, allowed, denied, in1, in2, out1, out2, PublicAmount(ext))
    /\ IsCurrentPolicy(allowed, denied)
    /\ IsKnownRoot(tree)

\* A withdrawal whose recipient is the pool itself moves nothing.
Transact(tree, allowed, denied, in1, in2, out1, out2, ext, toPool) ==
    /\ Accepts(tree, allowed, denied, in1, in2, out1, out2, ext)
    /\ nullifiers' = nullifiers \cup ({in1.leaf, in2.leaf} \ {0})
    /\ balance' = IF ext < 0 /\ toPool THEN balance ELSE balance + ext
    /\ leaves' = leaves \o <<out1, out2>>
    /\ UNCHANGED policy

-----------------------------------------------------------------------------
(* The administrators of the policy contracts, and of the pool, who may    *)
(* have it follow other policy contracts.                                  *)

AddMember(key) ==
    /\ members' = members \cup {key}
    /\ UNCHANGED <<money, blocked>>

Block(key) ==
    /\ key \notin blocked
    /\ blocked' = blocked \cup {key}
    /\ UNCHANGED <<money, members>>

Unblock(key) ==
    /\ key \in blocked
    /\ blocked' = blocked \ {key}
    /\ UNCHANGED <<money, members>>

UpdateAspMembership(other) ==
    /\ members' = other
    /\ UNCHANGED <<money, blocked>>

UpdateAspNonMembership(other) ==
    /\ blocked' = other
    /\ UNCHANGED <<money, members>>

\* Trees a proof may be about: the pool's at any time, or one made up.
Trees == {SubSeq(leaves, 1, n) : n \in 0..Len(leaves)} \cup {<<note>> : note \in Notes}

Transacting ==
    \E tree \in {t \in Trees : IsKnownRoot(t)},
       allowed \in SUBSET Keys, denied \in SUBSET Keys :
        /\ HasRoom /\ IsCurrentPolicy(allowed, denied)
        /\ \E in1, in2 \in {in \in Inputs : OwnsInput(tree, in) /\ ~IsSpent(in)},
              out1, out2 \in Notes, ext \in -MaxExt..MaxExt :
               /\ Accepts(tree, allowed, denied, in1, in2, out1, out2, ext)
               /\ \E toPool \in BOOLEAN :
                      Transact(tree, allowed, denied, in1, in2, out1, out2, ext, toPool)

Next ==
    \/ Transacting
    \/ \E key \in Keys : AddMember(key) \/ Block(key) \/ Unblock(key)
    \/ \E other \in SUBSET Keys :
           UpdateAspMembership(other) \/ UpdateAspNonMembership(other)

Spec == Init /\ [][Next]_vars

-----------------------------------------------------------------------------

Unspent   == (1..Len(leaves)) \ nullifiers
AmountsOf == [i \in 1..Len(leaves) |-> leaves[i].amount]

\* The pool holds at least the sum of the unspent notes: no sequence of
\* transactions makes money, neither by a note spent twice, in one
\* transaction or in two, nor by amounts that wrap around in the field, nor by a
\* proof about a tree that is not the pool's.
Backed == balance >= SumOf(Unspent, AmountsOf)

\* A note is spent only by a key that is approved and not blocked at that time,
\* whatever policy its proof was made against.
OnlyApprovedSpend ==
    [][\A i \in nullifiers' \ nullifiers :
          Approved(leaves[i].key, members, blocked)]_vars

\* The withdrawal of one note, with the rest of the transaction empty.
Withdrawal(i) ==
    LET note  == leaves[i]
        in    == [key |-> note.key, leaf |-> i]
        empty == [key |-> note.key, leaf |-> 0]
        out   == [key |-> note.key, amount |-> 0]
    IN  Accepts(leaves, members, blocked, in, empty, out, out, -note.amount)

\* Whoever holds an unspent note and is approved can withdraw it in full,
\* whatever the other users have done, while the tree has room.
OwnersCanWithdraw ==
    HasRoom => \A i \in Unspent :
                  Approved(leaves[i].key, members, blocked) => Withdrawal(i)
=============================================================================
