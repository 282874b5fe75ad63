------------------------------ MODULE MCTrees ------------------------------
(* The three trees a transaction's proof is about: the pool's commitments, *)
(* the approved keys and the blocked keys.  No contract reads another's    *)
(* tree, so a behaviour moves one of them and leaves the others empty.     *)
(* The app's trees over the same leaves and the two other sparse trees of  *)
(* the repository are checked along with them.                             *)
EXTENDS PoolTree, TLC

CONSTANTS
    MemberLeaves, Callers,
    KeyBits, Keys, Values, SmtLevels,
    LibraryValues, MaxUpdates

VARIABLES
    admin, adminInsertOnly, memberFilled, memberNext, memberRoot, added,
    blockedRoot, nodes, blocked,
    owner, sparseRoot, db, content, updates

memberVars  == <<admin, adminInsertOnly, memberFilled, memberNext, memberRoot, added>>
blockedVars == <<blockedRoot, nodes, blocked>>
sparseVars  == <<owner, sparseRoot, db, content, updates>>

Membership == INSTANCE AspMembership WITH
    Leaves <- MemberLeaves,
    filled <- memberFilled, nextIndex <- memberNext, root <- memberRoot

NonMembership == INSTANCE AspNonMembership WITH root <- blockedRoot

ASSUME KeysAssumption ==
    /\ KeyBits \in Nat
    /\ Keys \subseteq NonMembership!AllKeys
    /\ SmtLevels \in Nat \ {0}

AppTree == INSTANCE PrefixTree

Sparse == INSTANCE SparseTrees WITH root <- sparseRoot, Values <- LibraryValues

TreesInit == HistoryInit /\ Membership!Init /\ NonMembership!Init /\ Sparse!SparseInit

PoolUntouched    == leaves = << >>
MembersUntouched == added = << >> /\ adminInsertOnly
BlockedUntouched == nodes = {}
SparseUntouched  == db = {} /\ owner = "prover"

TreesNext ==
    \/ MembersUntouched /\ BlockedUntouched /\ SparseUntouched
       /\ InsertNext /\ UNCHANGED <<memberVars, blockedVars, sparseVars>>
    \/ PoolUntouched /\ BlockedUntouched /\ SparseUntouched
       /\ Membership!Next /\ UNCHANGED <<historyVars, blockedVars, sparseVars>>
    \/ PoolUntouched /\ MembersUntouched /\ SparseUntouched
       /\ NonMembership!Next /\ UNCHANGED <<historyVars, memberVars, sparseVars>>
    \/ PoolUntouched /\ MembersUntouched /\ BlockedUntouched
       /\ Sparse!SparseNext /\ UNCHANGED <<historyVars, memberVars, blockedVars>>

\* Leaves and callers are only compared.
TreesSymmetry ==
    Permutations(Leaves) \cup Permutations(MemberLeaves) \cup Permutations(Callers)

TreesSpec == TreesInit /\ [][TreesNext]_<<historyVars, memberVars, blockedVars, sparseVars>>

\* The proof of leaf `index` that the prover makes over these leaves.
PathVerifies(prefix, index, root) ==
    LET proof == AppTree!Proof(prefix, index)
    IN  /\ proof.root = root
        /\ AppTree!CircuitRoot(prefix[index + 1], proof) = root
        /\ proof = AppTree!MerkleProof(AppTree!Padded(prefix), index)

\* Of every commitment and of every approved key the prover's tree, which stores
\* nothing right of the last leaf, makes the path the full tree has, and the
\* circuit climbs it to the root that the contract computed.
PathsVerify ==
    /\ \A i \in 0..(Len(leaves) - 1) : PathVerifies(leaves, i, LastRoot)
    /\ \A i \in 0..(Len(added) - 1) :
         PathVerifies(Membership!AddedLeaves(Len(added)), i, memberRoot)

\* The pool's root is that of all its commitments, the ring accepts the last
\* roots and no others, replaying the membership contract's events up to any of
\* them rebuilds the tree whose root the event names, and the paths that the
\* app makes lead to those roots.
RootsRebuilt ==
    /\ LastRootIsTreeRoot
    /\ KnownRootsAreRecent
    /\ Membership!EventsRebuildTree
    /\ PathsVerify

\* Whatever insert_leaf and delete_leaf did in whatever order, the root of the
\* blocked keys is that of the keys blocked now, and no node still in use was
\* taken away: no lookup through find_key fails.
BlockedTreeSound == NonMembership!RootIsCanonical /\ NonMembership!NoNodeMissing

\* What find_key answers proves absence to verify_non_membership exactly for
\* absent keys, and to the circuit while the path is shorter than the circuit's;
\* and whatever siblings and old leaf a prover gives, SMTVerifier accepts none of
\* it for a key that is blocked.
AbsenceProvable ==
    /\ NonMembership!AbsentKeysVerify
    /\ NonMembership!UnblockedCanProve
    /\ NonMembership!BlockedCannotProve

\* The prover's and the reference's sparse trees have the contract's root over
\* the same pairs after any inserts, updates and deletes.
SparseTreesSound == Sparse!SparseTreesSound
=============================================================================
