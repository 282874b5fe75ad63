------------------------------ MODULE PoolTree ------------------------------
(***************************************************************************)
(* MerkleTreeWithHistory (contracts/pool/src/merkle_with_history.rs): the  *)
(* pool's commitments with a ring of the last RootHistorySize roots.       *)
(***************************************************************************)
EXTENDS IncrementalTree

CONSTANTS
    Leaves,            \* commitments that may be inserted
    RootHistorySize    \* ROOT_HISTORY_SIZE = 90

\* Nobody knows a note that commits to the leaf of an unused slot.
ASSUME PoolTreeAssumption ==
    /\ RootHistorySize \in Nat \ {0}
    /\ ZeroLeaf \notin Leaves

VARIABLES
    filled, roots, currentRootIndex, nextIndex,   \* MerkleDataKey
    leaves                                        \* everything inserted

historyVars == <<filled, roots, currentRootIndex, nextIndex, leaves>>

Prefix(n) == SubSeq(leaves, 1, n)
Sizes     == {n \in 0..Len(leaves) : n % 2 = 0}

TypeOK ==
    /\ DOMAIN filled = 0..Levels
    /\ DOMAIN roots \subseteq 0..(RootHistorySize - 1)
    /\ currentRootIndex \in 0..(RootHistorySize - 1)
    /\ nextIndex \in {n \in 0..Capacity : n % 2 = 0}
    /\ leaves \in Seq(Leaves) /\ Len(leaves) = nextIndex

HistoryInit ==
    /\ filled = Zeroes
    /\ roots = [i \in {0} |-> Zeroes[Levels]]
    /\ currentRootIndex = 0
    /\ nextIndex = 0
    /\ leaves = << >>

NextRootIndexMutant == (currentRootIndex + 1) % (RootHistorySize - 1)
NextRootIndex == (currentRootIndex + 1) % RootHistorySize

HasRoomMutant == TRUE
HasRoom == nextIndex + 2 <= Capacity

\* The two leaves are hashed first, so the climb begins at level 1.
InsertTwoLeaves(left, right) ==
    LET up == PathHashes(filled, nextIndex, 1, Compress(left, right))
    IN  /\ nextIndex % 2 = 0
        /\ HasRoom
        /\ filled' = FilledAfter(filled, nextIndex, 1, up)
        /\ roots' = [i \in DOMAIN roots \cup {NextRootIndex} |->
                        IF i = NextRootIndex THEN up[Levels] ELSE roots[i]]
        /\ currentRootIndex' = NextRootIndex
        /\ nextIndex' = nextIndex + 2
        /\ leaves' = leaves \o <<left, right>>

InsertNext == \E left, right \in Leaves : InsertTwoLeaves(left, right)

\* is_known_root, for the root of the first n leaves.
IsKnownRoot(root) == \E i \in DOMAIN roots : roots[i] = root

LastRoot == roots[currentRootIndex]

-----------------------------------------------------------------------------

\* get_root is the root of the full tree over all commitments, although
\* insert_two_leaves reads one stored hash a level: the tree the app rebuilds
\* from the events has the root the contract has.
LastRootIsTreeRoot == LastRoot = RootOf(leaves)

\* is_known_root accepts the roots after the last RootHistorySize - 1 inserts
\* and the one before them, and no others: a proof has that many transactions
\* of other users to be submitted in, and an older one is refused.
KnownRootsAreRecent ==
    \A n \in Sizes :
        IsKnownRoot(RootOf(Prefix(n)))
            <=> (Len(leaves) - n) \div 2 < RootHistorySize
=============================================================================
