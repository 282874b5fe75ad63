-------------------------- MODULE IncrementalTree --------------------------
(***************************************************************************)
(* The append-only Merkle tree that the pool (merkle_with_history.rs) and  *)
(* the membership contract (asp-membership) keep.  Of the tree they store  *)
(* one hash a level: the last left sibling on the path of an inserted      *)
(* leaf.  The compression function is taken to be injective: a pair.       *)
(***************************************************************************)
EXTENDS Naturals, Sequences

CONSTANTS
    Levels,        \* 10 in the deployed circuits
    ZeroLeaf       \* the leaf of an unused slot

ASSUME LevelsAssumption == Levels \in 1..32

\* 1 << levels
Width[l \in 0..Levels] == IF l = 0 THEN 1 ELSE 2 * Width[l - 1]
Capacity == Width[Levels]

Compress(left, right) == <<left, right>>

Zeroes[l \in 0..Levels] ==
    IF l = 0 THEN ZeroLeaf ELSE Compress(Zeroes[l - 1], Zeroes[l - 1])

\* current_index >>= 1 at every level: the nodes above leaf `index`.
Above(index) ==
    LET above[l \in 0..Levels] == IF l = 0 THEN index ELSE above[l - 1] \div 2
    IN  above

\* Whether the node above leaf `index` is a right child at level l.
IsRightMutant(index, l) == l = 0 /\ index % 2 = 1
IsRight(index, l) == Above(index)[l] % 2 = 1

\* The hashes on the path from a node at level `first` to the root.
PathHashes(filled, index, first, hash) ==
    LET up[l \in first..Levels] ==
            IF l = first THEN hash
            ELSE IF IsRight(index, l - 1)
                 THEN Compress(filled[l - 1], up[l - 1])
                 ELSE Compress(up[l - 1], Zeroes[l - 1])
    IN  up

\* The left children among them are kept for the leaves to come.
FilledAfter(filled, index, first, up) ==
    [l \in 0..Levels |-> IF l \in first..(Levels - 1) /\ ~IsRight(index, l)
                         THEN up[l] ELSE filled[l]]

-----------------------------------------------------------------------------
(* The reference: the full tree over a sequence of leaves.                 *)

Node(leaves) ==
    LET node[l \in 0..Levels] ==
            [i \in Nat |->
                IF l = 0
                THEN IF i < Len(leaves) THEN leaves[i + 1] ELSE ZeroLeaf
                ELSE Compress(node[l - 1][2 * i], node[l - 1][2 * i + 1])]
    IN  node

RootOf(leaves) == Node(leaves)[Levels][0]
=============================================================================
