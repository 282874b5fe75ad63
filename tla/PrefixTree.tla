----------------------------- MODULE PrefixTree -----------------------------
(***************************************************************************)
(* The trees that proofs are made from: MerklePrefixTree of the prover     *)
(* (app/crates/core/prover/src/merkle.rs), which stores the nodes over the *)
(* leaves there are and takes all others from one empty node a level; the  *)
(* full tree of circuits/src/core/merkle.rs; and the circuit that climbs   *)
(* the path (circuits/src/merkleProof.circom).                             *)
(***************************************************************************)
EXTENDS IncrementalTree

\* `empty` of MerklePrefixTree::new
Empty[l \in 0..Levels] ==
    IF l = 0 THEN ZeroLeaf ELSE Compress(Empty[l - 1], Empty[l - 1])

NextLevelMutant(nodes, l) ==
    LET here == IF nodes = << >> THEN <<Empty[l]>> ELSE nodes
    IN  [i \in 1..((Len(here) + 1) \div 2) |->
            Compress(here[2 * i - 1],
                     IF 2 * i <= Len(here) THEN here[2 * i] ELSE here[2 * i - 1])]
\* The nodes one level up; the last may have no right neighbour.
NextLevel(nodes, l) ==
    LET here == IF nodes = << >> THEN <<Empty[l]>> ELSE nodes
    IN  [i \in 1..((Len(here) + 1) \div 2) |->
            Compress(here[2 * i - 1],
                     IF 2 * i <= Len(here) THEN here[2 * i] ELSE Empty[l])]

\* build_from_parts
Built(prefix) ==
    LET levels[l \in 0..Levels] ==
            IF l = 0 THEN prefix ELSE NextLevel(levels[l - 1], l - 1)
    IN  levels

\* The path of leaf `index`: siblings, bits of the index, and the root.
PathIndices(index) == [l \in 1..Levels |-> Above(index)[l - 1] % 2]

Sibling(node) == IF node % 2 = 0 THEN node + 1 ELSE node - 1

Proof(prefix, index) ==
    LET nodes(l)  == Built(prefix)[l]
        beside(l) == Sibling(Above(index)[l]) + 1
    IN  [pathElements |-> [l \in 1..Levels |->
             IF beside(l - 1) <= Len(nodes(l - 1))
             THEN nodes(l - 1)[beside(l - 1)] ELSE Empty[l - 1]],
         pathIndices  |-> PathIndices(index),
         root         |-> Built(prefix)[Levels][1]]

-----------------------------------------------------------------------------
(* The full tree.                                                          *)

Padded(prefix) ==
    [i \in 1..Capacity |-> IF i <= Len(prefix) THEN prefix[i] ELSE ZeroLeaf]

\* Each level of pairs of all 2^Levels leaves.
FullLevels(all) ==
    LET level[l \in 0..Levels] ==
            IF l = 0 THEN all
            ELSE [i \in 1..(Len(level[l - 1]) \div 2) |->
                    Compress(level[l - 1][2 * i - 1], level[l - 1][2 * i])]
    IN  level

MerkleRoot(all) == FullLevels(all)[Levels][1]

MerkleProof(all, index) ==
    [pathElements |-> [l \in 1..Levels |->
         FullLevels(all)[l - 1][Sibling(Above(index)[l - 1]) + 1]],
     pathIndices  |-> PathIndices(index),
     root         |-> MerkleRoot(all)]

-----------------------------------------------------------------------------

CircuitRootMutant(leaf, proof) ==
    LET up[l \in 0..Levels] ==
            IF l = 0 THEN leaf
            ELSE IF proof.pathIndices[Levels + 1 - l] = 1
                 THEN Compress(proof.pathElements[l], up[l - 1])
                 ELSE Compress(up[l - 1], proof.pathElements[l])
    IN  up[Levels]
\* template MerkleProof: a Switcher and a hash a level.
CircuitRoot(leaf, proof) ==
    LET up[l \in 0..Levels] ==
            IF l = 0 THEN leaf
            ELSE IF proof.pathIndices[l] = 1
                 THEN Compress(proof.pathElements[l], up[l - 1])
                 ELSE Compress(up[l - 1], proof.pathElements[l])
    IN  up[Levels]
=============================================================================
