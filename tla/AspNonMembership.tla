-------------------------- MODULE AspNonMembership --------------------------
(***************************************************************************)
(* The non-membership contract (contracts/asp-non-membership/src/lib.rs):  *)
(* a sparse Merkle tree of blocked note keys, all of whose nodes are in    *)
(* the contract's storage under their hashes.  Hashes are taken to be      *)
(* injective: a hash is the node it hashes, <<1, key, value>> for a leaf,  *)
(* <<left, right>> inside and << >> for an empty subtree.                  *)
(***************************************************************************)
EXTENDS Naturals, Sequences, FiniteSetsExt

CONSTANTS
    KeyBits,       \* 256
    Keys,          \* keys that are looked up, inserted or deleted
    Values,        \* values stored with them; 0 is a value like any other
    SmtLevels      \* siblings in a proof of the circuit: SMT_DEPTH = 10

VARIABLES
    root,          \* DataKey::Root
    nodes,         \* hashes h with an entry DataKey::Node(h)
    blocked        \* the key-value pairs inserted and not deleted

vars == <<root, nodes, blocked>>

Zero == << >>
HashLeaf(key, value)      == <<1, key, value>>
HashInternal(left, right) == <<left, right>>
IsLeaf(node)     == Len(node) = 3
IsInternal(node) == Len(node) = 2

\* 2^l, and the keys of KeyBits bits.
Size[l \in 0..KeyBits] == IF l = 0 THEN 1 ELSE 2 * Size[l - 1]
AllKeys == 0..(Size[KeyBits] - 1)

\* split_bits: the least significant bit first.
Bit(key, level) ==
    LET k[l \in 0..KeyBits] == IF l = 0 THEN key ELSE k[l - 1] \div 2
    IN  k[level] % 2

\* Parent of `child` on the path of `key`.
Join(key, level, child, sibling) ==
    IF Bit(key, level) = 1 THEN HashInternal(sibling, child)
                           ELSE HashInternal(child, sibling)

\* The nodes from the root down to `bottom`, past the given siblings.
Climb(key, siblings, bottom) ==
    LET n == Len(siblings)
        up[l \in 0..n] == IF l = n THEN bottom
                          ELSE Join(key, l, up[l + 1], siblings[l + 1])
    IN  up

Level(S) == IF S = {} THEN 0 ELSE Max(S)

\* The number of levels down to the last sibling that is not empty.
LastSibling(siblings) == Level({l \in DOMAIN siblings : siblings[l] # Zero})

TypeOK ==
    /\ blocked \in UNION {[S -> Values] : S \in SUBSET Keys}
    /\ \A node \in nodes : IsLeaf(node) \/ IsInternal(node)
    /\ root \in nodes \cup {Zero}

Init ==
    /\ root = Zero
    /\ nodes = {}
    /\ blocked = << >>

-----------------------------------------------------------------------------
(* find_key: down the path of the key to a leaf or an empty subtree.       *)

Visited(key) ==
    LET at[l \in 0..KeyBits] ==
            IF l = 0 THEN root
            ELSE IF IsInternal(at[l - 1])
                 THEN at[l - 1][Bit(key, l - 1) + 1] ELSE at[l - 1]
    IN  at

Depth(key) == Cardinality({l \in 0..KeyBits : IsInternal(Visited(key)[l])})
End(key)   == Visited(key)[KeyBits]

Siblings(key) ==
    [l \in 1..Depth(key) |-> Visited(key)[l - 1][2 - Bit(key, l - 1)]]

\* A node that is not in storage is an error.
FindSucceeds(key) ==
    \A l \in 0..Depth(key) : Visited(key)[l] \in nodes \cup {Zero}

Found(key) == IsLeaf(End(key)) /\ End(key)[2] = key
IsOld0(key) == End(key) = Zero

-----------------------------------------------------------------------------

\* The levels two keys share below the level `from`.
CommonPrefix(key, other, from) ==
    Max({l \in from..KeyBits :
           \A i \in from..(l - 1) : Bit(key, i) = Bit(other, i)})

\* The siblings of a new leaf: below a leaf in its way both go down to where
\* their keys part, and that leaf is the last sibling.
SiblingsForMutant(key) ==
    IF IsOld0(key) THEN Siblings(key) ELSE Append(Siblings(key), End(key))
SiblingsFor(key) ==
    IF IsOld0(key) THEN Siblings(key)
    ELSE LET shared == CommonPrefix(key, End(key)[2], Depth(key))
         IN  Siblings(key) \o [i \in 1..(shared - Depth(key)) |-> Zero]
                           \o <<End(key)>>

\* The old path of the key; from its last sibling up, the nodes are removed.
OldPathMutant(key) ==
    LET up == Climb(key, Siblings(key), End(key))
    IN  {up[l] : l \in DOMAIN up}
OldPath(key) ==
    LET n  == IF IsOld0(key) THEN Depth(key) ELSE LastSibling(Siblings(key))
        up == Climb(key, SubSeq(Siblings(key), 1, n), End(key))
    IN  {up[l] : l \in 0..(n - 1)}

InsertLeaf(key, value) ==
    LET up == Climb(key, SiblingsFor(key), HashLeaf(key, value))
    IN  /\ FindSucceeds(key)
        /\ ~Found(key)
        /\ root' = up[0]
        /\ nodes' = (nodes \ OldPath(key)) \cup {up[l] : l \in DOMAIN up}
        /\ blocked' = [k \in DOMAIN blocked \cup {key} |->
                         IF k = key THEN value ELSE blocked[k]]

-----------------------------------------------------------------------------

\* What takes the place of a deleted leaf: its sibling if that is a leaf,
\* which moves up to the next sibling that is not empty.
PromotesMutant(siblings) == FALSE
Promotes(siblings) == siblings # << >> /\ IsLeaf(siblings[Len(siblings)])

DeleteLeaf(key) ==
    LET all      == Siblings(key)
        siblings == IF Promotes(all) THEN SubSeq(all, 1, Len(all) - 1) ELSE all
        base     == IF Promotes(all) THEN all[Len(all)] ELSE Zero
        old      == Climb(key, siblings, End(key))
        rebuilt  == LastSibling(siblings)
        new      == Climb(key, SubSeq(siblings, 1, rebuilt), base)
    IN  /\ FindSucceeds(key)
        /\ Found(key)
        /\ all # << >> => all[Len(all)] \in nodes
        /\ root' = new[0]
        /\ nodes' = (nodes \ {old[l] : l \in DOMAIN old})
                      \cup {new[l] : l \in 0..(rebuilt - 1)}
        /\ blocked' = [k \in DOMAIN blocked \ {key} |-> blocked[k]]

Next == \E key \in Keys :
    \/ \E value \in Values : InsertLeaf(key, value)
    \/ DeleteLeaf(key)

Spec == Init /\ [][Next]_vars

-----------------------------------------------------------------------------
(* What the tree is for: who is not blocked proves it, by find_key's       *)
(* answer, to verify_non_membership and to the circuit.                    *)

NotFoundKey(key)   == IF IsOld0(key) THEN key ELSE End(key)[2]
NotFoundValue(key) == IF IsOld0(key) THEN 0 ELSE End(key)[3]

\* The leaf in the way; its value 0 counts as no leaf.
OldLeafMutant(key, oldKey, oldValue) == Zero
OldLeaf(key, oldKey, oldValue) ==
    IF oldKey # key /\ oldValue # 0 THEN HashLeaf(oldKey, oldValue) ELSE Zero

VerifyNonMembership(key, siblings, oldKey, oldValue) ==
    /\ FindSucceeds(key)
    /\ ~Found(key)
    /\ siblings = Siblings(key)
    /\ oldKey = NotFoundKey(key) /\ oldValue = NotFoundValue(key)
    /\ Climb(key, siblings, OldLeaf(key, oldKey, oldValue))[0] = root

\* areKeyEquals
KeysDifferMutant(key, oldKey, isOld0) == TRUE
KeysDiffer(key, oldKey, isOld0) == ~isOld0 => oldKey # key

\* SMTVerifier with fnc = 1: the last of the siblings must be empty.
SmtVerifier(key, siblings, oldKey, oldValue, isOld0) ==
    /\ siblings[SmtLevels] = Zero
    /\ KeysDiffer(key, oldKey, isOld0)
    /\ LET path   == SubSeq(siblings, 1, LastSibling(siblings))
           bottom == IF isOld0 THEN Zero ELSE HashLeaf(oldKey, oldValue)
       IN  Climb(key, path, bottom)[0] = root

\* get_nonmembership_proof pads the siblings or cuts them to SmtLevels.
Padded(siblings) ==
    [l \in 1..SmtLevels |-> IF l <= Len(siblings) THEN siblings[l] ELSE Zero]

AppProves(key) ==
    /\ FindSucceeds(key)
    /\ ~Found(key)
    /\ SmtVerifier(key, Padded(Siblings(key)), NotFoundKey(key),
                   NotFoundValue(key), IsOld0(key))

-----------------------------------------------------------------------------

\* The tree over a set of blocked keys in which no subtree of one key is split.
CanonicalRoot ==
    LET tree[l \in 0..KeyBits] == [S \in SUBSET DOMAIN blocked |->
            IF S = {} THEN Zero
            ELSE IF l = KeyBits \/ \E k \in S : S = {k}
                 THEN LET k == CHOOSE x \in S : TRUE IN HashLeaf(k, blocked[k])
            ELSE HashInternal(tree[l + 1][{k \in S : Bit(k, l) = 0}],
                              tree[l + 1][{k \in S : Bit(k, l) = 1}])]
    IN  tree[0][DOMAIN blocked]

\* All nodes from the root down.
TreeNodes == {Visited(k)[l] : k \in AllKeys, l \in 0..KeyBits}

\* Whatever was inserted and deleted in whatever order, the root is that of the
\* keys that are blocked now: insert_leaf's extension of a shared prefix and
\* delete_leaf's promotion of a sibling undo one another.
RootIsCanonical == root = CanonicalRoot

\* No removal of an old path takes away a node that is still in use: no lookup,
\* insert or delete ever fails with KeyNotFound for a missing node.
NoNodeMissing == \A key \in AllKeys : FindSucceeds(key)

\* What a user needs to spend: the app's proof satisfies the circuit exactly if
\* the key is not blocked and its path is shorter than the circuit's.
UnblockedCanProve ==
    \A key \in Keys :
        AppProves(key) <=> key \notin DOMAIN blocked /\ Depth(key) < SmtLevels

\* Whatever hashes of the tree a prover gives as siblings and old leaf, the
\* circuit accepts none of it for a key that is blocked.
BlockedCannotProve ==
    \A key \in DOMAIN blocked,
       siblings \in [1..SmtLevels -> TreeNodes \cup {Zero}],
       oldKey \in Keys, oldValue \in Values \cup {0}, isOld0 \in BOOLEAN :
        ~SmtVerifier(key, siblings, oldKey, oldValue, isOld0)

\* verify_non_membership accepts what find_key answers for a key exactly if the
\* key is absent, as long as no leaf has the value 0.
AbsentKeysVerify ==
    \A key \in Keys :
        (\A k \in DOMAIN blocked : blocked[k] # 0) =>
            (VerifyNonMembership(key, Siblings(key), NotFoundKey(key), NotFoundValue(key))
                <=> key \notin DOMAIN blocked)
=============================================================================
