----------------------------- MODULE SparseTrees -----------------------------
(***************************************************************************)
(* The two other sparse Merkle trees of the repository: the prover's       *)
(* (app/crates/core/prover/src/sparse_merkle.rs), which keeps every node   *)
(* it ever made, and the reference that the contract's tests and the       *)
(* circuits' tests build their trees with                                  *)
(* (circuits/src/test/utils/sparse_merkle_tree.rs).  They look up keys as  *)
(* the contract does; hashes are those of AspNonMembership.                *)
(***************************************************************************)
EXTENDS Naturals, Sequences, FiniteSetsExt

CONSTANTS
    KeyBits, Keys, Values, SmtLevels,
    MaxUpdates    \* bound on the updates of a tree

VARIABLES
    owner,        \* whose tree: "prover" or "reference"
    root, db,     \* the tree
    content,      \* the key-value pairs put in and not deleted
    updates

treeVars == <<owner, root, db, content, updates>>

Tree == INSTANCE AspNonMembership WITH nodes <- db, blocked <- content

SparseInit ==
    /\ owner \in {"prover", "reference"}
    /\ root = Tree!Zero
    /\ db = {}
    /\ content = << >>
    /\ updates = 0

-----------------------------------------------------------------------------

\* find: both go down through the nodes stored under their hashes.
Find(key) ==
    [found    |-> Tree!Found(key),
     siblings |-> Tree!Siblings(key),
     value    |-> IF Tree!Found(key) THEN Tree!End(key)[3] ELSE 0,
     isOld0   |-> Tree!IsOld0(key)]

Path(key, siblings, bottom) ==
    LET up == Tree!Climb(key, siblings, bottom) IN {up[l] : l \in DOMAIN up}

NewRoot(key, siblings, bottom) == Tree!Climb(key, siblings, bottom)[0]

\* The new leaf's siblings: past a leaf in the way down to where they part.
Extended(key) == Tree!SiblingsFor(key)

PutContent(key, value) ==
    content' = [k \in DOMAIN content \cup {key} |-> IF k = key THEN value ELSE content[k]]

\* What the reference's insert removes: from the last sibling up that was there
\* before, the old path over the leaf in the way or over nothing.
OldInsertPathMutant(key) == Path(key, Find(key).siblings, Tree!End(key))
OldInsertPath(key) ==
    LET found == Find(key)
        top   == IF found.isOld0 THEN Len(found.siblings)
                 ELSE Tree!LastSibling(found.siblings)
        up    == Tree!Climb(key, SubSeq(found.siblings, 1, top), Tree!End(key))
    IN  {up[l] : l \in 0..(top - 1)}

\* insert of both
Insert(key, value) ==
    LET leaf == Tree!HashLeaf(key, value)
        made == Path(key, Extended(key), leaf)
    IN  /\ Tree!FindSucceeds(key)
        /\ ~Find(key).found
        /\ root' = NewRoot(key, Extended(key), leaf)
        /\ db' = IF owner = "prover" THEN db \cup made
                 ELSE (db \cup made) \ OldInsertPath(key)
        /\ PutContent(key, value)
        /\ UNCHANGED <<owner, updates>>

\* The order of multi_del and multi_ins: a new value may be the old one.
ReplacedMutant(old, new) == (db \cup new) \ old
Replaced(old, new) == (db \ old) \cup new

\* update of both, for a key that is there (the reference does not ask).
Update(key, value) ==
    LET found == Find(key)
        leaf  == Tree!HashLeaf(key, value)
        old   == Path(key, found.siblings, Tree!HashLeaf(key, found.value))
        new   == Path(key, found.siblings, leaf)
    IN  /\ updates < MaxUpdates
        /\ Tree!FindSucceeds(key)
        /\ found.found
        /\ root' = NewRoot(key, found.siblings, leaf)
        /\ db' = IF owner = "prover" THEN db \cup new ELSE Replaced(old, new)
        /\ PutContent(key, value)
        /\ updates' = updates + 1
        /\ UNCHANGED owner

\* How far down delete rebuilds: a lone leaf moves up past empty siblings.
RebuiltMutant(siblings) == IF Tree!Promotes(siblings) THEN Len(siblings) - 1 ELSE Len(siblings)
Rebuilt(siblings) ==
    IF Tree!Promotes(siblings)
    THEN Tree!LastSibling(SubSeq(siblings, 1, Len(siblings) - 1))
    ELSE Len(siblings)

\* delete of the reference
Delete(key) ==
    LET found    == Find(key)
        siblings == found.siblings
        bottom   == IF Tree!Promotes(siblings) THEN siblings[Len(siblings)] ELSE Tree!Zero
        new      == Tree!Climb(key, SubSeq(siblings, 1, Rebuilt(siblings)), bottom)
    IN  /\ owner = "reference"
        /\ Tree!FindSucceeds(key)
        /\ found.found
        /\ siblings # << >> => siblings[Len(siblings)] \in db
        /\ root' = new[0]
        /\ db' = (db \cup {new[l] : l \in 0..(Rebuilt(siblings) - 1)})
                    \ Path(key, siblings, Tree!HashLeaf(key, found.value))
        /\ content' = [k \in DOMAIN content \ {key} |-> content[k]]
        /\ UNCHANGED <<owner, updates>>

SparseNext == \E key \in Keys :
    \/ \E value \in Values : Insert(key, value) \/ Update(key, value)
    \/ Delete(key)

-----------------------------------------------------------------------------

\* get_proof and finalize_proof pad the siblings to the circuit's levels and,
\* unlike the app, cut nothing.
ProofVerifies(key) ==
    LET siblings == Tree!Siblings(key)
    IN  /\ Len(siblings) <= SmtLevels
        /\ Tree!SmtVerifier(key, Tree!Padded(siblings), Tree!NotFoundKey(key),
                            Tree!NotFoundValue(key), Tree!IsOld0(key))

\* Whatever was inserted, updated and deleted in whatever order, both trees have
\* the root that the contract has over the same pairs, find every key through
\* stored nodes, with its value, and their proofs of absence satisfy the circuit.
SparseTreesSound ==
    /\ Tree!RootIsCanonical
    /\ Tree!NoNodeMissing
    /\ \A key \in Keys :
        /\ Find(key).found <=> key \in DOMAIN content
        /\ Find(key).found => Find(key).value = content[key]
        /\ ~Find(key).found /\ Tree!Depth(key) < SmtLevels => ProofVerifies(key)
=============================================================================
