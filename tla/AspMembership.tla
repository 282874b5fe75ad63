--------------------------- MODULE AspMembership ---------------------------
(***************************************************************************)
(* The membership contract (contracts/asp-membership/src/lib.rs): an       *)
(* append-only tree of approved note keys, whose leaves the administrator  *)
(* inserts, or anybody once the administrator allows it.                   *)
(***************************************************************************)
EXTENDS IncrementalTree

CONSTANTS
    Leaves,        \* hashes of approved keys
    Callers

VARIABLES
    admin, adminInsertOnly, filled, nextIndex, root,   \* DataKey
    added                                              \* LeafAdded events

tree == <<filled, nextIndex, root, added>>
vars == <<admin, adminInsertOnly, tree>>

LeafAddedEvents == [leaf : Leaves, index : 0..(Capacity - 1)]

TypeOK ==
    /\ admin \in Callers
    /\ adminInsertOnly \in BOOLEAN
    /\ DOMAIN filled = 0..Levels
    /\ nextIndex \in 0..Capacity
    /\ \A i \in DOMAIN added :
           [leaf |-> added[i].leaf, index |-> added[i].index] \in LeafAddedEvents

Init ==
    /\ admin \in Callers
    /\ adminInsertOnly = TRUE
    /\ filled = Zeroes
    /\ nextIndex = 0
    /\ root = Zeroes[Levels]
    /\ added = << >>

UpdateAdmin(caller, newAdmin) ==
    /\ caller = admin
    /\ admin' = newAdmin
    /\ UNCHANGED <<adminInsertOnly, tree>>

SetAdminInsertOnly(caller, adminOnly) ==
    /\ caller = admin
    /\ adminInsertOnly' = adminOnly
    /\ UNCHANGED <<admin, tree>>

MayInsert(caller) == adminInsertOnly => caller = admin

HasRoomMutant == nextIndex <= Capacity
HasRoom == nextIndex < Capacity

InsertLeaf(caller, leaf) ==
    LET up == PathHashes(filled, nextIndex, 0, leaf)
    IN  /\ MayInsert(caller)
        /\ HasRoom
        /\ filled' = FilledAfter(filled, nextIndex, 0, up)
        /\ root' = up[Levels]
        /\ added' = Append(added, [leaf |-> leaf, index |-> nextIndex,
                                   root |-> up[Levels]])
        /\ nextIndex' = nextIndex + 1
        /\ UNCHANGED <<admin, adminInsertOnly>>

Next == \E caller \in Callers :
    \/ \E newAdmin \in Callers : UpdateAdmin(caller, newAdmin)
    \/ \E adminOnly \in BOOLEAN : SetAdminInsertOnly(caller, adminOnly)
    \/ \E leaf \in Leaves : InsertLeaf(caller, leaf)

Spec == Init /\ [][Next]_vars

-----------------------------------------------------------------------------

AddedLeaves(n) == [i \in 1..n |-> added[i].leaf]

\* Who replays the LeafAdded events up to any of them rebuilds the tree whose
\* root the event names, and the last one names the contract's root.  The app
\* builds its membership proofs from these events (build_membership_proof).
EventsRebuildTree ==
    /\ \A i \in DOMAIN added : /\ added[i].index = i - 1
                               /\ added[i].root = RootOf(AddedLeaves(i))
    /\ root = RootOf(AddedLeaves(Len(added)))
=============================================================================
