--------------------------- MODULE PayrollEscrow ---------------------------
(***************************************************************************)
(* What the payroll contract promises an employer and the employees: every *)
(* salary commitment is funded once, then paid once, and the escrow is the *)
(* sum of the commitments funded and not yet paid.                         *)
(***************************************************************************)
EXTENDS Integers

CONSTANTS
    Leaves,      \* salary commitments
    Amount(_)    \* the sum of the salaries of a set of them

VARIABLES
    status,   \* of each commitment: "unfunded", "funded" or "paid"
    escrow    \* the amount held

svars == <<status, escrow>>

Init ==
    /\ status = [l \in Leaves |-> "unfunded"]
    /\ escrow = 0

\* A payroll run funds a batch of commitments never funded before.
Fund(S) ==
    /\ \A l \in S : status[l] = "unfunded"
    /\ status' = [l \in Leaves |-> IF l \in S THEN "funded" ELSE status[l]]
    /\ escrow' = escrow + Amount(S)

\* A withdrawal pays one funded commitment.
Pay(l) ==
    /\ status[l] = "funded"
    /\ status' = [status EXCEPT ![l] = "paid"]
    /\ escrow' = escrow - Amount({l})

Next ==
    \/ \E S \in SUBSET Leaves : Fund(S)
    \/ \E l \in Leaves : Pay(l)

Spec == Init /\ [][Next]_svars
=============================================================================
