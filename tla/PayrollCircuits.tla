-------------------------- MODULE PayrollCircuits --------------------------
(***************************************************************************)
(* What the two payroll circuits allow to be proved (circuits/src/         *)
(* payroll.circom and payrollWithdraw.circom).  A Groth16 proof is         *)
(* represented by its statement: a statement can be proved exactly when    *)
(* some private witness satisfies the circuit's constraints.               *)
(*                                                                         *)
(* The Poseidon2 hashes are taken as injective: a commitment               *)
(* H1(employeeId, salary, salt) is a member of Leaves that determines its  *)
(* salary, and a Merkle root determines the set of leaves below it.        *)
(***************************************************************************)
EXTENDS Amounts

CONSTANTS
    Roots,        \* the employee tree roots in play
    Leaves,       \* salary commitments
    Tree,         \* Tree[r]: the commitments in the tree with root r
    Salary,       \* Salary[l]: the amount committed to by l
    SalaryLimit,  \* the circuits' range check, 2^50 in the source
    BatchSize     \* n of PayrollBatch(levels, n)

ASSUME CircuitAssumption ==
    /\ IsFiniteSet(Leaves)
    /\ Tree \in [Roots -> SUBSET Leaves]
    /\ Salary \in [Leaves -> Nat]
    /\ SalaryLimit \in Nat
    /\ BatchSize \in Nat \ {0}

\* commitmentId = H2(commitment) and nullifier = H3(commitment, salt): the
\* domain separator keeps the two apart, the salt is fixed by the commitment.
CommitmentId(l) == [domain |-> 2, commitment |-> l]
Nullifier(l)    == [domain |-> 3, commitment |-> l]

CommitmentIds == {CommitmentId(l) : l \in Leaves}
Nullifiers    == {Nullifier(l) : l \in Leaves}

InRange(l) == Salary[l] < SalaryLimit

\* The sum of the salaries of a set of commitments.
Total(S) == SumOf(S, Salary)

\* PayrollBatch: every one of the n slots opens some commitment of the tree to
\* a salary in range, and the salaries of the slots add up to the total.  The
\* constraints do not say that the slots are different commitments, and
\* nothing constrains payrollPeriodId.
BatchProvable(root, total) ==
    \E slot \in [1..BatchSize -> {l \in Tree[root] : InRange(l)}] :
        total = SumOf(1..BatchSize, [i \in 1..BatchSize |-> Salary[slot[i]]])

\* PayrollWithdraw: the commitment is in the tree, its id and nullifier are
\* the ones derived from it, the public amount is the committed salary.
WithdrawProvable(root, id, nullifier, amount) ==
    \E l \in Tree[root] :
        /\ InRange(l)
        /\ id = CommitmentId(l)
        /\ nullifier = Nullifier(l)
        /\ amount = Salary[l]
=============================================================================
