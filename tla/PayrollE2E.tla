----------------------------- MODULE PayrollE2E -----------------------------
(***************************************************************************)
(* The testnet script, e2e-tests/src/bin/testnet_payroll_e2e.rs: it pays   *)
(* one salary with a real proof and withdraws it again, against a payroll  *)
(* contract that others use too.  The script ends at the first command     *)
(* that fails; the command line may give up on a transaction that the      *)
(* ledger applies later.  Nothing is kept between runs but the contract.   *)
(***************************************************************************)
EXTENDS Integers, FiniteSets, Sequences

CONSTANTS
    Scripts,      \* runs of the script that may overlap
    BatchSize,    \* BATCH_SIZE
    Wage,         \* salary_stroops
    Budget,       \* what the script sets the budget cap to
    Funds,        \* the tokens of the source account
    MaxPeriod,
    MaxTimeouts,  \* bound: commands given up on
    None

VARIABLES
    \* the contract and its token (module Payroll)
    employeeRoot, budgetCap, token, verifier, withdrawVerifier, currentPeriod,
    periods, rootToPeriod, commitments, nullifiers, auditors, balance,
    fundedIn, payments,
    \* the scripts
    script,       \* where each script is, with the period it proves
    undecided,    \* transactions the command line gave up on
    timeouts

\* The salt is 123_456_789 plus the period, so employee 42 has one commitment
\* a period, and one tree with it and the zero commitments of the other slots.
SaltOfMutant(period) == 1
SaltOf(period) == period

Pad      == [salt |-> 0, salary |-> 0]
SalaryCommitment(period) == [salt |-> SaltOf(period), salary |-> Wage]

MerkleTree(period) == {SalaryCommitment(period), Pad}

\* The contract is deployed with another root.
Deployed == {}
Leaves   == {Pad} \cup {SalaryCommitment(p) : p \in 1..MaxPeriod}
Roots    == {Deployed} \cup {MerkleTree(p) : p \in 1..MaxPeriod}

Contract == INSTANCE Payroll WITH
    Tree <- [root \in Roots |-> root], Salary <- [l \in Leaves |-> l.salary],
    SalaryLimit <- Budget + 1,
    Admin <- "source", Contract <- "contract", Recipients <- {"source", "recipient"},
    Auditors <- {}, Tokens <- {"USDC"},
    Verifiers <- {"batch", "withdraw"}, BatchVerifier <- "batch",
    WithdrawCircuit <- "withdraw", NotSet <- None,
    BudgetCaps <- {Budget}, AdminFunds <- Funds, MaxI128 <- Budget

contract  == <<employeeRoot, budgetCap, token, verifier, withdrawVerifier,
               currentPeriod, periods, rootToPeriod, commitments, nullifiers,
               auditors, balance, fundedIn, payments>>
e2eVars   == <<contract, script, undecided, timeouts>>

NotStarted == [at |-> "start", period |-> 0, recipient |-> "source", alone |-> TRUE]

E2EInit ==
    /\ Contract!Init
    /\ employeeRoot = Deployed
    /\ script = [s \in Scripts |-> NotStarted]
    /\ undecided = {}
    /\ timeouts = 0

-----------------------------------------------------------------------------
(* The commands.  A call is [account, kind, period, recipient].            *)

Called(s) ==
    [account   |-> IF script[s].at = "withdraw" THEN script[s].recipient ELSE "source",
     kind      |-> script[s].at,
     period    |-> script[s].period,
     recipient |-> script[s].recipient]

\* The inputs of the two proofs.  The first slot of the batch opens the salary's
\* commitment, the others the zero commitments beside it.
PayrollInput(period) ==
    [employeeRoot       |-> MerkleTree(period),
     totalPayrollAmount |-> Wage,
     payrollPeriodId    |-> period,
     slots              |-> [i \in 1..BatchSize |->
                                IF i = 1 THEN SalaryCommitment(period) ELSE Pad]]

WithdrawInput(period) ==
    [commitmentRoot |-> MerkleTree(period),
     commitmentId   |-> Contract!CommitmentId(SalaryCommitment(period)),
     nullifier      |-> Contract!Nullifier(SalaryCommitment(period)),
     salaryAmount   |-> Wage]

\* generate_proof makes and verifies a proof, or the script ends.
PayrollProofMade(input) ==
    /\ \A i \in 1..BatchSize :
          input.slots[i] \in input.employeeRoot /\ Contract!InRange(input.slots[i])
    /\ input.totalPayrollAmount
         = Contract!SumOf(1..BatchSize, [i \in 1..BatchSize |-> input.slots[i].salary])

WithdrawProofMade(input) ==
    Contract!WithdrawProvable(input.commitmentRoot, input.commitmentId,
                              input.nullifier, input.salaryAmount)

\* What the ledger does with a call: the script passes on the public inputs of
\* its proof, and the id of the one salary.
Executes(call) ==
    LET payroll  == PayrollInput(call.period)
        withdraw == WithdrawInput(call.period)
    IN  \/ /\ call.kind = "set_employee_root"
           /\ Contract!SetEmployeeRoot(payroll.employeeRoot)
        \/ /\ call.kind = "set_budget_cap"
           /\ Contract!SetBudgetCap(Budget)
        \/ /\ call.kind = "run_payroll"
           /\ Contract!RunPayroll(payroll.employeeRoot, payroll.totalPayrollAmount,
                                  payroll.payrollPeriodId, {withdraw.commitmentId})
        \/ /\ call.kind = "withdraw"
           /\ Contract!Withdraw(withdraw.commitmentRoot,
                                withdraw.commitmentId.commitment, call.recipient)

\* An account's transactions carry its next sequence number: one is included.
Outdated(call) == {c \in undecided : c.account = call.account}

\* Whatever one script gets applied, the others are not alone any more.
Noticed(s, at) ==
    [t \in Scripts |->
        IF t = s THEN [script[t] EXCEPT !.at = at]
                 ELSE [script[t] EXCEPT !.alone = @ /\ script[t].at = "start"]]

\* The order in main.
After(at) ==
    CASE at = "set_employee_root" -> "set_budget_cap"
      [] at = "set_budget_cap"    -> "run_payroll"
      [] at = "run_payroll"       -> "prove"
      [] at = "withdraw"          -> "done"

Running(s) == script[s].at \notin {"start", "done", "failed"}

\* The period after what get_current_period answers.
NextPeriod == currentPeriod + 1

\* The script starts, and makes the batch proof for the next period.
ReadPeriod(s, recipient) ==
    /\ ~Running(s)
    /\ currentPeriod < MaxPeriod
    /\ PayrollProofMade(PayrollInput(NextPeriod))
    /\ script' = [script EXCEPT ![s] =
                    [at |-> "set_employee_root", period |-> NextPeriod,
                     recipient |-> recipient,
                     alone |-> undecided = {} /\ \A t \in Scripts \ {s} : ~Running(t)]]
    /\ UNCHANGED <<contract, undecided, timeouts>>

\* The proof of the withdrawal.
ProveWithdraw(s) ==
    /\ script[s].at = "prove"
    /\ WithdrawProofMade(WithdrawInput(script[s].period))
    /\ script' = [script EXCEPT ![s].at = "withdraw"]
    /\ UNCHANGED <<contract, undecided, timeouts>>

Sending(s) == Running(s) /\ script[s].at # "prove"

\* run_stellar: the command is applied.
Command(s) ==
    /\ Sending(s)
    /\ Executes(Called(s))
    /\ script' = Noticed(s, After(script[s].at))
    /\ undecided' = undecided \ Outdated(Called(s))
    /\ UNCHANGED timeouts

\* A command, a proof or a file fails, or the script is killed.
Fails(s) ==
    /\ Running(s)
    /\ script' = [script EXCEPT ![s].at = "failed"]
    /\ UNCHANGED <<contract, undecided, timeouts>>

\* The command line gives up on a transaction that is not decided yet.
TimesOut(s) ==
    /\ Sending(s)
    /\ timeouts < MaxTimeouts
    /\ undecided' = undecided \cup {Called(s)}
    /\ script' = [script EXCEPT ![s].at = "failed"]
    /\ timeouts' = timeouts + 1
    /\ UNCHANGED contract

AppliedLater(call) ==
    /\ Executes(call)
    /\ script' = [t \in Scripts |-> [script[t] EXCEPT !.alone = @ /\ script[t].at = "start"]]
    /\ undecided' = undecided \ Outdated(call)
    /\ UNCHANGED timeouts

\* Somebody sets the withdraw verifier, at last.
CompleteDeployment ==
    /\ withdrawVerifier = None
    /\ Contract!SetWithdrawVerifier("withdraw")
    /\ UNCHANGED <<script, undecided, timeouts>>

E2ENext ==
    \/ \E s \in Scripts :
          \/ \E recipient \in {"source", "recipient"} : ReadPeriod(s, recipient)
          \/ ProveWithdraw(s) \/ Command(s) \/ Fails(s) \/ TimesOut(s)
    \/ \E call \in undecided : AppliedLater(call)
    \/ CompleteDeployment

E2ESpec == E2EInit /\ [][E2ENext]_e2eVars

-----------------------------------------------------------------------------
\* Whatever earlier runs left behind when they were cut short or given up on,
\* a script that has the contract to itself gets its payroll accepted; and a
\* script that got it accepted can withdraw, whatever others do in between.
ScriptSucceeds ==
    \A s \in Scripts :
        LET period == script[s].period
            leaf   == SalaryCommitment(period)
        IN  /\ (script[s].at = "run_payroll" /\ script[s].alone /\ balance["USDC"]["source"] >= Wage)
                  => Contract!RunPayrollAccepts(MerkleTree(period), Wage, period,
                                                {Contract!CommitmentId(leaf)})
            /\ (script[s].at = "withdraw" /\ withdrawVerifier # None)
                  => Contract!WithdrawAccepts(MerkleTree(period), leaf)

\* A script that ended well has paid one salary, once, out of the period it
\* proved; and the contract holds one salary for each period whose script was
\* cut short in between.
ScriptsSettle ==
    /\ \A s \in Scripts :
          script[s].at = "done" =>
              /\ Len(payments[SalaryCommitment(script[s].period)]) = 1
              /\ payments[SalaryCommitment(script[s].period)][1].period = script[s].period
              /\ payments[SalaryCommitment(script[s].period)][1].recipient = script[s].recipient
    /\ balance["USDC"]["contract"]
         = Wage * Cardinality({p \in 1..currentPeriod : payments[SalaryCommitment(p)] = << >>})
=============================================================================
