------------------------------ MODULE Payroll ------------------------------
(***************************************************************************)
(* The payroll contract, contracts/payroll/src/payroll.rs, with the token  *)
(* contract it moves funds in.  The host runs a contract call as one       *)
(* transaction and rolls back every write of a call that returns an error  *)
(* or traps, so a call is one action, its guard is the conjunction of all  *)
(* the conditions that do not return an error, and a failing call is a     *)
(* stuttering step.                                                        *)
(***************************************************************************)
EXTENDS PayrollCircuits, Sequences, FiniteSetsExt

CONSTANTS
    Admin,             \* the administrator's address
    Contract,          \* the address of this contract, where escrow is held
    Recipients,        \* the addresses withdrawals are paid to
    Auditors,
    Tokens,
    Verifiers,         \* addresses the two verifier settings may be given
    BatchVerifier,     \* the deployed verifier of PayrollBatch
    WithdrawCircuit,   \* the deployed verifier of PayrollWithdraw
    NotSet,            \* an absent storage entry
    BudgetCaps,        \* values the budget cap may be given
    AdminFunds,        \* what the administrator owns of each token at first
    MaxI128,           \* i128::MAX, the largest amount a token can transfer
    MaxPeriod          \* u64::MAX, where checked_add(1) fails

Accounts == Recipients \cup {Admin, Contract}

ASSUME PayrollAssumption ==
    /\ IsFiniteSet(Recipients)
    /\ Contract \notin Recipients \cup {Admin}
    /\ {BatchVerifier, WithdrawCircuit} \subseteq Verifiers
    /\ NotSet \notin Verifiers
    /\ BudgetCaps \subseteq Nat
    /\ AdminFunds \in Nat
    /\ MaxI128 \in Nat
    /\ MaxPeriod \in Nat

VARIABLES
    employeeRoot,      \* DataKey::EmployeeRoot
    budgetCap,         \* DataKey::BudgetCap
    token,             \* DataKey::Token
    verifier,          \* DataKey::Verifier
    withdrawVerifier,  \* DataKey::WithdrawVerifier, absent until it is set
    currentPeriod,     \* DataKey::CurrentPeriod
    periods,           \* DataKey::Period(n) with DataKey::PeriodCommitments(n)
    rootToPeriod,      \* DataKey::RootToPeriod(root), 0 when absent
    commitments,       \* the ids with a DataKey::CommitmentRecord(id)
    nullifiers,        \* the keys of DataKey::WithdrawnNullifier(n)
    auditors,          \* DataKey::Auditor(address)
    balance,           \* the token contracts' balances
    fundedIn,          \* history: the token each period was escrowed in
    payments           \* history: the WithdrawalEvents of each commitment

config  == <<employeeRoot, budgetCap, token, verifier, withdrawVerifier>>
records == <<currentPeriod, periods, rootToPeriod, commitments>>
ledger  == <<balance, fundedIn, payments>>
vars    == <<config, records, nullifiers, auditors, ledger>>

PeriodRecord == [commitmentRoot : Roots,
                 totalAmount    : 0..MaxI128,
                 commitmentIds  : SUBSET CommitmentIds]

Payment == [period : 1..MaxPeriod, token : Tokens, recipient : Recipients]

TypeOK ==
    /\ employeeRoot \in Roots
    /\ budgetCap \in BudgetCaps
    /\ token \in Tokens
    /\ verifier \in Verifiers
    /\ withdrawVerifier \in Verifiers \cup {NotSet}
    /\ currentPeriod \in 0..MaxPeriod
    /\ periods \in [1..currentPeriod -> PeriodRecord]
    /\ rootToPeriod \in [Roots -> 0..currentPeriod]
    /\ commitments \subseteq CommitmentIds
    /\ nullifiers \subseteq Nullifiers
    /\ auditors \in [Auditors -> {"absent", "granted", "revoked"}]
    /\ balance \in [Tokens -> [Accounts -> Nat]]
    /\ fundedIn \in [1..currentPeriod -> Tokens]
    /\ payments \in [Leaves -> Seq(Payment)]

\* __constructor: no period, no withdraw verifier, nothing escrowed.
Init ==
    /\ employeeRoot \in Roots
    /\ budgetCap \in BudgetCaps
    /\ token \in Tokens
    /\ verifier = BatchVerifier
    /\ withdrawVerifier = NotSet
    /\ currentPeriod = 0
    /\ periods = [p \in {} |-> NotSet]
    /\ rootToPeriod = [r \in Roots |-> 0]
    /\ commitments = {}
    /\ nullifiers = {}
    /\ auditors = [a \in Auditors |-> "absent"]
    /\ balance = [t \in Tokens |->
                    [a \in Accounts |-> IF a = Admin THEN AdminFunds ELSE 0]]
    /\ fundedIn = [p \in {} |-> NotSet]
    /\ payments = [l \in Leaves |-> <<>>]

-----------------------------------------------------------------------------
(* Settings, each behind require_admin.                                    *)

SetEmployeeRoot(root) ==
    /\ employeeRoot' = root
    /\ UNCHANGED <<budgetCap, token, verifier, withdrawVerifier>>
    /\ UNCHANGED <<records, nullifiers, auditors, ledger>>

SetBudgetCap(cap) ==
    /\ budgetCap' = cap
    /\ UNCHANGED <<employeeRoot, token, verifier, withdrawVerifier>>
    /\ UNCHANGED <<records, nullifiers, auditors, ledger>>

SetToken(t) ==
    /\ token' = t
    /\ UNCHANGED <<employeeRoot, budgetCap, verifier, withdrawVerifier>>
    /\ UNCHANGED <<records, nullifiers, auditors, ledger>>

SetVerifier(v) ==
    /\ verifier' = v
    /\ UNCHANGED <<employeeRoot, budgetCap, token, withdrawVerifier>>
    /\ UNCHANGED <<records, nullifiers, auditors, ledger>>

SetWithdrawVerifier(v) ==
    /\ withdrawVerifier' = v
    /\ UNCHANGED <<employeeRoot, budgetCap, token, verifier>>
    /\ UNCHANGED <<records, nullifiers, auditors, ledger>>

\* set_view_key_for_auditor writes a fresh record: a revoked auditor is
\* granted again.
GrantAuditor(a) ==
    /\ auditors' = [auditors EXCEPT ![a] = "granted"]
    /\ UNCHANGED <<config, records, nullifiers, ledger>>

\* revoke_auditor returns AuditorNotFound for an address never granted.
RevokeAuditor(a) ==
    /\ auditors[a] # "absent"
    /\ auditors' = [auditors EXCEPT ![a] = "revoked"]
    /\ UNCHANGED <<config, records, nullifiers, ledger>>

-----------------------------------------------------------------------------
(* Token movements.                                                        *)

\* The balances after `amount` of token t moves; enabled when covered.
Covered(t, from, amount) == balance[t][from] >= amount

Moved(t, from, to, amount) ==
    [balance EXCEPT ![t] = [a \in Accounts |->
        CASE from = to -> @[a]
          [] from # to /\ a = from -> @[a] - amount
          [] from # to /\ a = to -> @[a] + amount
          [] OTHER -> @[a]]]

\* A storage map with the entry for one key written.
Put(f, key, value) ==
    [k \in DOMAIN f \cup {key} |-> IF k = key THEN value ELSE f[k]]

-----------------------------------------------------------------------------
(* run_payroll(proof, [root, total, period], ipfs_cids).  ids is the set   *)
(* of commitment ids of ipfs_cids; a list that repeats an id is rejected.  *)

WithinCapMutant(total) == total <= budgetCap + 1
WithinCap(total) == total <= budgetCap

IsNextPeriodMutant(period) == period \in 1..currentPeriod + 1
IsNextPeriod(period) == currentPeriod < MaxPeriod /\ period = currentPeriod + 1

AreNewMutant(ids) == TRUE
AreNew(ids) == ids \cap commitments = {}

RunPayrollAccepts(root, total, period, ids) ==
    /\ root = employeeRoot
    /\ WithinCap(total)
    /\ verifier = BatchVerifier
    /\ BatchProvable(root, total)
    /\ IsNextPeriod(period)
    /\ AreNew(ids)
    /\ total <= MaxI128
    /\ Covered(token, Admin, total)

\* RootToPeriod(root) is written on every run: the latest period with a root
\* replaces an earlier one.
MapRootMutant(root, period) ==
    IF rootToPeriod[root] # 0 THEN rootToPeriod
    ELSE [rootToPeriod EXCEPT ![root] = period]
MapRoot(root, period) == [rootToPeriod EXCEPT ![root] = period]

RunPayrollStores(root, total, period, ids) ==
    /\ periods' = Put(periods, period, [commitmentRoot |-> root,
                                        totalAmount    |-> total,
                                        commitmentIds  |-> ids])
    /\ rootToPeriod' = MapRoot(root, period)
    /\ commitments' = commitments \cup ids
    /\ currentPeriod' = period

RunPayroll(root, total, period, ids) ==
    /\ RunPayrollAccepts(root, total, period, ids)
    /\ RunPayrollStores(root, total, period, ids)
    /\ balance' = Moved(token, Admin, Contract, total)
    /\ fundedIn' = Put(fundedIn, period, token)
    /\ UNCHANGED <<config, nullifiers, auditors, payments>>

(* withdraw(proof, [root, id, nullifier, amount], recipient).  The witness *)
(* of a provable statement is a commitment l of the tree under root.       *)

KnownRootMutant(root) == TRUE
KnownRootLatest(root) == currentPeriod > 0 /\ rootToPeriod[root] = currentPeriod
KnownRoot(root) == rootToPeriod[root] # 0

RecordedMutant(l) == TRUE
Recorded(l) == CommitmentId(l) \in commitments

SpentMutant(l) == FALSE
Spent(l) == Nullifier(l) \in nullifiers

WithdrawAccepts(root, l) ==
    /\ withdrawVerifier = WithdrawCircuit
    /\ WithdrawProvable(root, CommitmentId(l), Nullifier(l), Salary[l])
    /\ KnownRoot(root)
    /\ Recorded(l)
    /\ ~Spent(l)
    /\ Salary[l] <= MaxI128
    /\ Covered(token, Contract, Salary[l])

Withdraw(root, l, recipient) ==
    /\ WithdrawAccepts(root, l)
    /\ nullifiers' = nullifiers \cup {Nullifier(l)}
    /\ balance' = Moved(token, Contract, recipient, Salary[l])
    /\ payments' = [payments EXCEPT ![l] = Append(@,
                       [period    |-> rootToPeriod[root],
                        token     |-> token,
                        recipient |-> recipient])]
    /\ UNCHANGED <<config, records, auditors, fundedIn>>

-----------------------------------------------------------------------------
Settings ==
    \/ \E root \in Roots : SetEmployeeRoot(root)
    \/ \E cap \in BudgetCaps : SetBudgetCap(cap)
    \/ \E t \in Tokens : SetToken(t)
    \/ \E v \in Verifiers : SetVerifier(v)
    \/ \E v \in Verifiers : SetWithdrawVerifier(v)

Auditing ==
    \E a \in Auditors : GrantAuditor(a) \/ RevokeAuditor(a)

Withdrawing ==
    \E root \in Roots, l \in Leaves, recipient \in Recipients :
        Withdraw(root, l, recipient)

\* Any statement the batch circuit can prove, with any list of ids.
Paying ==
    \E root \in Roots, total \in 0..MaxI128, period \in 0..MaxPeriod,
       ids \in SUBSET CommitmentIds :
        RunPayroll(root, total, period, ids)

Next == Settings \/ Auditing \/ Paying \/ Withdrawing

Spec == Init /\ [][Next]_vars

\* The employer's own calls.  The dashboard (PayrollWizard.tsx) proves a batch
\* of different commitments and lists exactly the ids of that batch.
PayBatch(S) ==
    \E root \in Roots, period \in 0..MaxPeriod :
        /\ S \subseteq {l \in Tree[root] : InRange(l)}
        /\ RunPayroll(root, Total(S), period, {CommitmentId(l) : l \in S})

Batches == {S \in SUBSET Leaves : S # {} /\ Cardinality(S) <= BatchSize}

\* Commitments that can still be withdrawn against.
Outstanding == {l \in Leaves : Recorded(l) /\ ~Spent(l)}

\* The employer changes the token only when nothing is owed in the old one.
\* The contract does not ask for it.
SettleToken == Outstanding = {} /\ \E t \in Tokens : SetToken(t)

EmployerSettings ==
    \/ \E root \in Roots : SetEmployeeRoot(root)
    \/ \E cap \in BudgetCaps : SetBudgetCap(cap)
    \/ \E v \in Verifiers : SetVerifier(v)
    \/ \E v \in Verifiers : SetWithdrawVerifier(v)
    \/ SettleToken

EmployerNext ==
    \/ EmployerSettings
    \/ Auditing
    \/ \E S \in Batches : PayBatch(S)
    \/ Withdrawing

EmployerSpec == Init /\ [][EmployerNext]_vars

-----------------------------------------------------------------------------
(* Properties of every call the contract accepts (Spec).                   *)

\* What was escrowed in token t, and what was paid out of it.
Escrowed(t) ==
    SumOf({p \in 1..currentPeriod : fundedIn[p] = t},
          [p \in 1..currentPeriod |-> periods[p].totalAmount])

PaidOut(t) ==
    SumOf(Leaves, [l \in Leaves |->
        Salary[l] * Cardinality({i \in DOMAIN payments[l] :
                                    payments[l][i].token = t})])

\* Whatever the order of runs, withdrawals and changes of token, the contract
\* holds in each token what the periods escrowed in it less what withdrawals
\* paid in it, and no token is created or lost.
Conservation ==
    \A t \in Tokens :
        /\ balance[t][Contract] + PaidOut(t) = Escrowed(t)
        /\ SumOf(Accounts, balance[t]) = AdminFunds

\* A commitment is paid at most once, over all periods and all roots it is
\* below (the nullifier has no period in it), and exactly when its nullifier
\* is spent.
PaidOnce ==
    \A l \in Leaves :
        /\ Len(payments[l]) <= 1
        /\ Spent(l) <=> payments[l] # <<>>

\* Every payment is for a commitment whose id some verified period recorded,
\* and is attributed to a period whose root has the commitment below it.
PaymentsRecorded ==
    \A l \in Leaves : \A i \in DOMAIN payments[l] :
        /\ l \in Tree[periods[payments[l][i].period].commitmentRoot]
        /\ \E p \in 1..currentPeriod : CommitmentId(l) \in periods[p].commitmentIds

\* RootToPeriod(root) names the latest period run with that root.
RootToPeriodLatest ==
    \A root \in Roots :
        LET runs == {p \in 1..currentPeriod : periods[p].commitmentRoot = root}
        IN  IF runs = {} THEN rootToPeriod[root] = 0
                         ELSE rootToPeriod[root] = Max(runs)

\* No id is recorded by two periods, and the records are those ids.
IdsRecordedOnce ==
    /\ \A p, q \in 1..currentPeriod :
          p # q => periods[p].commitmentIds \cap periods[q].commitmentIds = {}
    /\ commitments = UNION {periods[p].commitmentIds : p \in 1..currentPeriod}

\* run_payroll writes a period in three places, which agree after any runs: each
\* id belongs to one period, and a root leads to its latest one.  So every
\* payment is for an id some verified period recorded, and is attributed to a
\* period whose root has its commitment below it.
PaymentsBacked == PaymentsRecorded /\ RootToPeriodLatest /\ IdsRecordedOnce

\* Escrow grows only by the total of the one period a step adds, which is
\* within the cap of that moment, and shrinks only by one committed salary
\* whose nullifier that step spends.
EscrowMoves ==
    [][\A t \in Tokens :
        LET before == balance[t][Contract]
            after  == balance'[t][Contract]
        IN  /\ after > before =>
                 /\ currentPeriod' = currentPeriod + 1
                 /\ after - before = periods'[currentPeriod'].totalAmount
                 /\ after - before <= budgetCap
            /\ after < before =>
                 \E l \in Leaves :
                    /\ nullifiers' = nullifiers \cup {Nullifier(l)}
                    /\ Nullifier(l) \notin nullifiers
                    /\ before - after = Salary[l]]_vars

\* A verified period, a recorded id and a spent nullifier are never rewritten.
RecordsPermanent ==
    [][/\ \A p \in 1..currentPeriod : periods'[p] = periods[p]
       /\ commitments \subseteq commitments'
       /\ nullifiers \subseteq nullifiers']_vars

-----------------------------------------------------------------------------
(* Properties of the employer's calls (EmployerSpec).                      *)

\* The escrow covers what is owed, to the stroop: the recorded commitments
\* that have not been withdrawn, all in the current token.
Solvent ==
    \A t \in Tokens :
        balance[t][Contract] = IF t = token THEN Total(Outstanding) ELSE 0

\* Nobody is locked out: every outstanding commitment can be withdrawn now
\* with some known root, as soon as the withdraw verifier is in place.
NoStrandedCommitment ==
    withdrawVerifier = WithdrawCircuit =>
        \A l \in Outstanding : \E root \in Roots : WithdrawAccepts(root, l)

-----------------------------------------------------------------------------
\* The contract as an escrow account.
Escrow == INSTANCE PayrollEscrow WITH
    status <- [l \in Leaves |-> IF Spent(l) THEN "paid"
                                ELSE IF Recorded(l) THEN "funded"
                                ELSE "unfunded"],
    escrow <- balance[token][Contract],
    Amount <- Total

ImplementsEscrow == Escrow!Spec
=============================================================================
