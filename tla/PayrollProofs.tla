--------------------------- MODULE PayrollProofs ---------------------------
(***************************************************************************)
(* Theorems about the payroll contract (module Payroll), for all sets of   *)
(* trees, commitments, tokens, accounts and every bound.                   *)
(***************************************************************************)
EXTENDS Payroll, AmountsProofs

USE CircuitAssumption, PayrollAssumption

-----------------------------------------------------------------------------
(* Type correctness.                                                       *)

\* A covered transfer leaves natural balances.
LEMMA MovedType ==
    ASSUME TypeOK, NEW t \in Tokens, NEW from \in Accounts,
           NEW to \in Accounts, NEW amount \in Nat, Covered(t, from, amount)
    PROVE  /\ Moved(t, from, to, amount) \in [Tokens -> [Accounts -> Nat]]
           /\ from # to =>
                /\ Moved(t, from, to, amount)[t][from] = balance[t][from] - amount
                /\ Moved(t, from, to, amount)[t][to] = balance[t][to] + amount
           /\ \A u \in Tokens : u # t =>
                Moved(t, from, to, amount)[u] = balance[u]
<1> DEFINE row == [a \in Accounts |->
                    CASE from = to -> balance[t][a]
                      [] from # to /\ a = from -> balance[t][a] - amount
                      [] from # to /\ a = to -> balance[t][a] + amount
                      [] OTHER -> balance[t][a]]
<1>1. balance \in [Tokens -> [Accounts -> Nat]]
  BY DEF TypeOK
<1>2. row \in [Accounts -> Nat]
  BY <1>1 DEF Covered
<1>3. Moved(t, from, to, amount) = [balance EXCEPT ![t] = row]
  BY <1>1 DEF Moved
<1>4. from # to => /\ row[from] = balance[t][from] - amount
                   /\ row[to] = balance[t][to] + amount
  OBVIOUS
<1> HIDE DEF row
<1> QED
  BY <1>1, <1>2, <1>3, <1>4

LEMMA SettingsType ==
    TypeOK /\ Settings => TypeOK'
BY DEF TypeOK, Settings, SetEmployeeRoot, SetBudgetCap, SetToken, SetVerifier,
       SetWithdrawVerifier, records, ledger

LEMMA AuditingType ==
    TypeOK /\ Auditing => TypeOK'
BY DEF TypeOK, Auditing, GrantAuditor, RevokeAuditor, config, records, ledger

LEMMA RunPayrollType ==
    ASSUME TypeOK, NEW root \in Roots, NEW total \in 0..MaxI128,
           NEW period \in 0..MaxPeriod, NEW ids \in SUBSET CommitmentIds,
           RunPayroll(root, total, period, ids)
    PROVE  TypeOK'
<1>1. period = currentPeriod + 1 /\ currentPeriod \in Nat
  BY DEF TypeOK, RunPayroll, RunPayrollAccepts, IsNextPeriod
<1>2. 1..currentPeriod' = (1..currentPeriod) \cup {period}
  BY <1>1 DEF RunPayroll, RunPayrollStores
<1>3. periods' \in [1..currentPeriod' -> PeriodRecord]
  <2>1. [commitmentRoot |-> root, totalAmount |-> total, commitmentIds |-> ids]
          \in PeriodRecord
    BY DEF PeriodRecord
  <2> QED
    BY <1>2, <2>1 DEF TypeOK, RunPayroll, RunPayrollStores, Put
<1>4. fundedIn' \in [1..currentPeriod' -> Tokens]
  BY <1>2 DEF TypeOK, RunPayroll, Put
<1>5. rootToPeriod' \in [Roots -> 0..currentPeriod']
  BY <1>1 DEF TypeOK, RunPayroll, RunPayrollStores, MapRoot
<1>6. balance' \in [Tokens -> [Accounts -> Nat]]
  <2>1. token \in Tokens /\ Admin \in Accounts /\ Contract \in Accounts
    BY DEF TypeOK, Accounts
  <2>2. total \in Nat /\ Covered(token, Admin, total)
    BY DEF RunPayroll, RunPayrollAccepts
  <2> QED
    BY <2>1, <2>2, MovedType DEF RunPayroll
<1>7. currentPeriod' \in 0..MaxPeriod /\ commitments' \subseteq CommitmentIds
  BY <1>1 DEF TypeOK, RunPayroll, RunPayrollStores
<1> QED
  BY <1>3, <1>4, <1>5, <1>6, <1>7 DEF TypeOK, RunPayroll, config

LEMMA WithdrawType ==
    ASSUME TypeOK, NEW root \in Roots, NEW l \in Leaves,
           NEW recipient \in Recipients, Withdraw(root, l, recipient)
    PROVE  TypeOK'
<1>1. rootToPeriod[root] \in 1..MaxPeriod
  BY DEF TypeOK, Withdraw, WithdrawAccepts, KnownRoot
<1>2. payments' \in [Leaves -> Seq(Payment)]
  <2>1. [period |-> rootToPeriod[root], token |-> token,
         recipient |-> recipient] \in Payment
    BY <1>1 DEF TypeOK, Payment
  <2> QED
    BY <2>1 DEF TypeOK, Withdraw
<1>3. balance' \in [Tokens -> [Accounts -> Nat]]
  <2>1. token \in Tokens /\ recipient \in Accounts /\ Contract \in Accounts
    BY DEF TypeOK, Accounts
  <2>2. Salary[l] \in Nat /\ Covered(token, Contract, Salary[l])
    BY DEF Withdraw, WithdrawAccepts
  <2> QED
    BY <2>1, <2>2, MovedType DEF Withdraw
<1>4. nullifiers' \subseteq Nullifiers
  BY DEF TypeOK, Withdraw, Nullifiers
<1> QED
  BY <1>2, <1>3, <1>4 DEF TypeOK, Withdraw, config, records

LEMMA StepType ==
    TypeOK /\ [Next]_vars => TypeOK'
<1> SUFFICES ASSUME TypeOK, [Next]_vars PROVE TypeOK'
  OBVIOUS
<1>1. CASE Settings
  BY <1>1, SettingsType
<1>2. CASE Auditing
  BY <1>2, AuditingType
<1>3. CASE Paying
  BY <1>3, RunPayrollType DEF Paying
<1>4. CASE Withdrawing
  BY <1>4, WithdrawType DEF Withdrawing
<1>5. CASE UNCHANGED vars
  BY <1>5 DEF vars, config, records, ledger, TypeOK
<1> QED
  BY <1>1, <1>2, <1>3, <1>4, <1>5 DEF Next

LEMMA InitType ==
    Init => TypeOK
BY DEF Init, TypeOK, Accounts

\* Every call the contract accepts keeps the storage well formed: periods are
\* numbered 1..currentPeriod without a hole, and no balance is negative.
THEOREM PayrollTypeOK == Spec => []TypeOK
BY InitType, StepType, PTL DEF Spec

-----------------------------------------------------------------------------
(* Calls that leave the records, the nullifiers and the payments alone.    *)

LEMMA QuietStep ==
    ASSUME Settings \/ Auditing \/ UNCHANGED vars
    PROVE  UNCHANGED <<records, nullifiers, ledger>>
BY DEF Settings, SetEmployeeRoot, SetBudgetCap, SetToken, SetVerifier,
       SetWithdrawVerifier, Auditing, GrantAuditor, RevokeAuditor, vars

\* Different commitments have different ids and nullifiers.
LEMMA Injective ==
    \A l, m : /\ CommitmentId(l) = CommitmentId(m) => l = m
              /\ Nullifier(l) = Nullifier(m) => l = m
<1> SUFFICES ASSUME NEW l, NEW m
             PROVE  /\ CommitmentId(l) = CommitmentId(m) => l = m
                    /\ Nullifier(l) = Nullifier(m) => l = m
  OBVIOUS
<1>1. CommitmentId(l).commitment = l /\ CommitmentId(m).commitment = m
  BY DEF CommitmentId
<1>2. Nullifier(l).commitment = l /\ Nullifier(m).commitment = m
  BY DEF Nullifier
<1> QED
  BY <1>1, <1>2

-----------------------------------------------------------------------------
(* No commitment is paid twice.                                            *)

LEMMA PaidOnceStep ==
    ASSUME TypeOK, PaidOnce, [Next]_vars
    PROVE  PaidOnce'
<1>1. CASE Settings \/ Auditing \/ UNCHANGED vars
  BY <1>1, QuietStep DEF PaidOnce, Spent, ledger
<1>2. CASE Paying
  BY <1>2 DEF Paying, RunPayroll, PaidOnce, Spent
<1>3. CASE Withdrawing
  <2>1. PICK root \in Roots, m \in Leaves, recipient \in Recipients :
          Withdraw(root, m, recipient)
    BY <1>3 DEF Withdrawing
  <2>2. ~Spent(m) /\ payments[m] = <<>>
    BY <2>1 DEF Withdraw, WithdrawAccepts, PaidOnce
  <2> SUFFICES ASSUME NEW l \in Leaves
               PROVE  Len(payments'[l]) <= 1 /\ (Spent(l)' <=> payments'[l] # <<>>)
    BY DEF PaidOnce
  <2>3. CASE l = m
    <3> DEFINE paid == [period |-> rootToPeriod[root], token |-> token,
                        recipient |-> recipient]
    <3>1. payments'[l] = <<paid>>
      BY <2>1, <2>2, <2>3 DEF Withdraw, TypeOK
    <3>2. Nullifier(l) \in nullifiers'
      BY <2>1, <2>3 DEF Withdraw
    <3> HIDE DEF paid
    <3> QED
      BY <3>1, <3>2 DEF Spent
  <2>4. CASE l # m
    <3>1. payments'[l] = payments[l]
      BY <2>1, <2>4 DEF Withdraw, TypeOK
    <3>2. Spent(l)' <=> Spent(l)
      BY <2>1, <2>4, Injective DEF Withdraw, Spent
    <3> QED
      BY <3>1, <3>2 DEF PaidOnce
  <2> QED
    BY <2>3, <2>4
<1> QED
  BY <1>1, <1>2, <1>3 DEF Next

\* A commitment is paid at most once, whatever proofs are submitted, in any
\* period and under any root: the nullifier check of withdraw is enough.
THEOREM PayrollPaidOnce == Spec => []PaidOnce
<1>1. Init => PaidOnce
  BY DEF Init, PaidOnce, Spent
<1>2. TypeOK /\ PaidOnce /\ [Next]_vars => PaidOnce'
  BY PaidOnceStep
<1> QED
  BY <1>1, <1>2, PayrollTypeOK, PTL DEF Spec

-----------------------------------------------------------------------------
(* The records of verified periods.                                        *)

\* A verified period, a recorded id and a spent nullifier are never rewritten.
THEOREM PayrollRecordsPermanent == Spec => RecordsPermanent
<1> DEFINE Kept == /\ \A p \in 1..currentPeriod : periods'[p] = periods[p]
                   /\ commitments \subseteq commitments'
                   /\ nullifiers \subseteq nullifiers'
<1>1. ASSUME TypeOK, [Next]_vars PROVE Kept
  <2>1. CASE Settings \/ Auditing \/ UNCHANGED vars
    BY <2>1, QuietStep DEF records
  <2>2. CASE Paying
    <3>1. PICK root \in Roots, total \in 0..MaxI128, period \in 0..MaxPeriod,
               ids \in SUBSET CommitmentIds :
            RunPayroll(root, total, period, ids)
      BY <2>2 DEF Paying
    <3>2. period \notin 1..currentPeriod
      BY <1>1, <3>1 DEF RunPayroll, RunPayrollAccepts, IsNextPeriod, TypeOK
    <3>3. \A p \in 1..currentPeriod : periods'[p] = periods[p]
      BY <1>1, <3>1, <3>2 DEF RunPayroll, RunPayrollStores, Put, TypeOK
    <3> QED
      BY <3>1, <3>3 DEF RunPayroll, RunPayrollStores
  <2>3. CASE Withdrawing
    BY <2>3 DEF Withdrawing, Withdraw, records
  <2> QED
    BY <1>1, <2>1, <2>2, <2>3 DEF Next
<1> QED
  BY <1>1, PayrollTypeOK, PTL DEF Spec, RecordsPermanent

-----------------------------------------------------------------------------
(* What moves: escrow in with a run, out with a withdrawal.                *)

\* A run adds its total to the escrow of the current token only.
LEMMA RunPayrollMoves ==
    ASSUME TypeOK, NEW root \in Roots, NEW total \in 0..MaxI128,
           NEW period \in 0..MaxPeriod, NEW ids \in SUBSET CommitmentIds,
           RunPayroll(root, total, period, ids)
    PROVE  /\ total \in Nat /\ total <= budgetCap
           /\ period = currentPeriod + 1 /\ currentPeriod' = period
           /\ period \notin 1..currentPeriod /\ currentPeriod \in Nat
           /\ 1..currentPeriod' = (1..currentPeriod) \cup {period}
           /\ periods'[period] = [commitmentRoot |-> root, totalAmount |-> total,
                                  commitmentIds |-> ids]
           /\ \A p \in 1..currentPeriod :
                 periods'[p] = periods[p] /\ fundedIn'[p] = fundedIn[p]
           /\ fundedIn'[period] = token /\ token \in Tokens
           /\ balance'[token][Contract] = balance[token][Contract] + total
           /\ balance'[token][Admin] = balance[token][Admin] - total
           /\ \A u \in Tokens : u # token => balance'[u] = balance[u]
<1>1. total \in Nat /\ total <= budgetCap
  BY DEF RunPayroll, RunPayrollAccepts, WithinCap
<1>2. period = currentPeriod + 1 /\ currentPeriod \in Nat /\ currentPeriod' = period
  BY DEF TypeOK, RunPayroll, RunPayrollAccepts, RunPayrollStores, IsNextPeriod
<1>3. period \notin 1..currentPeriod
      /\ 1..currentPeriod' = (1..currentPeriod) \cup {period}
  BY <1>2
<1>4. /\ periods'[period] = [commitmentRoot |-> root, totalAmount |-> total,
                              commitmentIds |-> ids]
      /\ fundedIn'[period] = token /\ token \in Tokens
      /\ \A p \in 1..currentPeriod :
            periods'[p] = periods[p] /\ fundedIn'[p] = fundedIn[p]
  BY <1>3 DEF TypeOK, RunPayroll, RunPayrollStores, Put
<1>5. /\ balance'[token][Contract] = balance[token][Contract] + total
      /\ balance'[token][Admin] = balance[token][Admin] - total
      /\ \A u \in Tokens : u # token => balance'[u] = balance[u]
  <2>1. Admin \in Accounts /\ Contract \in Accounts /\ Admin # Contract
    BY DEF Accounts
  <2>2. Covered(token, Admin, total)
    BY DEF RunPayroll, RunPayrollAccepts
  <2>3. balance' = Moved(token, Admin, Contract, total)
    BY DEF RunPayroll
  <2> QED
    BY <1>1, <1>4, <2>1, <2>2, <2>3, MovedType
<1> QED
  BY <1>1, <1>2, <1>3, <1>4, <1>5

\* A withdrawal takes one committed salary from it.
LEMMA WithdrawMoves ==
    ASSUME TypeOK, NEW root \in Roots, NEW l \in Leaves,
           NEW recipient \in Recipients, Withdraw(root, l, recipient)
    PROVE  /\ token \in Tokens /\ Salary[l] \in Nat
           /\ balance'[token][Contract] = balance[token][Contract] - Salary[l]
           /\ \A u \in Tokens : u # token => balance'[u] = balance[u]
           /\ nullifiers' = nullifiers \cup {Nullifier(l)}
           /\ Nullifier(l) \notin nullifiers
<1>1. token \in Tokens /\ recipient \in Accounts /\ Contract \in Accounts
      /\ recipient # Contract /\ Salary[l] \in Nat
  BY DEF TypeOK, Accounts
<1>2. /\ Covered(token, Contract, Salary[l])
      /\ balance' = Moved(token, Contract, recipient, Salary[l])
      /\ nullifiers' = nullifiers \cup {Nullifier(l)}
      /\ Nullifier(l) \notin nullifiers
  BY DEF Withdraw, WithdrawAccepts, Spent
<1> QED
  BY <1>1, <1>2, MovedType

\* Escrow grows only by the total of the period a call adds, within the cap of
\* that moment, and shrinks only by a salary whose nullifier the call spends.
THEOREM PayrollEscrowMoves == Spec => EscrowMoves
<1> DEFINE Moves(t) ==
        LET before == balance[t][Contract]
            after  == balance'[t][Contract]
        IN  /\ after > before =>
                 /\ currentPeriod' = currentPeriod + 1
                 /\ after - before = periods'[currentPeriod'].totalAmount
                 /\ after - before <= budgetCap
            /\ after < before =>
                 \E l \in Leaves :
                    /\ nullifiers' = nullifiers \cup {Nullifier(l)}
                    /\ Nullifier(l) \notin nullifiers
                    /\ before - after = Salary[l]
<1>1. ASSUME TypeOK, [Next]_vars, NEW t \in Tokens PROVE Moves(t)
  <2>1. balance[t][Contract] \in Nat
    BY <1>1 DEF TypeOK, Accounts
  <2>2. CASE UNCHANGED balance[t]
    BY <2>1, <2>2
  <2>3. CASE Paying /\ balance'[t] # balance[t]
    <3>1. PICK root \in Roots, total \in 0..MaxI128, period \in 0..MaxPeriod,
               ids \in SUBSET CommitmentIds :
            RunPayroll(root, total, period, ids)
      BY <2>3 DEF Paying
    <3>2. /\ total \in Nat /\ total <= budgetCap
          /\ period = currentPeriod + 1 /\ currentPeriod' = period
          /\ periods'[period] = [commitmentRoot |-> root, totalAmount |-> total,
                                 commitmentIds |-> ids]
          /\ balance'[token][Contract] = balance[token][Contract] + total
          /\ \A u \in Tokens : u # token => balance'[u] = balance[u]
      BY <1>1, <3>1, RunPayrollMoves
    <3>3. t = token
      BY <2>3, <3>2
    <3>4. periods'[currentPeriod'].totalAmount = total
      BY <3>2
    <3> QED
      BY <2>1, <3>2, <3>3, <3>4
  <2>4. CASE Withdrawing /\ balance'[t] # balance[t]
    <3>1. PICK root \in Roots, l \in Leaves, recipient \in Recipients :
            Withdraw(root, l, recipient)
      BY <2>4 DEF Withdrawing
    <3>2. /\ Salary[l] \in Nat
          /\ balance'[t][Contract] = balance[t][Contract] - Salary[l]
          /\ nullifiers' = nullifiers \cup {Nullifier(l)}
          /\ Nullifier(l) \notin nullifiers
      BY <1>1, <2>4, <3>1, WithdrawMoves
    <3> QED
      BY <2>1, <3>2
  <2>5. CASE Settings \/ Auditing \/ UNCHANGED vars
    BY <2>2, <2>5, QuietStep DEF ledger
  <2> QED
    BY <1>1, <2>2, <2>3, <2>4, <2>5 DEF Next
<1>2. TypeOK /\ [Next]_vars => [\A t \in Tokens : Moves(t)]_vars
  BY <1>1
<1> QED
  BY <1>2, PayrollTypeOK, PTL DEF Spec, EscrowMoves

-----------------------------------------------------------------------------
(* Conservation.                                                           *)

\* The amounts of the periods and the payments made in token t.
Totals    == [p \in 1..currentPeriod |-> periods[p].totalAmount]
RunsIn(t) == {p \in 1..currentPeriod : fundedIn[p] = t}
PaidIn(t, l) == {i \in DOMAIN payments[l] : payments[l][i].token = t}
Paid(t)   == [l \in Leaves |-> Salary[l] * Cardinality(PaidIn(t, l))]

LEMMA SumsType ==
    ASSUME TypeOK, NEW t \in Tokens
    PROVE  /\ IsFiniteSet(RunsIn(t))
           /\ \A p \in RunsIn(t) : Totals[p] \in Nat
           /\ SumOf(RunsIn(t), Totals) \in Nat
           /\ \A l \in Leaves : IsFiniteSet(PaidIn(t, l))
           /\ \A l \in Leaves : Cardinality(PaidIn(t, l)) \in Nat
           /\ Paid(t) \in [Leaves -> Nat]
           /\ SumOf(Leaves, Paid(t)) \in Nat
<1>1. IsFiniteSet(1..currentPeriod) /\ RunsIn(t) \subseteq 1..currentPeriod
  BY FS_Interval DEF TypeOK, RunsIn
<1>2. IsFiniteSet(RunsIn(t))
  BY <1>1, FS_Subset
<1>3. \A p \in RunsIn(t) : Totals[p] \in Nat
  BY <1>1 DEF TypeOK, PeriodRecord, Totals
<1>4. SumOf(RunsIn(t), Totals) \in Nat
  <2> DEFINE S == RunsIn(t)
             g == [p \in S |-> Totals[p]]
  <2>1. g \in [S -> Nat] /\ \A p \in S : Totals[p] = g[p]
    BY <1>3
  <2> HIDE DEF S, g
  <2>2. IsFiniteSet(S)
    BY <1>2 DEF S
  <2>3. SumOf(S, Totals) = SumOf(S, g) /\ SumOf(S, g) \in Nat
    BY <2>1, <2>2, SumCongruent, SumNat
  <2> QED
    BY <2>3 DEF S
<1>5. \A l \in Leaves : IsFiniteSet(PaidIn(t, l))
  <2> TAKE l \in Leaves
  <2>1. Len(payments[l]) \in Nat /\ DOMAIN payments[l] = 1..Len(payments[l])
    BY DEF TypeOK
  <2>2. IsFiniteSet(1..Len(payments[l]))
    <3> DEFINE n == Len(payments[l])
    <3>1. n \in Nat
      BY <2>1
    <3> HIDE DEF n
    <3>2. IsFiniteSet(1..n)
      BY <3>1, FS_Interval
    <3> QED
      BY <3>2 DEF n
  <2>3. PaidIn(t, l) \subseteq 1..Len(payments[l])
    BY <2>1 DEF PaidIn
  <2> QED
    BY <2>2, <2>3, FS_Subset
<1>6. \A l \in Leaves : Cardinality(PaidIn(t, l)) \in Nat
  BY <1>5, FS_CardinalityType
<1>7. Paid(t) \in [Leaves -> Nat]
  BY <1>6 DEF Paid
<1>8. SumOf(Leaves, Paid(t)) \in Nat
  BY <1>7, SumNat
<1> QED
  BY <1>2, <1>3, <1>4, <1>5, <1>6, <1>7, <1>8

\* A run adds its total to what was escrowed in its token.
LEMMA RunPayrollEscrowed ==
    ASSUME TypeOK, NEW root \in Roots, NEW total \in 0..MaxI128,
           NEW period \in 0..MaxPeriod, NEW ids \in SUBSET CommitmentIds,
           RunPayroll(root, total, period, ids), NEW t \in Tokens
    PROVE  Escrowed(t)' = Escrowed(t) + (IF t = token THEN total ELSE 0)
<1>1. /\ total \in Nat
      /\ period \notin 1..currentPeriod /\ currentPeriod \in Nat
      /\ 1..currentPeriod' = (1..currentPeriod) \cup {period}
      /\ periods'[period] = [commitmentRoot |-> root, totalAmount |-> total,
                             commitmentIds |-> ids]
      /\ \A p \in 1..currentPeriod :
            periods'[p] = periods[p] /\ fundedIn'[p] = fundedIn[p]
      /\ fundedIn'[period] = token
  BY RunPayrollMoves
<1>2. /\ IsFiniteSet(RunsIn(t))
      /\ \A p \in RunsIn(t) : Totals[p] \in Nat
      /\ SumOf(RunsIn(t), Totals) \in Nat
  BY SumsType
<1>3. /\ \A p \in RunsIn(t) : Totals'[p] = Totals[p]
      /\ Totals'[period] = total
      /\ period \notin RunsIn(t)
  BY <1>1 DEF Totals, RunsIn
<1>4. RunsIn(t)' = IF t = token THEN RunsIn(t) \cup {period} ELSE RunsIn(t)
  BY <1>1 DEF RunsIn
<1>5. SumOf(RunsIn(t), Totals') = SumOf(RunsIn(t), Totals)
  BY <1>3, SumCongruent
<1>6. SumOf(RunsIn(t)', Totals')
        = SumOf(RunsIn(t), Totals) + (IF t = token THEN total ELSE 0)
  <2>1. CASE t # token
    BY <1>2, <1>4, <1>5, <2>1
  <2>2. CASE t = token
    <3> DEFINE S == RunsIn(t)  f == Totals'
    <3>1. /\ IsFiniteSet(S) /\ IsFiniteSet({period}) /\ S \cap {period} = {}
          /\ f[period] \in Nat
          /\ \A p \in S \cup {period} : f[p] \in Nat
      <4>1. IsFiniteSet({period})
        BY FS_Singleton
      <4>2. S \cap {period} = {} /\ f[period] \in Nat
        BY <1>1, <1>3
      <4>3. \A p \in S : f[p] \in Nat
        BY <1>2, <1>3
      <4> QED
        BY <1>2, <4>1, <4>2, <4>3
    <3> HIDE DEF S, f
    <3>2. SumOf(S \cup {period}, f) = SumOf(S, f) + SumOf({period}, f)
      BY <3>1, SumDisjoint
    <3>3. SumOf({period}, f) = f[period]
      BY <3>1, SumSingleton
    <3> QED
      BY <1>3, <1>4, <1>5, <2>2, <3>2, <3>3 DEF S, f
  <2> QED
    BY <2>1, <2>2
<1> QED
  BY <1>6 DEF Escrowed, RunsIn, Totals

\* A withdrawal adds its salary to what was paid in its token.
LEMMA WithdrawPaidOut ==
    ASSUME TypeOK, NEW root \in Roots, NEW l \in Leaves,
           NEW recipient \in Recipients, Withdraw(root, l, recipient),
           NEW t \in Tokens
    PROVE  PaidOut(t)' = PaidOut(t) + (IF t = token THEN Salary[l] ELSE 0)
<1> DEFINE paid == [period |-> rootToPeriod[root], token |-> token,
                    recipient |-> recipient]
           n == Len(payments[l])
<1>1. /\ payments[l] \in Seq(Payment) /\ n \in Nat
      /\ payments'[l] = Append(payments[l], paid)
      /\ \A m \in Leaves \ {l} : payments'[m] = payments[m]
  BY DEF Withdraw, TypeOK
<1>2. /\ Paid(t) \in [Leaves -> Nat]
      /\ IsFiniteSet(PaidIn(t, l)) /\ Cardinality(PaidIn(t, l)) \in Nat
  BY SumsType
<1>3. \A m \in Leaves \ {l} : Paid(t)'[m] = Paid(t)[m]
  BY <1>1 DEF Paid, PaidIn
<1>4. PaidIn(t, l)' = IF t = token THEN PaidIn(t, l) \cup {n + 1} ELSE PaidIn(t, l)
  <2>1. /\ DOMAIN payments'[l] = 1..(n + 1) /\ DOMAIN payments[l] = 1..n
        /\ \A i \in 1..n : payments'[l][i] = payments[l][i]
        /\ payments'[l][n + 1] = paid
    BY <1>1
  <2>2. 1..(n + 1) = (1..n) \cup {n + 1}
    BY <1>1
  <2>3. paid.token = token
    OBVIOUS
  <2> HIDE DEF paid, n
  <2> QED
    BY <2>1, <2>2, <2>3 DEF PaidIn
<1>5. n + 1 \notin PaidIn(t, l)
  BY <1>1 DEF PaidIn
<1>6. Cardinality(PaidIn(t, l)')
        = Cardinality(PaidIn(t, l)) + (IF t = token THEN 1 ELSE 0)
  <2>1. CASE t = token
    <3> DEFINE S == PaidIn(t, l)  k == n + 1
    <3>1. IsFiniteSet(S) /\ k \notin S
      BY <1>2, <1>5
    <3> HIDE DEF S, k
    <3>2. Cardinality(S \cup {k}) = Cardinality(S) + 1
      BY <3>1, FS_AddElement
    <3> QED
      BY <1>4, <2>1, <3>2 DEF S, k
  <2>2. CASE t # token
    BY <1>2, <1>4, <2>2
  <2> QED
    BY <2>1, <2>2
<1> HIDE DEF n, paid
<1>7. Paid(t)'[l] = Paid(t)[l] + (IF t = token THEN Salary[l] ELSE 0)
  <2> DEFINE c == Cardinality(PaidIn(t, l))
  <2>1. c \in Nat /\ Salary[l] \in Nat
    BY <1>2
  <2>2. Paid(t)[l] = Salary[l] * c /\ Paid(t)'[l] = Salary[l] * Cardinality(PaidIn(t, l)')
    BY DEF Paid
  <2> HIDE DEF c
  <2>3. Salary[l] * (c + 1) = Salary[l] * c + Salary[l]
        /\ Salary[l] * (c + 0) = Salary[l] * c + 0
    BY <2>1
  <2> QED
    BY <1>6, <2>2, <2>3 DEF c
<1>8. \A m \in Leaves : Paid(t)'[m] \in Nat
  BY <1>2, <1>3, <1>7
<1>9. SumOf(Leaves, Paid(t)') + Paid(t)[l] = SumOf(Leaves, Paid(t)) + Paid(t)'[l]
      /\ SumOf(Leaves, Paid(t)') \in Nat /\ SumOf(Leaves, Paid(t)) \in Nat
  <2> DEFINE f == Paid(t)  g == Paid(t)'
  <2>1. /\ \A m \in Leaves : f[m] \in Nat /\ g[m] \in Nat
        /\ \A m \in Leaves \ {l} : f[m] = g[m]
    BY <1>8, <1>2, <1>3
  <2> HIDE DEF f, g
  <2>2. SumOf(Leaves, g) + f[l] = SumOf(Leaves, f) + g[l]
        /\ SumOf(Leaves, f) \in Nat /\ SumOf(Leaves, g) \in Nat
    BY <2>1, SumChange
  <2> QED
    BY <2>2 DEF f, g
<1>10. SumOf(Leaves, Paid(t)')
         = SumOf(Leaves, Paid(t)) + (IF t = token THEN Salary[l] ELSE 0)
  <2>1. Paid(t)[l] \in Nat /\ Salary[l] \in Nat
    BY <1>2
  <2> QED
    BY <1>7, <1>9, <2>1
<1> QED
  BY <1>10 DEF PaidOut, Paid, PaidIn

LEMMA AccountsFinite == IsFiniteSet(Accounts)
<1>1. IsFiniteSet({Admin}) /\ IsFiniteSet({Contract}) /\ IsFiniteSet(Recipients)
  BY FS_Singleton
<1>2. IsFiniteSet({Admin} \cup {Contract})
  BY <1>1, FS_Union
<1>3. IsFiniteSet(Recipients \cup ({Admin} \cup {Contract}))
  BY <1>1, <1>2, FS_Union
<1>4. Accounts = Recipients \cup ({Admin} \cup {Contract})
  BY DEF Accounts
<1> QED
  BY <1>3, <1>4

\* A transfer creates and loses nothing.
LEMMA MovedSum ==
    ASSUME TypeOK, NEW t \in Tokens, NEW u \in Tokens, NEW from \in Accounts,
           NEW to \in Accounts, from # to, NEW amount \in Nat,
           Covered(t, from, amount)
    PROVE  SumOf(Accounts, Moved(t, from, to, amount)[u])
             = SumOf(Accounts, balance[u])
<1> DEFINE f == balance[t]
           g == Moved(t, from, to, amount)[t]
           h == [a \in Accounts |-> IF a = from THEN f[a] - amount ELSE f[a]]
<1>1. /\ f \in [Accounts -> Nat] /\ g \in [Accounts -> Nat]
      /\ f[from] >= amount
      /\ g[from] = f[from] - amount /\ g[to] = f[to] + amount
      /\ u # t => Moved(t, from, to, amount)[u] = balance[u]
  <2>1. f \in [Accounts -> Nat] /\ f[from] >= amount
    BY DEF TypeOK, Covered
  <2>2. /\ Moved(t, from, to, amount) \in [Tokens -> [Accounts -> Nat]]
        /\ Moved(t, from, to, amount)[t][from] = balance[t][from] - amount
        /\ Moved(t, from, to, amount)[t][to] = balance[t][to] + amount
        /\ \A v \in Tokens : v # t => Moved(t, from, to, amount)[v] = balance[v]
    BY MovedType
  <2> QED
    BY <2>1, <2>2
<1>2. \A a \in Accounts \ {from, to} : g[a] = f[a]
  BY DEF TypeOK, Moved
<1>3. IsFiniteSet(Accounts)
  BY AccountsFinite
<1>4. h \in [Accounts -> Nat]
  BY <1>1
<1>5. /\ h[from] = g[from] /\ h[to] = f[to]
      /\ \A a \in Accounts \ {from} : h[a] = f[a]
      /\ \A a \in Accounts \ {to} : h[a] = g[a]
  BY <1>1, <1>2
<1> HIDE DEF f, g, h
<1>6. \A a \in Accounts : f[a] \in Nat /\ g[a] \in Nat /\ h[a] \in Nat
  BY <1>1, <1>4
<1>7. /\ SumOf(Accounts, h) + f[from] = SumOf(Accounts, f) + h[from]
      /\ SumOf(Accounts, f) \in Nat /\ SumOf(Accounts, h) \in Nat
  BY <1>3, <1>5, <1>6, SumChange
<1>8. /\ SumOf(Accounts, g) + h[to] = SumOf(Accounts, h) + g[to]
      /\ SumOf(Accounts, g) \in Nat
  BY <1>3, <1>5, <1>6, SumChange
<1>9. SumOf(Accounts, g) = SumOf(Accounts, f)
  BY <1>1, <1>5, <1>6, <1>7, <1>8
<1> QED
  BY <1>1, <1>9 DEF f, g

LEMMA InitConservation ==
    Init => Conservation
<1> SUFFICES ASSUME Init, NEW t \in Tokens
             PROVE  /\ balance[t][Contract] + PaidOut(t) = Escrowed(t)
                    /\ SumOf(Accounts, balance[t]) = AdminFunds
  BY DEF Conservation
<1>1. PaidOut(t) = 0
  <2>1. \A l \in Leaves : Cardinality(PaidIn(t, l)) = 0
    BY FS_EmptySet DEF Init, PaidIn
  <2>2. \A l \in Leaves : Paid(t)[l] = 0
    BY <2>1 DEF Paid
  <2> QED
    BY <2>2, SumZero DEF PaidOut, Paid, PaidIn
<1>2. Escrowed(t) = 0
  <2>1. RunsIn(t) = {}
    BY DEF Init, RunsIn
  <2>2. SumOf(RunsIn(t), Totals) = 0
    BY <2>1, SumEmpty
  <2> QED
    BY <2>2 DEF Escrowed, RunsIn, Totals
<1>3. balance[t][Contract] = 0
  BY DEF Init, Accounts
<1>4. SumOf(Accounts, balance[t]) = AdminFunds
  <2> DEFINE f == balance[t]
  <2>1. /\ Admin \in Accounts /\ f[Admin] = AdminFunds
        /\ \A a \in Accounts \ {Admin} : f[a] = 0
        /\ \A a \in Accounts : f[a] \in Nat
    BY DEF Init, Accounts
  <2>2. IsFiniteSet(Accounts)
    BY AccountsFinite
  <2> HIDE DEF f
  <2>3. SumOf(Accounts, f) = SumOf(Accounts \ {Admin}, f) + f[Admin]
    BY <2>1, <2>2, SumSplit
  <2>4. SumOf(Accounts \ {Admin}, f) = 0
    BY <2>1, SumZero
  <2> QED
    BY <2>1, <2>3, <2>4 DEF f
<1> QED
  BY <1>1, <1>2, <1>3, <1>4

LEMMA ConservationStep ==
    ASSUME TypeOK, Conservation, [Next]_vars
    PROVE  Conservation'
<1> SUFFICES ASSUME NEW t \in Tokens
             PROVE  /\ balance'[t][Contract] + PaidOut(t)' = Escrowed(t)'
                    /\ SumOf(Accounts, balance'[t]) = AdminFunds
  BY DEF Conservation
<1>1. /\ balance[t][Contract] + PaidOut(t) = Escrowed(t)
      /\ SumOf(Accounts, balance[t]) = AdminFunds
  BY DEF Conservation
<1>2. balance[t][Contract] \in Nat /\ PaidOut(t) \in Nat /\ Escrowed(t) \in Nat
  <2>1. SumOf(RunsIn(t), Totals) \in Nat /\ SumOf(Leaves, Paid(t)) \in Nat
    BY SumsType
  <2>2. balance[t][Contract] \in Nat
    BY DEF TypeOK, Accounts
  <2> QED
    BY <2>1, <2>2 DEF Escrowed, PaidOut, RunsIn, Totals, Paid, PaidIn
<1>3. CASE Settings \/ Auditing \/ UNCHANGED vars
  <2>1. UNCHANGED <<currentPeriod, periods, balance, fundedIn, payments>>
    BY <1>3, QuietStep DEF records, ledger
  <2> QED
    BY <1>1, <2>1 DEF PaidOut, Escrowed
<1>4. CASE Paying
  <2>1. PICK root \in Roots, total \in 0..MaxI128, period \in 0..MaxPeriod,
             ids \in SUBSET CommitmentIds :
          RunPayroll(root, total, period, ids)
    BY <1>4 DEF Paying
  <2>2. Escrowed(t)' = Escrowed(t) + (IF t = token THEN total ELSE 0)
    BY <2>1, RunPayrollEscrowed
  <2>3. PaidOut(t)' = PaidOut(t)
    BY <2>1 DEF RunPayroll, PaidOut
  <2>4. /\ total \in Nat
        /\ balance'[token][Contract] = balance[token][Contract] + total
        /\ \A u \in Tokens : u # token => balance'[u] = balance[u]
    BY <2>1, RunPayrollMoves
  <2>5. SumOf(Accounts, balance'[t]) = SumOf(Accounts, balance[t])
    <3>1. /\ Admin \in Accounts /\ Contract \in Accounts /\ Admin # Contract
          /\ token \in Tokens /\ Covered(token, Admin, total)
          /\ balance' = Moved(token, Admin, Contract, total)
      BY <2>1 DEF Accounts, TypeOK, RunPayroll, RunPayrollAccepts
    <3> QED
      BY <2>4, <3>1, MovedSum
  <2> QED
    BY <1>1, <1>2, <2>2, <2>3, <2>4, <2>5
<1>5. CASE Withdrawing
  <2>1. PICK root \in Roots, l \in Leaves, recipient \in Recipients :
          Withdraw(root, l, recipient)
    BY <1>5 DEF Withdrawing
  <2>2. PaidOut(t)' = PaidOut(t) + (IF t = token THEN Salary[l] ELSE 0)
    BY <2>1, WithdrawPaidOut
  <2>3. Escrowed(t)' = Escrowed(t)
    BY <2>1 DEF Withdraw, records, Escrowed
  <2>4. /\ Salary[l] \in Nat
        /\ balance'[token][Contract] = balance[token][Contract] - Salary[l]
        /\ \A u \in Tokens : u # token => balance'[u] = balance[u]
    BY <2>1, WithdrawMoves
  <2>5. SumOf(Accounts, balance'[t]) = SumOf(Accounts, balance[t])
    <3>1. /\ recipient \in Accounts /\ Contract \in Accounts /\ recipient # Contract
          /\ token \in Tokens /\ Covered(token, Contract, Salary[l])
          /\ balance' = Moved(token, Contract, recipient, Salary[l])
      BY <2>1 DEF Accounts, TypeOK, Withdraw, WithdrawAccepts
    <3> QED
      BY <2>4, <3>1, MovedSum
  <2> QED
    BY <1>1, <1>2, <2>2, <2>3, <2>4, <2>5
<1> QED
  BY <1>3, <1>4, <1>5 DEF Next

\* Whatever the order of runs, withdrawals and changes of token, the contract
\* holds in each token what the periods escrowed in it less what withdrawals paid
\* in it, and the token contract's transfers create and lose nothing.
THEOREM PayrollConservation == Spec => []Conservation
<1>1. TypeOK /\ Conservation /\ [Next]_vars => Conservation'
  BY ConservationStep
<1> QED
  BY <1>1, InitConservation, PayrollTypeOK, PTL DEF Spec

-----------------------------------------------------------------------------
(* The three records of a period agree.                                    *)

RunsOf(root) == {p \in 1..currentPeriod : periods[p].commitmentRoot = root}

\* RootToPeriodLatest without its Max, and payments attributed to periods
\* there are: what a later run must not disturb.
LatestRun ==
    \A root \in Roots :
        /\ RunsOf(root) = {} => rootToPeriod[root] = 0
        /\ RunsOf(root) # {} => /\ rootToPeriod[root] \in RunsOf(root)
                                /\ \A p \in RunsOf(root) : p <= rootToPeriod[root]

PaymentsInPeriods ==
    \A l \in Leaves : \A i \in DOMAIN payments[l] :
        payments[l][i].period \in 1..currentPeriod

BackedInv == PaymentsRecorded /\ LatestRun /\ IdsRecordedOnce /\ PaymentsInPeriods

LEMMA LatestIsMax ==
    ASSUME TypeOK, LatestRun
    PROVE  RootToPeriodLatest
<1> SUFFICES ASSUME NEW root \in Roots, RunsOf(root) # {}
             PROVE  rootToPeriod[root] = Max(RunsOf(root))
  BY DEF RootToPeriodLatest, LatestRun, RunsOf
<1> DEFINE S == RunsOf(root)
           r == rootToPeriod[root]
<1>1. r \in S /\ (\A p \in S : p <= r) /\ S \subseteq Int
  BY DEF LatestRun, RunsOf
<1> HIDE DEF S, r
<1>2. \A x \in S : (\A y \in S : x >= y) => x = r
  BY <1>1
<1>3. \E x \in S : \A y \in S : x >= y
  BY <1>1
<1> QED
  BY <1>2, <1>3 DEF Max, S, r

LEMMA RunPayrollBacked ==
    ASSUME TypeOK, BackedInv, NEW root \in Roots, NEW total \in 0..MaxI128,
           NEW period \in 0..MaxPeriod, NEW ids \in SUBSET CommitmentIds,
           RunPayroll(root, total, period, ids)
    PROVE  BackedInv'
<1>1. /\ period = currentPeriod + 1 /\ currentPeriod' = period
      /\ period \notin 1..currentPeriod /\ currentPeriod \in Nat
      /\ 1..currentPeriod' = (1..currentPeriod) \cup {period}
      /\ periods'[period] = [commitmentRoot |-> root, totalAmount |-> total,
                             commitmentIds |-> ids]
      /\ \A p \in 1..currentPeriod : periods'[p] = periods[p]
  BY RunPayrollMoves
<1>2. /\ payments' = payments /\ commitments' = commitments \cup ids
      /\ rootToPeriod' = [rootToPeriod EXCEPT ![root] = period]
      /\ ids \cap commitments = {}
  BY DEF RunPayroll, RunPayrollStores, RunPayrollAccepts, MapRoot, AreNew
<1>3. periods'[period].commitmentRoot = root /\ periods'[period].commitmentIds = ids
  BY <1>1
<1>4. PaymentsInPeriods'
  BY <1>1, <1>2 DEF BackedInv, PaymentsInPeriods
<1>5. PaymentsRecorded'
  <2> SUFFICES ASSUME NEW l \in Leaves, NEW i \in DOMAIN payments[l]
               PROVE  /\ l \in Tree[periods'[payments[l][i].period].commitmentRoot]
                      /\ \E p \in 1..currentPeriod' :
                            CommitmentId(l) \in periods'[p].commitmentIds
    BY <1>2 DEF PaymentsRecorded
  <2>1. /\ payments[l][i].period \in 1..currentPeriod
        /\ l \in Tree[periods[payments[l][i].period].commitmentRoot]
        /\ \E p \in 1..currentPeriod : CommitmentId(l) \in periods[p].commitmentIds
    BY DEF BackedInv, PaymentsInPeriods, PaymentsRecorded
  <2> QED
    BY <1>1, <2>1
<1>6. LatestRun'
  <2> SUFFICES ASSUME NEW r \in Roots
               PROVE  /\ RunsOf(r)' = {} => rootToPeriod'[r] = 0
                      /\ RunsOf(r)' # {} =>
                            /\ rootToPeriod'[r] \in RunsOf(r)'
                            /\ \A p \in RunsOf(r)' : p <= rootToPeriod'[r]
    BY DEF LatestRun
  <2>1. CASE r = root
    <3>1. RunsOf(r)' \subseteq 1..currentPeriod' /\ period \in RunsOf(r)'
      BY <1>1, <1>3, <2>1 DEF RunsOf
    <3>2. rootToPeriod'[r] = period
      BY <1>2, <2>1 DEF TypeOK
    <3> QED
      BY <1>1, <3>1, <3>2
  <2>2. CASE r # root
    <3>1. RunsOf(r)' = RunsOf(r)
      BY <1>1, <1>3, <2>2 DEF RunsOf
    <3>2. rootToPeriod'[r] = rootToPeriod[r]
      BY <1>2, <2>2 DEF TypeOK
    <3> QED
      BY <3>1, <3>2 DEF BackedInv, LatestRun
  <2> QED
    BY <2>1, <2>2
<1>7. IdsRecordedOnce'
  <2>1. \A p \in 1..currentPeriod : periods[p].commitmentIds \subseteq commitments
    BY DEF BackedInv, IdsRecordedOnce
  <2>2. \A p, q \in 1..currentPeriod' :
           p # q => periods'[p].commitmentIds \cap periods'[q].commitmentIds = {}
    BY <1>1, <1>2, <1>3, <2>1 DEF BackedInv, IdsRecordedOnce
  <2>3. UNION {periods'[p].commitmentIds : p \in 1..currentPeriod'}
          = (UNION {periods[p].commitmentIds : p \in 1..currentPeriod}) \cup ids
    BY <1>1, <1>3
  <2> QED
    BY <1>2, <2>2, <2>3 DEF BackedInv, IdsRecordedOnce
<1> QED
  BY <1>4, <1>5, <1>6, <1>7 DEF BackedInv

\* A withdrawal's root is known, so some run has it, and its id is recorded.
LEMMA WithdrawBacked ==
    ASSUME TypeOK, BackedInv, NEW root \in Roots, NEW l \in Leaves,
           NEW recipient \in Recipients, Withdraw(root, l, recipient)
    PROVE  BackedInv'
<1> DEFINE paid == [period |-> rootToPeriod[root], token |-> token,
                    recipient |-> recipient]
<1>1. /\ payments[l] \in Seq(Payment) /\ Len(payments[l]) \in Nat
      /\ payments'[l] = Append(payments[l], paid)
      /\ \A m \in Leaves \ {l} : payments'[m] = payments[m]
      /\ UNCHANGED <<currentPeriod, periods, rootToPeriod, commitments>>
  BY DEF Withdraw, TypeOK, records
<1>2. /\ rootToPeriod[root] \in 1..currentPeriod
      /\ periods[rootToPeriod[root]].commitmentRoot = root
  <2>1. rootToPeriod[root] # 0
    BY DEF Withdraw, WithdrawAccepts, KnownRoot
  <2>2. rootToPeriod[root] \in RunsOf(root)
    BY <2>1 DEF BackedInv, LatestRun
  <2> QED
    BY <2>2 DEF RunsOf
<1>3. l \in Tree[root] /\ CommitmentId(l) \in commitments
  BY Injective DEF Withdraw, WithdrawAccepts, WithdrawProvable, Recorded
<1>4. \E p \in 1..currentPeriod : CommitmentId(l) \in periods[p].commitmentIds
  BY <1>3 DEF BackedInv, IdsRecordedOnce
<1>5. \A m \in Leaves : \A i \in DOMAIN payments'[m] :
         \/ i \in DOMAIN payments[m] /\ payments'[m][i] = payments[m][i]
         \/ m = l /\ payments'[m][i] = paid
  <2> SUFFICES ASSUME NEW i \in DOMAIN payments'[l]
               PROVE  \/ i \in DOMAIN payments[l] /\ payments'[l][i] = payments[l][i]
                      \/ payments'[l][i] = paid
    BY <1>1
  <2> HIDE DEF paid
  <2> QED
    BY <1>1
<1>6. paid.period = rootToPeriod[root]
  OBVIOUS
<1> HIDE DEF paid
<1>7. PaymentsInPeriods'
  BY <1>1, <1>2, <1>5, <1>6 DEF BackedInv, PaymentsInPeriods
<1>8. PaymentsRecorded'
  BY <1>1, <1>2, <1>3, <1>4, <1>5, <1>6 DEF BackedInv, PaymentsRecorded
<1>9. LatestRun' /\ IdsRecordedOnce'
  BY <1>1 DEF BackedInv, LatestRun, RunsOf, IdsRecordedOnce
<1> QED
  BY <1>7, <1>8, <1>9 DEF BackedInv

LEMMA BackedInvariant == Spec => []BackedInv
<1>1. Init => BackedInv
  BY DEF Init, BackedInv, PaymentsRecorded, PaymentsInPeriods, LatestRun, RunsOf,
         IdsRecordedOnce
<1>2. ASSUME TypeOK, BackedInv, [Next]_vars PROVE BackedInv'
  <2>1. CASE Settings \/ Auditing \/ UNCHANGED vars
    <3>1. UNCHANGED <<currentPeriod, periods, rootToPeriod, commitments, payments>>
      BY <2>1, QuietStep DEF records, ledger
    <3> QED
      BY <1>2, <3>1 DEF BackedInv, PaymentsRecorded, PaymentsInPeriods, LatestRun,
                        RunsOf, IdsRecordedOnce
  <2>2. CASE Paying
    BY <1>2, <2>2, RunPayrollBacked DEF Paying
  <2>3. CASE Withdrawing
    BY <1>2, <2>3, WithdrawBacked DEF Withdrawing
  <2> QED
    BY <1>2, <2>1, <2>2, <2>3 DEF Next
<1> QED
  BY <1>1, <1>2, PayrollTypeOK, PTL DEF Spec

\* Every payment is for an id some verified period recorded, and is attributed to
\* a period whose root has its commitment below it; an id belongs to one period
\* and a root leads to its latest one, whatever run_payroll is called with.
THEOREM PayrollPaymentsBacked == Spec => []PaymentsBacked
<1>1. TypeOK /\ BackedInv => PaymentsBacked
  BY LatestIsMax DEF BackedInv, PaymentsBacked
<1> QED
  BY <1>1, BackedInvariant, PayrollTypeOK, PTL

-----------------------------------------------------------------------------
(* The employer's calls: what is owed is in escrow.                        *)

\* A recorded commitment was opened by a verified batch: its salary passed the
\* range check, it fits a token amount, and a known root has it below it.
Opened(l) ==
    /\ InRange(l)
    /\ Salary[l] <= MaxI128
    /\ \E root \in Roots : l \in Tree[root] /\ KnownRoot(root)

EmployerInv ==
    /\ TypeOK
    /\ Solvent
    /\ \A l \in Leaves : Recorded(l) => Opened(l)
    /\ \A l \in Leaves : Spent(l) => Recorded(l)

\* Sums of sets of commitments.
LEMMA TotalFacts ==
    /\ \A S \in SUBSET Leaves : Total(S) \in Nat
    /\ Total({}) = 0
    /\ \A l \in Leaves : Total({l}) = Salary[l]
    /\ \A S, T \in SUBSET Leaves :
          S \cap T = {} => Total(S \cup T) = Total(S) + Total(T)
<1>1. \A S \in SUBSET Leaves : IsFiniteSet(S)
  BY FS_Subset
<1>2. \A S \in SUBSET Leaves : Total(S) \in Nat
  <2>1. TAKE S \in SUBSET Leaves
  <2>2. S \cup {} = S /\ S \cap {} = {} /\ IsFiniteSet(S)
    BY <1>1
  <2>3. \A l \in S : Salary[l] = [k \in S |-> Salary[k]][l]
    OBVIOUS
  <2>4. SumOf(S, Salary) = SumOf(S, [k \in S |-> Salary[k]])
    BY <2>3 DEF SumOf, Units
  <2>5. SumOf(S, [k \in S |-> Salary[k]]) \in Nat
    BY <2>2, SumNat
  <2> QED
    BY <2>4, <2>5 DEF Total
<1>3. Total({}) = 0
  BY SumEmpty DEF Total
<1>4. \A l \in Leaves : Total({l}) = Salary[l]
  BY SumSingleton DEF Total
<1>5. \A S, T \in SUBSET Leaves :
          S \cap T = {} => Total(S \cup T) = Total(S) + Total(T)
  <2>1. SUFFICES ASSUME NEW S \in SUBSET Leaves, NEW T \in SUBSET Leaves,
                        S \cap T = {}
                 PROVE  Total(S \cup T) = Total(S) + Total(T)
    OBVIOUS
  <2>2. IsFiniteSet(S) /\ IsFiniteSet(T)
    BY <1>1
  <2>3. \A x \in S \cup T : Salary[x] \in Nat
    OBVIOUS
  <2> QED
    BY <2>1, <2>2, <2>3, SumDisjoint DEF Total
<1> QED
  BY <1>2, <1>3, <1>4, <1>5

\* The employer makes only calls the contract's specification has.
LEMMA EmployerIsStep ==
    ASSUME [EmployerNext]_vars
    PROVE  [Next]_vars
<1>1. ASSUME NEW S \in Batches, PayBatch(S) PROVE Paying
  <2>1. PICK root \in Roots, period \in 0..MaxPeriod :
          RunPayroll(root, Total(S), period, {CommitmentId(l) : l \in S})
    BY <1>1 DEF PayBatch
  <2>2. S \in SUBSET Leaves
    BY DEF Batches
  <2>3. Total(S) \in 0..MaxI128
    BY <2>1, <2>2, TotalFacts DEF RunPayroll, RunPayrollAccepts
  <2>4. {CommitmentId(l) : l \in S} \in SUBSET CommitmentIds
    BY <2>2 DEF CommitmentIds
  <2> QED
    BY <2>1, <2>3, <2>4 DEF Paying
<1>2. EmployerSettings => Settings
  BY DEF EmployerSettings, Settings, SettleToken
<1> QED
  BY <1>1, <1>2 DEF EmployerNext, Next

LEMMA RunPayrollOutstanding ==
    ASSUME EmployerInv, NEW S \in Batches, NEW root \in Roots,
           NEW period \in 0..MaxPeriod,
           S \subseteq {l \in Tree[root] : InRange(l)},
           RunPayroll(root, Total(S), period, {CommitmentId(l) : l \in S})
    PROVE  /\ S \in SUBSET Leaves
           /\ \A l \in Leaves : Recorded(l)' <=> Recorded(l) \/ l \in S
           /\ \A l \in S : ~Recorded(l) /\ ~Spent(l)
           /\ \A l \in Leaves : Spent(l)' <=> Spent(l)
           /\ Outstanding' = Outstanding \cup S
           /\ Outstanding \cap S = {}
<1>1. S \in SUBSET Leaves
  BY DEF Batches
<1>2. \A l \in Leaves : Recorded(l)' <=> Recorded(l) \/ l \in S
  BY <1>1, Injective DEF RunPayroll, RunPayrollStores, Recorded
<1>3. \A l \in S : ~Recorded(l) /\ ~Spent(l)
  BY <1>1 DEF RunPayroll, RunPayrollAccepts, AreNew, Recorded, EmployerInv
<1>4. \A l \in Leaves : Spent(l)' <=> Spent(l)
  BY DEF RunPayroll, Spent
<1> QED
  BY <1>1, <1>2, <1>3, <1>4 DEF Outstanding

LEMMA WithdrawOutstanding ==
    ASSUME EmployerInv, NEW root \in Roots, NEW l \in Leaves,
           NEW recipient \in Recipients, Withdraw(root, l, recipient)
    PROVE  /\ l \in Outstanding
           /\ Outstanding' = Outstanding \ {l}
           /\ \A m \in Leaves : Recorded(m)' <=> Recorded(m)
           /\ \A m \in Leaves : Spent(m)' <=> Spent(m) \/ m = l
           /\ Total(Outstanding) = Total(Outstanding') + Salary[l]
<1>1. \A m \in Leaves : Recorded(m)' <=> Recorded(m)
  BY DEF Withdraw, records, Recorded
<1>2. \A m \in Leaves : Spent(m)' <=> Spent(m) \/ m = l
  BY Injective DEF Withdraw, Spent
<1>3. l \in Outstanding
  BY DEF Withdraw, WithdrawAccepts, Outstanding
<1>4. Outstanding' = Outstanding \ {l}
  BY <1>1, <1>2, <1>3 DEF Outstanding
<1>5. Total(Outstanding) = Total(Outstanding') + Salary[l]
  <2>1. Outstanding = Outstanding' \cup {l} /\ Outstanding' \cap {l} = {}
    BY <1>3, <1>4
  <2>2. Outstanding' \in SUBSET Leaves /\ {l} \in SUBSET Leaves
    BY <1>4 DEF Outstanding
  <2> QED
    BY <2>1, <2>2, TotalFacts
<1> QED
  BY <1>1, <1>2, <1>3, <1>4, <1>5

\* The token may change because nothing is owed in the old one.
LEMMA SettingsKeepInv ==
    ASSUME EmployerInv, EmployerSettings \/ Auditing \/ UNCHANGED vars
    PROVE  EmployerInv'
<1>1. TypeOK'
  BY EmployerIsStep, StepType DEF EmployerInv, EmployerNext
<1>2. UNCHANGED <<records, nullifiers, ledger>>
  BY QuietStep DEF EmployerSettings, Settings, SettleToken
<1>3. Outstanding' = Outstanding
  BY <1>2 DEF Outstanding, Recorded, Spent, records
<1>4. Solvent'
  <2>1. CASE token' = token
    BY <1>2, <1>3, <2>1 DEF EmployerInv, Solvent, ledger
  <2>2. CASE token' # token
    <3>1. Outstanding = {}
      BY <2>2 DEF EmployerSettings, SettleToken, SetEmployeeRoot,
                  SetBudgetCap, SetVerifier, SetWithdrawVerifier, Auditing,
                  GrantAuditor, RevokeAuditor, vars, config
    <3>2. \A t \in Tokens : balance[t][Contract] = 0
      BY <3>1, TotalFacts DEF EmployerInv, Solvent
    <3>3. Total(Outstanding') = 0
      BY <1>3, <3>1, TotalFacts
    <3> QED
      BY <1>2, <3>2, <3>3 DEF Solvent, ledger
  <2> QED
    BY <2>1, <2>2
<1>5. /\ \A l \in Leaves : (Recorded(l) => Opened(l))'
      /\ \A l \in Leaves : (Spent(l) => Recorded(l))'
  BY <1>2 DEF EmployerInv, Recorded, Spent, Opened, KnownRoot, records
<1> QED
  BY <1>1, <1>4, <1>5 DEF EmployerInv

LEMMA PayBatchKeepsInv ==
    ASSUME EmployerInv, NEW S \in Batches, PayBatch(S)
    PROVE  EmployerInv'
<1>1. PICK root \in Roots, period \in 0..MaxPeriod :
        /\ S \subseteq {l \in Tree[root] : InRange(l)}
        /\ RunPayroll(root, Total(S), period, {CommitmentId(l) : l \in S})
  BY DEF PayBatch
<1>2. TypeOK'
  BY EmployerIsStep, StepType DEF EmployerInv, EmployerNext
<1>3. /\ S \in SUBSET Leaves
      /\ \A l \in Leaves : Recorded(l)' <=> Recorded(l) \/ l \in S
      /\ \A l \in Leaves : Spent(l)' <=> Spent(l)
      /\ Outstanding' = Outstanding \cup S
      /\ Outstanding \cap S = {}
  BY <1>1, RunPayrollOutstanding
<1>4. Total(Outstanding') = Total(Outstanding) + Total(S)
  <2>1. Outstanding \in SUBSET Leaves
    BY DEF Outstanding
  <2> QED
    BY <1>3, <2>1, TotalFacts
<1>5. Solvent'
  <2>1. token \in Tokens /\ Admin \in Accounts /\ Contract \in Accounts
        /\ Admin # Contract /\ token' = token
    BY <1>1 DEF EmployerInv, TypeOK, Accounts, RunPayroll, config
  <2>2. Total(S) \in Nat /\ Covered(token, Admin, Total(S))
    BY <1>1, <1>3, TotalFacts DEF RunPayroll, RunPayrollAccepts
  <2>3. balance' = Moved(token, Admin, Contract, Total(S))
    BY <1>1 DEF RunPayroll
  <2>4. /\ balance'[token][Contract] = balance[token][Contract] + Total(S)
        /\ \A u \in Tokens : u # token => balance'[u] = balance[u]
    BY <2>1, <2>2, <2>3, MovedType DEF EmployerInv
  <2> QED
    BY <1>4, <2>1, <2>4 DEF EmployerInv, Solvent
<1>6. \A l \in Leaves : (Recorded(l) => Opened(l))'
  <2> SUFFICES ASSUME NEW l \in Leaves, Recorded(l)'
               PROVE  Opened(l)'
    OBVIOUS
  <2>1. \A r \in Roots : KnownRoot(r) => KnownRoot(r)'
    BY <1>1 DEF RunPayroll, RunPayrollAccepts, RunPayrollStores, MapRoot,
                IsNextPeriod, KnownRoot, EmployerInv, TypeOK
  <2>2. KnownRoot(root)'
    BY <1>1 DEF RunPayroll, RunPayrollAccepts, RunPayrollStores, MapRoot,
                IsNextPeriod, KnownRoot, EmployerInv, TypeOK
  <2>3. CASE Recorded(l)
    BY <2>1, <2>3 DEF EmployerInv, Opened
  <2>4. CASE l \in S
    <3>1. Salary[l] <= Total(S)
      <4>1. S = (S \ {l}) \cup {l} /\ (S \ {l}) \cap {l} = {}
        BY <2>4
      <4>2. S \ {l} \in SUBSET Leaves /\ {l} \in SUBSET Leaves
        BY <1>3
      <4>3. Total(S) = Total(S \ {l}) + Salary[l]
        BY <4>1, <4>2, TotalFacts
      <4> QED
        BY <4>2, <4>3, TotalFacts
    <3>2. Total(S) <= MaxI128 /\ Total(S) \in Nat
      BY <1>1, <1>3, TotalFacts DEF RunPayroll, RunPayrollAccepts
    <3>3. Salary[l] <= MaxI128
      BY <3>1, <3>2
    <3> QED
      BY <1>1, <2>2, <2>4, <3>3 DEF Opened
  <2> QED
    BY <1>3, <2>3, <2>4
<1>7. \A l \in Leaves : (Spent(l) => Recorded(l))'
  BY <1>3 DEF EmployerInv
<1> QED
  BY <1>2, <1>5, <1>6, <1>7 DEF EmployerInv

LEMMA WithdrawKeepsInv ==
    ASSUME EmployerInv, NEW root \in Roots, NEW l \in Leaves,
           NEW recipient \in Recipients, Withdraw(root, l, recipient)
    PROVE  EmployerInv'
<1>1. TypeOK'
  BY WithdrawType DEF EmployerInv
<1>2. /\ Total(Outstanding) = Total(Outstanding') + Salary[l]
      /\ l \in Outstanding
      /\ \A m \in Leaves : Recorded(m)' <=> Recorded(m)
      /\ \A m \in Leaves : Spent(m)' <=> Spent(m) \/ m = l
  BY WithdrawOutstanding
<1>3. Solvent'
  <2>1. token \in Tokens /\ recipient \in Accounts /\ Contract \in Accounts
        /\ recipient # Contract /\ token' = token
    BY DEF EmployerInv, TypeOK, Accounts, Withdraw, config
  <2>2. Salary[l] \in Nat /\ Covered(token, Contract, Salary[l])
    BY DEF Withdraw, WithdrawAccepts
  <2>3. balance' = Moved(token, Contract, recipient, Salary[l])
    BY DEF Withdraw
  <2>4. /\ balance'[token][Contract] = balance[token][Contract] - Salary[l]
        /\ \A u \in Tokens : u # token => balance'[u] = balance[u]
    BY <2>1, <2>2, <2>3, MovedType DEF EmployerInv
  <2>5. Total(Outstanding') \in Nat
    BY TotalFacts DEF Outstanding
  <2> QED
    BY <1>2, <2>1, <2>2, <2>4, <2>5 DEF EmployerInv, Solvent
<1>4. \A m \in Leaves : (Recorded(m) => Opened(m))'
  BY <1>2 DEF EmployerInv, Opened, KnownRoot, Withdraw, records
<1>5. \A m \in Leaves : (Spent(m) => Recorded(m))'
  BY <1>2 DEF EmployerInv, Outstanding
<1> QED
  BY <1>1, <1>3, <1>4, <1>5 DEF EmployerInv

LEMMA EmployerInvariant == EmployerSpec => []EmployerInv
<1>1. Init => EmployerInv
  <2> SUFFICES ASSUME Init PROVE EmployerInv
    OBVIOUS
  <2>1. \A l \in Leaves : ~Recorded(l) /\ ~Spent(l)
    BY DEF Init, Recorded, Spent
  <2>2. Outstanding = {}
    BY <2>1 DEF Outstanding
  <2>3. Solvent
    BY <2>2, TotalFacts DEF Init, Solvent, Accounts
  <2> QED
    BY <2>1, <2>3, InitType DEF EmployerInv
<1>2. EmployerInv /\ [EmployerNext]_vars => EmployerInv'
  BY SettingsKeepInv, PayBatchKeepsInv, WithdrawKeepsInv
     DEF EmployerNext, Withdrawing
<1> QED
  BY <1>1, <1>2, PTL DEF EmployerSpec

\* As long as the employer proves batches of different commitments, lists
\* their ids and settles before changing the token, the escrow is exactly
\* what is owed.
THEOREM EmployerSolvent == EmployerSpec => []Solvent
BY EmployerInvariant, PTL DEF EmployerInv

\* Then every employee still owed a salary can take it out with the
\* contract's next call, once the withdraw verifier is set.
THEOREM EmployerNoStranded == EmployerSpec => []NoStrandedCommitment
<1>1. EmployerInv => NoStrandedCommitment
  <2> SUFFICES ASSUME EmployerInv, withdrawVerifier = WithdrawCircuit,
                      NEW l \in Outstanding
               PROVE  \E root \in Roots : WithdrawAccepts(root, l)
    BY DEF NoStrandedCommitment
  <2>1. l \in Leaves /\ Recorded(l) /\ ~Spent(l)
    BY DEF Outstanding
  <2>2. Opened(l)
    BY <2>1 DEF EmployerInv
  <2>3. Covered(token, Contract, Salary[l])
    <3>1. Outstanding = (Outstanding \ {l}) \cup {l}
          /\ (Outstanding \ {l}) \cap {l} = {}
      OBVIOUS
    <3>2. Outstanding \ {l} \in SUBSET Leaves /\ {l} \in SUBSET Leaves
      BY DEF Outstanding
    <3>3. Total(Outstanding) = Total(Outstanding \ {l}) + Salary[l]
      BY <2>1, <3>1, <3>2, TotalFacts
    <3>4. balance[token][Contract] = Total(Outstanding)
      BY DEF EmployerInv, Solvent, TypeOK
    <3> QED
      BY <2>1, <3>2, <3>3, <3>4, TotalFacts DEF Covered
  <2>4. PICK root \in Roots : l \in Tree[root] /\ KnownRoot(root)
    BY <2>2 DEF Opened
  <2>5. WithdrawProvable(root, CommitmentId(l), Nullifier(l), Salary[l])
    BY <2>2, <2>4 DEF WithdrawProvable, Opened
  <2> QED
    BY <2>1, <2>2, <2>3, <2>4, <2>5 DEF WithdrawAccepts, Opened
<1> QED
  BY <1>1, EmployerInvariant, PTL

-----------------------------------------------------------------------------
(* The contract implements the escrow account.                             *)

\* Every accepted call of the employer or an employee is one step of the
\* abstract account, or none: a run funds commitments never funded before, a
\* withdrawal pays one funded commitment.
THEOREM EmployerImplementsEscrow == EmployerSpec => ImplementsEscrow
<1> DEFINE status == [l \in Leaves |-> IF Spent(l) THEN "paid"
                                       ELSE IF Recorded(l) THEN "funded"
                                       ELSE "unfunded"]
           escrow == balance[token][Contract]
<1>1. Init => Escrow!Init
  <2> SUFFICES ASSUME Init PROVE Escrow!Init
    OBVIOUS
  <2>1. \A l \in Leaves : ~Spent(l) /\ ~Recorded(l)
    BY DEF Init, Spent, Recorded
  <2>2. escrow = 0
    BY DEF Init, Accounts
  <2> QED
    BY <2>1, <2>2 DEF Escrow!Init
<1>2. ASSUME EmployerInv, EmployerInv',
             EmployerSettings \/ Auditing \/ UNCHANGED vars
      PROVE  UNCHANGED Escrow!svars
  <2>1. UNCHANGED <<records, nullifiers, ledger>>
    BY <1>2, QuietStep DEF EmployerSettings, Settings, SettleToken
  <2>2. status' = status
    BY <2>1 DEF records, Recorded, Spent
  <2>3. escrow = Total(Outstanding) /\ escrow' = Total(Outstanding')
    BY <1>2 DEF EmployerInv, Solvent, TypeOK
  <2>4. Outstanding' = Outstanding
    BY <2>1 DEF Outstanding, Recorded, Spent, records
  <2> QED
    BY <2>2, <2>3, <2>4 DEF Escrow!svars
<1>3. ASSUME EmployerInv, EmployerInv', NEW S \in Batches, PayBatch(S)
      PROVE  Escrow!Fund(S)
  <2>1. PICK root \in Roots, period \in 0..MaxPeriod :
          /\ S \subseteq {l \in Tree[root] : InRange(l)}
          /\ RunPayroll(root, Total(S), period, {CommitmentId(l) : l \in S})
    BY <1>3 DEF PayBatch
  <2>2. /\ S \in SUBSET Leaves
        /\ \A l \in Leaves : Recorded(l)' <=> Recorded(l) \/ l \in S
        /\ \A l \in S : ~Recorded(l) /\ ~Spent(l)
        /\ \A l \in Leaves : Spent(l)' <=> Spent(l)
        /\ Outstanding' = Outstanding \cup S
        /\ Outstanding \cap S = {}
    BY <1>3, <2>1, RunPayrollOutstanding
  <2>3. escrow' = escrow + Total(S)
    <3>1. Outstanding \in SUBSET Leaves
      BY DEF Outstanding
    <3>2. Total(Outstanding') = Total(Outstanding) + Total(S)
      BY <2>2, <3>1, TotalFacts
    <3>3. escrow = Total(Outstanding) /\ escrow' = Total(Outstanding')
      BY <1>3 DEF EmployerInv, Solvent, TypeOK
    <3> QED
      BY <3>2, <3>3
  <2>4. \A l \in S : status[l] = "unfunded"
    BY <2>2
  <2>5. status' = [l \in Leaves |-> IF l \in S THEN "funded" ELSE status[l]]
    BY <2>2
  <2> QED
    BY <2>3, <2>4, <2>5 DEF Escrow!Fund
<1>4. ASSUME EmployerInv, EmployerInv', NEW root \in Roots, NEW l \in Leaves,
             NEW recipient \in Recipients, Withdraw(root, l, recipient)
      PROVE  Escrow!Pay(l)
  <2>1. /\ l \in Outstanding
        /\ \A m \in Leaves : Recorded(m)' <=> Recorded(m)
        /\ \A m \in Leaves : Spent(m)' <=> Spent(m) \/ m = l
        /\ Total(Outstanding) = Total(Outstanding') + Salary[l]
    BY <1>4, WithdrawOutstanding
  <2>2. escrow = Total(Outstanding) /\ escrow' = Total(Outstanding')
    BY <1>4 DEF EmployerInv, Solvent, TypeOK
  <2>3. Total(Outstanding') \in Nat
    BY TotalFacts DEF Outstanding
  <2>4. escrow' = escrow - Total({l})
    BY <2>1, <2>2, <2>3, TotalFacts
  <2>5. status[l] = "funded"
    BY <2>1 DEF Outstanding
  <2>6. status' = [status EXCEPT ![l] = "paid"]
    BY <2>1
  <2> QED
    BY <2>4, <2>5, <2>6 DEF Escrow!Pay
<1>5. EmployerInv /\ EmployerInv' /\ [EmployerNext]_vars
        => [Escrow!Next]_(Escrow!svars)
  <2>1. \A S \in Batches : S \in SUBSET Leaves
    BY DEF Batches
  <2> QED
    BY <1>2, <1>3, <1>4, <2>1 DEF EmployerNext, Withdrawing, Escrow!Next
<1> QED
  BY <1>1, <1>5, EmployerInvariant, PTL
     DEF EmployerSpec, ImplementsEscrow, Escrow!Spec
=============================================================================
