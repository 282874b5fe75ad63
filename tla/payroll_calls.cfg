SPECIFICATION Spec
CONSTANTS
    r1 = r1
    r2 = r2
    a = a
    b = b
    pad = pad
    Roots <- MCRoots
    Leaves <- CallLeaves
    Tree <- CallTree
    Salary <- CallSalary
    SalaryLimit = 3
    BatchSize = 2
    Admin = admin
    Contract = contract
    Recipients = {e1}
    Auditors = {}
    Tokens = {t1, t2}
    Verifiers = {vBatch, vWithdraw}
    BatchVerifier = vBatch
    WithdrawCircuit = vWithdraw
    NotSet = NotSet
    BudgetCaps = {2, 3}
    AdminFunds = 6
    MaxI128 = 4
    MaxPeriod = 2
INVARIANTS
    TypeOK
    Conservation
    PaidOnce
    PaymentsBacked
PROPERTIES
    EscrowMoves
    RecordsPermanent
CHECK_DEADLOCK FALSE
