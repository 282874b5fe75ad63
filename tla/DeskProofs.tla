----------------------------- MODULE DeskProofs -----------------------------
(***************************************************************************)
(* Theorems about the two clients of the payroll contract. First the       *)
(* employer's dashboard (module PayrollDesk), for all sets of employees    *)
(* and salts, all wages, budgets and bounds on the periods.                *)
(***************************************************************************)
EXTENDS MCPayrollDesk, AmountsProofs

LEMMA DeskBounds ==
    /\ IsFiniteSet(Employees) /\ Employees # {}
    /\ Wage \in [Employees -> Nat \ {0}]
    /\ BatchSize \in Nat \ {0} /\ Budget \in Nat /\ MaxPeriod \in Nat
    /\ None \notin Employees /\ None \notin Roots /\ None \notin Draws
    /\ None \notin Proofs /\ None \notin Provings /\ None \notin Submissions
    /\ None \notin RootCalls /\ None \notin RunCalls
BY DeskAssumption DEF Roots

-----------------------------------------------------------------------------
(* The inductive invariant.                                                *)

\* What the dashboard needs of the contract's storage.
ContractShape ==
    /\ currentPeriod \in 0..MaxPeriod
    /\ DOMAIN periods = 1..currentPeriod
    /\ employeeRoot \in Roots
    /\ budgetCap = Budget

\* The store's statuses follow each other: nothing is submitted, and no later
\* step reached, without a proof, and what is under way shows in its status.
WizardInv ==
    /\ wizard.step \in {"confirm", "submit"} => wizard.proof = "success"
    /\ wizard.submission # "idle" => wizard.proof = "success"
    /\ proving # None =>
          wizard.proof = "generating" /\ wizard.step \in {"review", "proof"}
    /\ submitting # None => wizard.submission = "submitting"

\* The slots of the page are those of its proof once the proof is made, and
\* those of the proof being made until then.
SlotsInv ==
    /\ proving # None => IF proving.shown THEN view.slots = proving.draw
                                          ELSE view.proof = None
    /\ wizard.proof = "success" /\ view.proof # None =>
          view.slots = view.proof.draw

\* A call lists the ids of the slots it was proved with.
Listed(call) ==
    /\ call.ids = ListedIds(call.root)
    /\ Cardinality(Employees) <= BatchSize

IsRecorded(draw, period) ==
    period \in 1..currentPeriod /\ periods[period].commitmentRoot = draw

\* The submission on the page is that of the page's proof, and it is taken for
\* a success only when its own transaction was applied.
CallsInv ==
    /\ view.proof # None => Cardinality(Employees) <= BatchSize
    /\ submitting # None =>
          /\ Listed(submitting.call)
          /\ IF submitting.shown
             THEN /\ view.proof # None
                  /\ submitting.call.root = view.proof.draw
                  /\ submitting.call.period = view.proof.period
             ELSE view.proof = None
          /\ submitting.ledger = "pending" => sent = submitting.call
          /\ submitting.ledger = "success" =>
                IsRecorded(submitting.call.root, submitting.call.period)
    /\ sent # None /\ sent.kind = "run" => Listed(sent)
    /\ wizard.submission = "success" /\ view.proof # None =>
          IsRecorded(view.proof.draw, view.proof.period)

PeriodsInv ==
    \A p \in 1..currentPeriod :
        /\ periods[p].totalAmount = TotalPay
        /\ periods[p].commitmentRoot \in Draws
        /\ periods[p].commitmentIds = ListedIds(periods[p].commitmentRoot)

DeskInv ==
    TypeOK /\ ContractShape /\ WizardInv /\ SlotsInv /\ CallsInv /\ PeriodsInv

\* The ids listed are ids of commitments.
LEMMA ListedType ==
    ASSUME NEW draw \in Draws
    PROVE  /\ SlotsOf(draw) \subseteq Slots
           /\ ListedIds(draw) \subseteq Contract!CommitmentIds
<1>1. SlotsOf(draw) \subseteq Slots
  BY DEF Draws, SlotsOf, Slots
<1> QED
  BY <1>1 DEF ListedIds, Contract!CommitmentIds, Leaves

-----------------------------------------------------------------------------
(* The actions that leave the contract alone.  The values of the dashboard *)
(* are records throughout.                                                 *)

USE DEF Wizards, Views, Provings, Submissions

LEMMA ContractAlone ==
    ASSUME DeskInv, UNCHANGED contract, TypeOK', WizardInv', SlotsInv', CallsInv'
    PROVE  DeskInv'
<1>1. UNCHANGED <<currentPeriod, periods, employeeRoot, budgetCap>>
  BY DEF contract
<1> QED
  BY <1>1 DEF DeskInv, ContractShape, PeriodsInv

LEMMA OpenPageInv ==
    ASSUME DeskInv, NEW p \in {"payroll", "employees"}, OpenPage(p)
    PROVE  DeskInv'
<1> USE DEF OpenPage, NewView
<1>1. TypeOK'
  <2>1. proving' \in Provings \cup {None}
    BY DEF DeskInv, TypeOK
  <2>2. submitting' \in Submissions \cup {None}
    BY DEF DeskInv, TypeOK
  <2>3. 0 \in 0..MaxPeriod
    BY DeskBounds
  <2>4. view' \in Views
    BY <2>3
  <2> QED
    BY <2>1, <2>2, <2>4 DEF DeskInv, TypeOK
<1>2. WizardInv'
  BY DEF DeskInv, TypeOK, WizardInv
<1>3. SlotsInv'
  BY DEF DeskInv, TypeOK, WizardInv, SlotsInv
<1>4. CallsInv'
  BY DeskBounds DEF DeskInv, TypeOK, WizardInv, SlotsInv, CallsInv, IsRecorded, contract
<1> QED
  BY <1>1, <1>2, <1>3, <1>4, ContractAlone

LEMMA ReloadInv ==
    ASSUME DeskInv, Reload
    PROVE  DeskInv'
<1> USE DEF Reload, NewWizard, NewView
<1>1. TypeOK'
  BY DeskBounds DEF DeskInv, TypeOK, ContractShape
<1>2. WizardInv'
  BY DEF DeskInv, TypeOK, WizardInv
<1>3. SlotsInv'
  BY DEF DeskInv, TypeOK, WizardInv, SlotsInv
<1>4. CallsInv'
  BY DeskBounds DEF DeskInv, TypeOK, WizardInv, SlotsInv, CallsInv, IsRecorded, contract
<1> QED
  BY <1>1, <1>2, <1>3, <1>4, ContractAlone

LEMMA BuildTreeInv ==
    ASSUME DeskInv, NEW draw \in Draws, BuildTree(draw)
    PROVE  DeskInv'
<1> USE DEF BuildTree
<1>1. TypeOK'
  BY DeskBounds DEF DeskInv, TypeOK, ContractShape
<1>2. WizardInv'
  BY DEF DeskInv, TypeOK, WizardInv
<1>3. SlotsInv'
  BY DEF DeskInv, TypeOK, WizardInv, SlotsInv
<1>4. CallsInv'
  BY DeskBounds DEF DeskInv, TypeOK, WizardInv, SlotsInv, CallsInv, IsRecorded, contract
<1> QED
  BY <1>1, <1>2, <1>3, <1>4, ContractAlone

LEMMA PostRootInv ==
    ASSUME DeskInv, PostRoot
    PROVE  DeskInv'
<1> USE DEF PostRoot, RootCalls
<1>1. TypeOK'
  BY DeskBounds DEF DeskInv, TypeOK, ContractShape
<1>2. WizardInv'
  BY DEF DeskInv, TypeOK, WizardInv
<1>3. SlotsInv'
  BY DEF DeskInv, TypeOK, WizardInv, SlotsInv
<1>4. CallsInv'
  BY DeskBounds DEF DeskInv, TypeOK, WizardInv, SlotsInv, CallsInv, IsRecorded, contract
<1> QED
  BY <1>1, <1>2, <1>3, <1>4, ContractAlone

LEMMA FetchInv ==
    ASSUME DeskInv, FetchContractState
    PROVE  DeskInv'
<1> USE DEF FetchContractState, Fetched
<1>1. TypeOK'
  <2>1. employeeRoot \in Roots
    BY DEF DeskInv, ContractShape
  <2>2. view' \in Views
    BY <2>1 DEF DeskInv, TypeOK, ContractShape
  <2>3. fetching' = FALSE /\ UNCHANGED <<page, wizard, treeRoot, proving, submitting, sent>>
    OBVIOUS
  <2> HIDE DEF FetchContractState, Fetched, Wizards, Views, Provings, Submissions
  <2> QED
    BY <2>2, <2>3 DEF DeskInv, TypeOK
<1>2. WizardInv'
  BY DEF DeskInv, TypeOK, WizardInv
<1>3. SlotsInv'
  BY DEF DeskInv, TypeOK, WizardInv, SlotsInv
<1>4. CallsInv'
  BY DeskBounds DEF DeskInv, TypeOK, WizardInv, SlotsInv, CallsInv, IsRecorded, contract
<1> QED
  BY <1>1, <1>2, <1>3, <1>4, ContractAlone

LEMMA StartPayrollInv ==
    ASSUME DeskInv, StartPayroll
    PROVE  DeskInv'
<1> USE DEF StartPayroll, OnStep
<1>1. TypeOK'
  <2>1. wizard' \in Wizards
    BY DEF DeskInv, TypeOK
  <2> QED
    BY <2>1 DEF DeskInv, TypeOK
<1>2. WizardInv'
  BY DEF DeskInv, TypeOK, WizardInv
<1>3. SlotsInv'
  BY DEF DeskInv, TypeOK, WizardInv, SlotsInv
<1>4. CallsInv'
  BY DeskBounds DEF DeskInv, TypeOK, WizardInv, SlotsInv, CallsInv, IsRecorded, contract
<1> QED
  BY <1>1, <1>2, <1>3, <1>4, ContractAlone

LEMMA ContinueInv ==
    ASSUME DeskInv, Continue
    PROVE  DeskInv'
<1> USE DEF Continue, OnStep
<1>1. TypeOK'
  BY DeskBounds DEF DeskInv, TypeOK, ContractShape
<1>2. WizardInv'
  BY DEF DeskInv, TypeOK, WizardInv
<1>3. SlotsInv'
  BY DEF DeskInv, TypeOK, WizardInv, SlotsInv
<1>4. CallsInv'
  BY DeskBounds DEF DeskInv, TypeOK, WizardInv, SlotsInv, CallsInv, IsRecorded, contract
<1> QED
  BY <1>1, <1>2, <1>3, <1>4, ContractAlone

LEMMA BackInv ==
    ASSUME DeskInv, Back
    PROVE  DeskInv'
<1> USE DEF Back, OnStep, WentBack
<1>1. TypeOK'
  BY DeskBounds DEF DeskInv, TypeOK, ContractShape
<1>2. WizardInv'
  BY DEF DeskInv, TypeOK, WizardInv
<1>3. SlotsInv'
  BY DEF DeskInv, TypeOK, WizardInv, SlotsInv
<1>4. CallsInv'
  BY DeskBounds DEF DeskInv, TypeOK, WizardInv, SlotsInv, CallsInv, IsRecorded, contract
<1> QED
  BY <1>1, <1>2, <1>3, <1>4, ContractAlone

LEMMA GenerateProofInv ==
    ASSUME DeskInv, NEW draw \in Draws, GenerateProof(draw)
    PROVE  DeskInv'
<1> USE DEF GenerateProof, ProofOffered, OnStep
<1>1. TypeOK'
  BY DeskBounds DEF DeskInv, TypeOK, ContractShape
<1>2. WizardInv'
  BY DEF DeskInv, TypeOK, WizardInv
<1>3. SlotsInv'
  BY DEF DeskInv, TypeOK, WizardInv, SlotsInv
<1>4. CallsInv'
  BY DeskBounds DEF DeskInv, TypeOK, WizardInv, SlotsInv, CallsInv, IsRecorded, contract
<1> QED
  BY <1>1, <1>2, <1>3, <1>4, ContractAlone

LEMMA ProofMadeInv ==
    ASSUME DeskInv, ProofMade
    PROVE  DeskInv'
<1> USE DEF ProofMade, NextOf, Proofs
<1>1. TypeOK'
  <2>1. wizard' \in Wizards
    BY DEF DeskInv, TypeOK
  <2>2. [draw |-> proving.draw, period |-> proving.period + 1] \in Proofs
    BY DeskBounds DEF DeskInv, TypeOK
  <2>3. view' \in Views
    BY <2>2 DEF DeskInv, TypeOK
  <2> QED
    BY <2>1, <2>3 DEF DeskInv, TypeOK
<1>2. WizardInv'
  BY DEF DeskInv, TypeOK, WizardInv
<1>3. SlotsInv'
  BY DEF DeskInv, TypeOK, WizardInv, SlotsInv
<1>4. CallsInv'
  BY DeskBounds DEF DeskInv, TypeOK, WizardInv, SlotsInv, CallsInv, IsRecorded, contract
<1> QED
  BY <1>1, <1>2, <1>3, <1>4, ContractAlone

LEMMA ProofFailedInv ==
    ASSUME DeskInv, ProofFailed
    PROVE  DeskInv'
<1> USE DEF ProofFailed, RootMismatch
<1>1. TypeOK'
  <2>1. wizard' \in Wizards
    BY DEF DeskInv, TypeOK
  <2> QED
    BY <2>1 DEF DeskInv, TypeOK
<1>2. WizardInv'
  BY DEF DeskInv, TypeOK, WizardInv
<1>3. SlotsInv'
  BY DEF DeskInv, TypeOK, WizardInv, SlotsInv
<1>4. CallsInv'
  BY DeskBounds DEF DeskInv, TypeOK, WizardInv, SlotsInv, CallsInv, IsRecorded, contract
<1> QED
  BY <1>1, <1>2, <1>3, <1>4, ContractAlone

LEMMA SubmitPayrollInv ==
    ASSUME DeskInv, SubmitPayroll
    PROVE  DeskInv'
<1> USE DEF SubmitPayroll, SubmitOffered, OnStep, Proofs, RunCalls
<1>1. TypeOK'
  <2>1. wizard' \in Wizards
    BY DEF DeskInv, TypeOK
  <2>2. submitting'.call \in RunCalls
    <3>1. view.proof \in Proofs /\ view.slots = view.proof.draw
      BY DeskBounds DEF DeskInv, TypeOK, WizardInv, SlotsInv
    <3>2. ListedIds(view.proof.draw) \subseteq Contract!CommitmentIds
      BY <3>1, ListedType
    <3> QED
      BY <3>1, <3>2
  <2>3. submitting' \in Submissions
    BY <2>2
  <2> QED
    BY <2>1, <2>3 DEF DeskInv, TypeOK
<1>2. WizardInv'
  BY DEF DeskInv, TypeOK, WizardInv
<1>3. SlotsInv'
  BY DEF DeskInv, TypeOK, WizardInv, SlotsInv
<1>4. CallsInv'
  <2>1. view.proof \in Proofs /\ view.slots = view.proof.draw
        /\ Cardinality(Employees) <= BatchSize
    BY DeskBounds DEF DeskInv, TypeOK, WizardInv, SlotsInv, CallsInv
  <2>2. Listed(submitting'.call)
    BY <2>1 DEF Listed
  <2> QED
    BY <2>1, <2>2, DeskBounds DEF DeskInv, TypeOK, CallsInv, IsRecorded, contract
<1> QED
  BY <1>1, <1>2, <1>3, <1>4, ContractAlone

LEMMA SendPayrollInv ==
    ASSUME DeskInv, SendPayroll
    PROVE  DeskInv'
<1> USE DEF SendPayroll
<1>1. TypeOK'
  BY DeskBounds DEF DeskInv, TypeOK, ContractShape
<1>2. WizardInv'
  BY DEF DeskInv, TypeOK, WizardInv
<1>3. SlotsInv'
  BY DEF DeskInv, TypeOK, WizardInv, SlotsInv
<1>4. CallsInv'
  BY DeskBounds DEF DeskInv, TypeOK, WizardInv, SlotsInv, CallsInv, IsRecorded, contract
<1> QED
  BY <1>1, <1>2, <1>3, <1>4, ContractAlone

LEMMA SubmissionConfirmedInv ==
    ASSUME DeskInv, SubmissionConfirmed
    PROVE  DeskInv'
<1> USE DEF SubmissionConfirmed, NextOf
<1>1. TypeOK'
  BY DeskBounds DEF DeskInv, TypeOK, ContractShape
<1>2. WizardInv'
  BY DEF DeskInv, TypeOK, WizardInv
<1>3. SlotsInv'
  BY DEF DeskInv, TypeOK, WizardInv, SlotsInv
<1>4. CallsInv'
  BY DeskBounds DEF DeskInv, TypeOK, WizardInv, SlotsInv, CallsInv, IsRecorded, contract
<1> QED
  BY <1>1, <1>2, <1>3, <1>4, ContractAlone

LEMMA SubmissionFailedInv ==
    ASSUME DeskInv, SubmissionFailed
    PROVE  DeskInv'
<1> USE DEF SubmissionFailed
<1>1. TypeOK'
  BY DeskBounds DEF DeskInv, TypeOK, ContractShape
<1>2. WizardInv'
  BY DEF DeskInv, TypeOK, WizardInv
<1>3. SlotsInv'
  BY DEF DeskInv, TypeOK, WizardInv, SlotsInv
<1>4. CallsInv'
  BY DeskBounds DEF DeskInv, TypeOK, WizardInv, SlotsInv, CallsInv, IsRecorded, contract
<1> QED
  BY <1>1, <1>2, <1>3, <1>4, ContractAlone

LEMMA ResetInv ==
    ASSUME DeskInv, Reset
    PROVE  DeskInv'
<1> USE DEF Reset, OnStep, NewWizard
<1>1. TypeOK'
  BY DeskBounds DEF DeskInv, TypeOK, ContractShape
<1>2. WizardInv'
  BY DEF DeskInv, TypeOK, WizardInv
<1>3. SlotsInv'
  BY DEF DeskInv, TypeOK, WizardInv, SlotsInv
<1>4. CallsInv'
  BY DeskBounds DEF DeskInv, TypeOK, WizardInv, SlotsInv, CallsInv, IsRecorded, contract
<1> QED
  BY <1>1, <1>2, <1>3, <1>4, ContractAlone

LEMMA NotAppliedInv ==
    ASSUME DeskInv, NotApplied
    PROVE  DeskInv'
<1> USE DEF NotApplied, SeenAs
<1>1. TypeOK'
  BY DeskBounds DEF DeskInv, TypeOK, ContractShape
<1>2. WizardInv'
  BY DEF DeskInv, TypeOK, WizardInv
<1>3. SlotsInv'
  BY DEF DeskInv, TypeOK, WizardInv, SlotsInv
<1>4. CallsInv'
  BY DeskBounds DEF DeskInv, TypeOK, WizardInv, SlotsInv, CallsInv, IsRecorded, contract
<1> QED
  BY <1>1, <1>2, <1>3, <1>4, ContractAlone

-----------------------------------------------------------------------------
(* The ledger applies a call.                                              *)

\* What a run changes of the contract's records.
LEMMA RunRecords ==
    ASSUME DeskInv, NEW root, NEW total, NEW period, NEW ids,
           Contract!RunPayroll(root, total, period, ids)
    PROVE  /\ period = currentPeriod + 1 /\ currentPeriod' = period
           /\ period \in 1..MaxPeriod
           /\ 1..currentPeriod' = (1..currentPeriod) \cup {period}
           /\ period \notin 1..currentPeriod
           /\ DOMAIN periods' = 1..currentPeriod'
           /\ periods'[period] = [commitmentRoot |-> root, totalAmount |-> total,
                                  commitmentIds |-> ids]
           /\ \A p \in 1..currentPeriod : periods'[p] = periods[p]
           /\ UNCHANGED <<budgetCap, employeeRoot>>
<1>1. /\ currentPeriod < MaxPeriod /\ period = currentPeriod + 1
      /\ currentPeriod' = period
      /\ UNCHANGED <<budgetCap, employeeRoot>>
      /\ periods' = [k \in DOMAIN periods \cup {period} |->
                        IF k = period THEN [commitmentRoot |-> root,
                                            totalAmount    |-> total,
                                            commitmentIds  |-> ids]
                                      ELSE periods[k]]
  BY DEF Contract!RunPayroll, Contract!RunPayrollAccepts, Contract!RunPayrollStores,
         Contract!IsNextPeriod, Contract!Put, Contract!config
<1>2. currentPeriod \in Nat /\ MaxPeriod \in Nat /\ DOMAIN periods = 1..currentPeriod
  BY DeskBounds DEF DeskInv, ContractShape
<1>3. /\ period \in 1..MaxPeriod /\ period \notin 1..currentPeriod
      /\ 1..currentPeriod' = (1..currentPeriod) \cup {period}
  BY <1>1, <1>2
<1> QED
  BY <1>1, <1>2, <1>3

LEMMA AppliedInv ==
    ASSUME DeskInv, Applied
    PROVE  DeskInv'
<1> DEFINE call == sent
<1>1. /\ call \in RootCalls \cup RunCalls /\ sent' = None
      /\ submitting' = SeenAs("success")
      /\ UNCHANGED <<page, wizard, view, treeRoot, fetching, proving>>
  BY DEF Applied, DeskInv, TypeOK
<1>2. TypeOK'
  <2>1. submitting' \in Submissions \cup {None}
    BY <1>1 DEF DeskInv, TypeOK, SeenAs
  <2> QED
    BY <1>1, <2>1 DEF DeskInv, TypeOK
<1>3. (proving = None <=> proving' = None) /\ (submitting' = None <=> submitting = None)
  <2>1. submitting # None => [submitting EXCEPT !.ledger = "success"] \in Submissions
    BY DEF DeskInv, TypeOK
  <2>2. submitting # None => [submitting EXCEPT !.ledger = "success"] # None
    <3> HIDE DEF Submissions
    <3> QED
      BY <2>1, DeskBounds
  <2> QED
    BY <1>1, <2>2 DEF SeenAs
<1>4. WizardInv' /\ SlotsInv'
  BY <1>1, <1>3 DEF DeskInv, WizardInv, SlotsInv
<1>5. CASE call.kind = "root" /\ Contract!SetEmployeeRoot(call.root)
  <2>1. /\ UNCHANGED <<currentPeriod, periods, budgetCap>>
        /\ employeeRoot' = call.root
    BY <1>5 DEF Contract!SetEmployeeRoot, Contract!records
  <2>2. call \in RootCalls
    BY <1>1, <1>5 DEF RunCalls
  <2>3. ContractShape'
    BY <2>1, <2>2 DEF DeskInv, ContractShape, RootCalls, Roots
  <2>4. submitting # None => submitting.call # call
    BY <1>5 DEF DeskInv, TypeOK, RunCalls
  <2>5. CallsInv'
    BY <1>1, <1>3, <2>1, <2>4 DEF DeskInv, TypeOK, CallsInv, IsRecorded, SeenAs
  <2>6. PeriodsInv'
    BY <2>1 DEF DeskInv, PeriodsInv
  <2> QED
    BY <1>2, <1>4, <2>3, <2>5, <2>6 DEF DeskInv
<1>6. CASE call.kind = "run"
           /\ Contract!RunPayroll(call.root, TotalPay, call.period, call.ids)
  <2>1. /\ call \in RunCalls /\ Listed(call)
    BY <1>1, <1>6, DeskBounds DEF RootCalls, DeskInv, CallsInv
  <2> HIDE DEF call
  <2>2. /\ call.period = currentPeriod + 1 /\ currentPeriod' = call.period
        /\ call.period \in 1..MaxPeriod
        /\ 1..currentPeriod' = (1..currentPeriod) \cup {call.period}
        /\ call.period \notin 1..currentPeriod
        /\ DOMAIN periods' = 1..currentPeriod'
        /\ periods'[call.period] = [commitmentRoot |-> call.root,
                                    totalAmount    |-> TotalPay,
                                    commitmentIds  |-> call.ids]
        /\ \A p \in 1..currentPeriod : periods'[p] = periods[p]
        /\ UNCHANGED <<budgetCap, employeeRoot>>
    BY <1>6, RunRecords
  <2>3. ContractShape'
    BY <2>2 DEF DeskInv, ContractShape
  <2>4. /\ \A d, p : IsRecorded(d, p) =>
                       p \in 1..currentPeriod' /\ periods'[p].commitmentRoot = d
        /\ call.period \in 1..currentPeriod'
        /\ periods'[call.period].commitmentRoot = call.root
    BY <2>2 DEF IsRecorded
  <2>5. CallsInv'
    <3>1. submitting # None =>
              /\ submitting' # None /\ submitting'.call = submitting.call
              /\ submitting'.shown = submitting.shown
              /\ submitting'.ledger # "pending"
              /\ submitting'.ledger = "success" =>
                    submitting.ledger = "success" \/ submitting.call = call
      BY <1>1, <1>3 DEF DeskInv, TypeOK, CallsInv, SeenAs, call
    <3>2. submitting' # None /\ submitting'.ledger = "success" =>
              IsRecorded(submitting.call.root, submitting.call.period)'
      BY <1>3, <2>4, <3>1 DEF DeskInv, CallsInv, IsRecorded
    <3>3. wizard'.submission = "success" /\ view'.proof # None =>
              IsRecorded(view.proof.draw, view.proof.period)'
      BY <1>1, <2>4 DEF DeskInv, CallsInv, IsRecorded
    <3> QED
      BY <1>1, <1>3, <3>1, <3>2, <3>3 DEF DeskInv, CallsInv, Listed
  <2>6. PeriodsInv'
    <3> SUFFICES ASSUME NEW p \in 1..currentPeriod'
                 PROVE  /\ periods'[p].totalAmount = TotalPay
                        /\ periods'[p].commitmentRoot \in Draws
                        /\ periods'[p].commitmentIds = ListedIds(periods'[p].commitmentRoot)
      BY DEF PeriodsInv
    <3>1. CASE p = call.period
      BY <2>1, <2>2, <3>1 DEF Listed, RunCalls
    <3>2. CASE p \in 1..currentPeriod
      BY <2>2, <3>2 DEF DeskInv, PeriodsInv
    <3> QED
      BY <2>2, <3>1, <3>2
  <2> QED
    BY <1>2, <1>4, <2>3, <2>5, <2>6 DEF DeskInv
<1> QED
  BY <1>5, <1>6 DEF Applied

HIDE DEF Wizards, Views, Provings, Submissions

-----------------------------------------------------------------------------
(* The invariant holds, and what follows from it.                          *)

LEMMA DeskInitInv ==
    ASSUME Init
    PROVE  DeskInv
<1> USE DEF Init, NewWizard, NewView
<1>1. TypeOK
  BY DeskBounds DEF TypeOK, Wizards, Views
<1>2. /\ currentPeriod = 0 /\ DOMAIN periods = {} /\ budgetCap = Budget
      /\ employeeRoot \in Roots
  BY DEF Contract!Init, Roots
<1>3. 1..0 = {}
  OBVIOUS
<1>4. ContractShape /\ PeriodsInv
  BY <1>2, <1>3, DeskBounds DEF ContractShape, PeriodsInv
<1>5. WizardInv /\ SlotsInv /\ CallsInv
  BY DEF WizardInv, SlotsInv, CallsInv
<1> QED
  BY <1>1, <1>4, <1>5 DEF DeskInv

LEMMA DeskNextInv ==
    ASSUME DeskInv, [Next]_vars
    PROVE  DeskInv'
<1>1. CASE UNCHANGED vars
  <2>1. UNCHANGED <<contract, desk>>
    BY <1>1 DEF vars
  <2>2. UNCHANGED <<currentPeriod, periods>>
    BY <2>1 DEF contract
  <2>3. TypeOK'
    BY <2>1 DEF DeskInv, TypeOK, desk
  <2>4. WizardInv' /\ SlotsInv'
    BY <2>1 DEF DeskInv, WizardInv, SlotsInv, desk
  <2>5. CallsInv'
    BY <2>1, <2>2 DEF DeskInv, CallsInv, Listed, IsRecorded, desk
  <2> QED
    BY <2>1, <2>3, <2>4, <2>5, ContractAlone
<1>2. CASE Next
  BY <1>2, OpenPageInv, ReloadInv, BuildTreeInv, GenerateProofInv, PostRootInv, FetchInv,
     StartPayrollInv, ContinueInv, BackInv, ProofMadeInv, ProofFailedInv,
     SubmitPayrollInv, SendPayrollInv, SubmissionConfirmedInv, SubmissionFailedInv,
     ResetInv, AppliedInv, NotAppliedInv DEF Next
<1> QED
  BY <1>1, <1>2

\* Below a root the dashboard built, exactly the employees' slots carry a salary.
LEMMA SlotsArePaid ==
    ASSUME NEW draw \in Draws
    PROVE  /\ draw # ZeroRoot
           /\ Tree[draw] = SlotsOf(draw) \cup {Pad}
           /\ \A l \in SlotsOf(draw) :
                 l \in Leaves /\ l # Pad /\ l.employee \in Employees
                 /\ Salary[l] = Wage[l.employee] /\ Salary[l] \in Nat \ {0}
           /\ Salary[Pad] = 0
           /\ {m \in Tree[draw] : Salary[m] > 0} = SlotsOf(draw)
<1>1. draw # ZeroRoot
  <2>1. DOMAIN draw = Employees /\ DOMAIN ZeroRoot = {}
    BY DEF Draws, ZeroRoot
  <2> QED
    BY <2>1, DeskBounds
<1>2. Tree[draw] = SlotsOf(draw) \cup {Pad}
  BY <1>1 DEF Tree, Roots
<1>3. Pad \in Leaves /\ Salary[Pad] = 0
  BY DEF Leaves, Salary
<1>4. \A l \in SlotsOf(draw) :
         l \in Leaves /\ l # Pad /\ l.employee \in Employees
         /\ Salary[l] = Wage[l.employee] /\ Salary[l] \in Nat \ {0}
  <2> SUFFICES ASSUME NEW l \in SlotsOf(draw)
               PROVE  l \in Leaves /\ l # Pad /\ l.employee \in Employees
                      /\ Salary[l] = Wage[l.employee] /\ Salary[l] \in Nat \ {0}
    OBVIOUS
  <2>1. l \in Leaves
    BY ListedType DEF Leaves
  <2>2. l.employee \in Employees
    BY DEF SlotsOf
  <2>3. l # Pad
    BY <2>2, DeskBounds DEF Pad
  <2> QED
    BY <2>1, <2>2, <2>3, DeskBounds DEF Salary
<1>5. {m \in Tree[draw] : Salary[m] > 0} = SlotsOf(draw)
  BY <1>2, <1>3, <1>4
<1> QED
  BY <1>1, <1>2, <1>3, <1>4, <1>5

LEMMA DeskSound ==
    ASSUME DeskInv
    PROVE  EveryPeriodWithdrawable /\ PageTellsTheTruth
<1>1. EveryPeriodWithdrawable
  <2> SUFFICES ASSUME NEW p \in 1..currentPeriod
               PROVE  /\ periods[p].totalAmount = TotalPay
                      /\ periods[p].commitmentIds =
                           {Contract!CommitmentId(l) :
                              l \in {m \in Tree[periods[p].commitmentRoot] :
                                       Salary[m] > 0}}
    BY DEF EveryPeriodWithdrawable
  <2>1. /\ periods[p].totalAmount = TotalPay
        /\ periods[p].commitmentRoot \in Draws
        /\ periods[p].commitmentIds = ListedIds(periods[p].commitmentRoot)
    BY DEF DeskInv, PeriodsInv
  <2> QED
    BY <2>1, SlotsArePaid DEF ListedIds
<1>2. SuccessIsRecorded
  BY DEF SuccessIsRecorded, DeskInv, ContractShape, CallsInv, IsRecorded
<1>3. OneAtATime
  BY DEF OneAtATime, ProofOffered, SubmitOffered, OnStep, DeskInv, WizardInv
<1> QED
  BY <1>1, <1>2, <1>3 DEF PageTellsTheTruth

LEMMA DeskInvariant ==
    AllSpec => [](part = "desk" => DeskInv)
<1>1. AllInit => (part = "desk" => DeskInv)
  BY DeskInitInv DEF AllInit
<1>2. /\ part = "desk" => DeskInv
      /\ [AllNext]_<<part, vars, script, undecided, timeouts>>
      => (part = "desk" => DeskInv)'
  <2> SUFFICES ASSUME part = "desk" => DeskInv,
                      [AllNext]_<<part, vars, script, undecided, timeouts>>,
                      part' = "desk"
               PROVE  DeskInv'
    OBVIOUS
  <2>1. part = "desk" /\ [Next]_vars
    BY DEF AllNext
  <2> QED
    BY <2>1, DeskNextInv
<1> QED
  BY <1>1, <1>2, PTL DEF AllSpec

\* Every period the dashboard got accepted can be withdrawn to the last salary,
\* however often a proof was made again or a submission repeated: it escrows the
\* whole payroll (handleSubmit's total) and lists exactly the ids of the
\* commitments below its root that carry a salary.
THEOREM DeskPeriodsAreWithdrawable ==
    AllSpec => []DeskPeriodsWithdrawable
<1>1. (part = "desk" => DeskInv) => DeskPeriodsWithdrawable
  BY DeskSound DEF DeskPeriodsWithdrawable
<1> QED
  BY <1>1, DeskInvariant, PTL

\* The wizard reports success only of a period that is on the ledger, and offers
\* no second proof or submission beside one under way, whatever the employer
\* presses and whichever page is open.
THEOREM DeskPageIsTruthful ==
    AllSpec => []DeskTellsTheTruth
<1>1. (part = "desk" => DeskInv) => DeskTellsTheTruth
  BY DeskSound DEF DeskTellsTheTruth
<1> QED
  BY <1>1, DeskInvariant, PTL

-----------------------------------------------------------------------------
(* The dashboard is the employer the payroll contract assumes.             *)

\* The contract's module counts and adds up as this one does.
LEMMA ContractCounts ==
    /\ \A S : Contract!Cardinality(S) = Cardinality(S)
    /\ \A S, amount : Contract!SumOf(S, amount) = SumOf(S, amount)
<1>1. ASSUME NEW S
      PROVE  Contract!Cardinality(S) = Cardinality(S)
  BY DEF Contract!Cardinality, Cardinality
<1>2. ASSUME NEW S, NEW amount
      PROVE  Contract!SumOf(S, amount) = SumOf(S, amount)
  BY <1>1 DEF Contract!SumOf, Contract!Units, SumOf, Units
<1> QED
  BY <1>1, <1>2

LEMMA TotalOfSlots ==
    ASSUME NEW draw \in Draws
    PROVE  /\ Contract!Total(SlotsOf(draw)) = TotalPay
           /\ \A e \in Employees : Wage[e] <= TotalPay
<1> DEFINE name == [e \in Employees |-> [employee |-> e, salt |-> draw[e]]]
<1>1. /\ TotalPay = SumOf(Employees, Wage)
      /\ Contract!Total(SlotsOf(draw)) = SumOf(SlotsOf(draw), Salary)
  BY ContractCounts DEF TotalPay, Contract!Total
<1>2. SumOf(SlotsOf(draw), Salary) = SumOf(Employees, Wage)
  <2>1. name \in [Employees -> SlotsOf(draw)]
    BY DEF SlotsOf
  <2>2. /\ \A x, y \in Employees : name[x] = name[y] => x = y
        /\ \A y \in SlotsOf(draw) : \E x \in Employees : name[x] = y
    BY DEF SlotsOf
  <2>3. \A x \in Employees : Salary[name[x]] = Wage[x]
    BY <2>1, SlotsArePaid
  <2>4. Wage \in [Employees -> Nat] /\ IsFiniteSet(Employees)
    BY DeskBounds
  <2> HIDE DEF name
  <2> QED
    BY <2>1, <2>2, <2>3, <2>4, SumRenamed
<1>3. ASSUME NEW e \in Employees
      PROVE  Wage[e] <= SumOf(Employees, Wage)
  <2>1. \A x \in Employees : Wage[x] \in Nat
    BY DeskBounds
  <2>2. /\ SumOf(Employees, Wage) = SumOf(Employees \ {e}, Wage) + Wage[e]
        /\ SumOf(Employees \ {e}, Wage) \in Nat
    BY <2>1, DeskBounds, SumSplit
  <2> QED
    BY <2>1, <2>2
<1> QED
  BY <1>1, <1>2, <1>3

LEMMA SlotsAreABatch ==
    ASSUME NEW draw \in Draws, Cardinality(Employees) <= BatchSize
    PROVE  SlotsOf(draw) \in Contract!Batches
<1> DEFINE name == [e \in Employees |-> [employee |-> e, salt |-> draw[e]]]
<1>1. name \in Surjection(Employees, SlotsOf(draw))
  BY DEF Surjection, SlotsOf
<1>2. /\ IsFiniteSet(SlotsOf(draw))
      /\ Cardinality(SlotsOf(draw)) <= Cardinality(Employees)
  <2> HIDE DEF name
  <2> QED
    BY <1>1, DeskBounds, FS_Surjection
<1>3. Cardinality(SlotsOf(draw)) <= BatchSize
  <2>1. /\ Cardinality(SlotsOf(draw)) \in Nat /\ Cardinality(Employees) \in Nat
        /\ BatchSize \in Nat
    BY <1>2, DeskBounds, FS_CardinalityType
  <2> QED
    BY <1>2, <2>1
<1>4. SlotsOf(draw) \subseteq Leaves
  BY ListedType DEF Leaves
<1>5. SlotsOf(draw) # {}
  <2>1. PICK e : e \in Employees
    BY DeskBounds
  <2> QED
    BY <2>1 DEF SlotsOf
<1> QED
  BY <1>3, <1>4, <1>5, ContractCounts DEF Contract!Batches

LEMMA AppliedIsEmployers ==
    ASSUME DeskInv, Applied
    PROVE  Contract!EmployerNext
<1> DEFINE call == sent
<1>1. CASE call.kind = "root" /\ Contract!SetEmployeeRoot(call.root)
  <2>1. call.root \in Roots
    BY <1>1 DEF Applied, DeskInv, TypeOK, RootCalls, RunCalls, Roots
  <2> QED
    BY <1>1, <2>1 DEF Contract!EmployerNext, Contract!EmployerSettings
<1>2. CASE call.kind = "run"
           /\ Contract!RunPayroll(call.root, TotalPay, call.period, call.ids)
  <2>1. call \in RunCalls /\ Listed(call)
    BY <1>2, DeskBounds DEF Applied, DeskInv, TypeOK, RootCalls, CallsInv
  <2> DEFINE S == SlotsOf(call.root)
  <2>2. call.root \in Draws /\ call.root \in Roots
    BY <2>1 DEF RunCalls, Roots
  <2>3. call.period \in 0..MaxPeriod
    <3>1. call.period \in 1..MaxPeriod
      BY <1>2, RunRecords
    <3> QED
      BY <3>1
  <2>4. call.ids = {Contract!CommitmentId(l) : l \in S}
    BY <2>1 DEF Listed, ListedIds
  <2>5. Contract!Total(S) = TotalPay /\ S \in Contract!Batches
    BY <2>1, <2>2, TotalOfSlots, SlotsAreABatch DEF Listed
  <2>6. TotalPay <= Budget
    BY <1>2 DEF Contract!RunPayroll, Contract!RunPayrollAccepts, Contract!WithinCap,
                DeskInv, ContractShape
  <2>7. \A l \in S : l \in Tree[call.root] /\ Contract!InRange(l)
    <3> SUFFICES ASSUME NEW l \in S
                 PROVE  l \in Tree[call.root] /\ Contract!InRange(l)
      OBVIOUS
    <3>1. /\ l \in Tree[call.root] /\ l.employee \in Employees
          /\ Salary[l] = Wage[l.employee] /\ Salary[l] \in Nat
      BY <2>2, SlotsArePaid
    <3>2. Wage[l.employee] <= TotalPay
      BY <2>2, <3>1, TotalOfSlots
    <3>3. TotalPay \in Nat
      <4>1. IsFiniteSet(Employees) /\ Wage \in [Employees -> Nat]
        BY DeskBounds
      <4> QED
        BY <4>1, SumNat, ContractCounts DEF TotalPay
    <3>4. Salary[l] < Budget + 1
      BY <2>6, <3>1, <3>2, <3>3, DeskBounds
    <3> QED
      BY <3>1, <3>4 DEF Contract!InRange
  <2> HIDE DEF S, call
  <2>8. Contract!PayBatch(S)
    BY <1>2, <2>2, <2>3, <2>4, <2>5, <2>7 DEF Contract!PayBatch
  <2> QED
    BY <2>5, <2>8 DEF Contract!EmployerNext
<1> QED
  BY <1>1, <1>2 DEF Applied

LEMMA DeskIsEmployers ==
    ASSUME DeskInv, [Next]_vars
    PROVE  [Contract!EmployerNext]_contract
<1>1. CASE Applied
  BY <1>1, AppliedIsEmployers
<1>2. CASE ~Applied
  BY <1>2 DEF Next, vars, OpenPage, Reload, BuildTree, GenerateProof, PostRoot,
     FetchContractState, StartPayroll, Continue, Back, ProofMade, ProofFailed,
     SubmitPayroll, SendPayroll, SubmissionConfirmed, SubmissionFailed, Reset,
     NotApplied
<1> QED
  BY <1>1, <1>2

-----------------------------------------------------------------------------
(***************************************************************************)
(* The testnet script (module PayrollE2E), for any set of runs of it, any  *)
(* salary, budget and bounds; and the theorem that both clients of the     *)
(* payroll contract are the employer module Payroll assumes.               *)
(***************************************************************************)

Leaf(p) == E2E!SalaryCommitment(p)
Below(p) == E2E!MerkleTree(p)
Source  == {"source", "recipient"}

-----------------------------------------------------------------------------
(* The inductive invariant.                                                *)

\* The batch proof of the period was made: its slots are below its root.
Proved(p) == p \in 1..MaxPeriod /\ E2E!PayrollProofMade(E2E!PayrollInput(p))

Places == {"start", "set_employee_root", "set_budget_cap", "run_payroll",
           "prove", "withdraw", "done", "failed"}

States == [at : Places, period : 0..MaxPeriod, recipient : Source, alone : BOOLEAN]

\* A script that is under way and a transaction nobody waits for any more are
\* about a period with a proof.
ScriptTypes ==
    /\ script \in [Scripts -> States]
    /\ \A s \in Scripts : E2E!Running(s) => Proved(script[s].period)
    /\ \A c \in undecided : Proved(c.period) /\ c.recipient \in Source

\* Nobody but the scripts calls the contract, and period p is always that of
\* employee 42's commitment with salt p.
ContractKept ==
    /\ budgetCap = Budget /\ token = "USDC" /\ verifier = "batch"
    /\ withdrawVerifier \in {None, "withdraw"}
    /\ currentPeriod \in 0..MaxPeriod
    /\ rootToPeriod \in [E2E!Roots -> Nat]
    /\ \A p \in 1..currentPeriod : rootToPeriod[Below(p)] = p
    /\ commitments = {E2E!Contract!CommitmentId(Leaf(p)) : p \in 1..currentPeriod}

\* What has been paid and what is held for the periods not paid yet.
Unpaid == {p \in 1..currentPeriod : payments[Leaf(p)] = << >>}

EscrowKept ==
    /\ payments \in [E2E!Leaves -> Seq(E2E!Contract!Payment)]
    /\ \A p \in 1..MaxPeriod : p > currentPeriod => payments[Leaf(p)] = << >>
    /\ nullifiers = {E2E!Contract!Nullifier(Leaf(p)) : p \in (1..currentPeriod) \ Unpaid}
    /\ balance \in [{"USDC"} -> [Source \cup {"contract"} -> Int]]
    /\ balance["USDC"]["contract"] = ScriptWage * Cardinality(Unpaid)

\* A script that is alone finds the contract as it left it.
AloneInv ==
    \A s \in Scripts : script[s].alone =>
        /\ script[s].at \in {"set_employee_root", "set_budget_cap", "run_payroll"} =>
              script[s].period = currentPeriod + 1
        /\ script[s].at \in {"set_budget_cap", "run_payroll"} =>
              employeeRoot = Below(script[s].period)

\* A period that was paid in belongs to the one script that has yet to withdraw
\* it, or to no script.
Claims(s) == script[s].at \in {"prove", "withdraw"}

ClaimsInv ==
    /\ \A s \in Scripts : Claims(s) => script[s].period \in Unpaid
    /\ \A s, t \in Scripts :
          s # t /\ Claims(s) /\ Claims(t) => script[s].period # script[t].period
    /\ \A c \in undecided : c.kind = "withdraw" =>
          /\ c.period \in 1..currentPeriod
          /\ \A s \in Scripts : Claims(s) => script[s].period # c.period

DoneInv ==
    \A s \in Scripts : script[s].at = "done" =>
        /\ script[s].period \in 1..MaxPeriod
        /\ payments[Leaf(script[s].period)] =
              << [period    |-> script[s].period,
                  token     |-> "USDC",
                  recipient |-> script[s].recipient] >>

ScriptInv == ScriptTypes /\ ContractKept /\ EscrowKept /\ AloneInv /\ ClaimsInv /\ DoneInv

-----------------------------------------------------------------------------
(* The values the script passes.                                           *)

LEMMA LeafFacts ==
    ASSUME NEW p \in 1..MaxPeriod
    PROVE  /\ p \in Nat /\ MaxPeriod \in Nat
           /\ Leaf(p) \in E2E!Leaves /\ Below(p) \in E2E!Roots
           /\ Leaf(p).salary = ScriptWage
           /\ \A q \in 1..MaxPeriod : Leaf(p) = Leaf(q) => p = q
           /\ \A q \in 1..MaxPeriod : Below(p) = Below(q) => p = q
           /\ \A q \in 1..MaxPeriod :
                 E2E!Contract!CommitmentId(Leaf(p)) = E2E!Contract!CommitmentId(Leaf(q))
                    => p = q
           /\ \A q \in 1..MaxPeriod :
                 E2E!Contract!Nullifier(Leaf(p)) = E2E!Contract!Nullifier(Leaf(q))
                    => p = q
<1>1. /\ p \in Nat /\ MaxPeriod \in Nat
      /\ Leaf(p) = [salt |-> p, salary |-> ScriptWage]
      /\ Leaf(p) \in E2E!Leaves /\ Below(p) \in E2E!Roots
  BY DeskBounds DEF Leaf, Below, E2E!SalaryCommitment, E2E!SaltOf, E2E!Leaves, E2E!Roots
<1>2. ASSUME NEW q \in 1..MaxPeriod
      PROVE  Leaf(q) = [salt |-> q, salary |-> ScriptWage] /\ Leaf(q).salt = q
             /\ Below(q) = {Leaf(q), [salt |-> 0, salary |-> 0]}
  BY DEF Leaf, Below, E2E!SalaryCommitment, E2E!SaltOf, E2E!MerkleTree, E2E!Pad
<1>3. ASSUME NEW q \in 1..MaxPeriod
      PROVE  Leaf(p) = Leaf(q) => p = q
  BY <1>2
<1>4. ASSUME NEW q \in 1..MaxPeriod, Below(p) = Below(q)
      PROVE  p = q
  <2>1. Leaf(p) \in {Leaf(q), [salt |-> 0, salary |-> 0]}
    BY <1>2, <1>4
  <2>2. Leaf(p) # [salt |-> 0, salary |-> 0]
    <3>1. [salt |-> 0, salary |-> 0].salt = 0 /\ Leaf(p).salt = p
      BY <1>2
    <3> QED
      BY <3>1
  <2> QED
    BY <2>1, <2>2, <1>3
<1>5. ASSUME NEW l, NEW m
      PROVE  /\ E2E!Contract!CommitmentId(l) = E2E!Contract!CommitmentId(m) => l = m
             /\ E2E!Contract!Nullifier(l) = E2E!Contract!Nullifier(m) => l = m
  BY DEF E2E!Contract!CommitmentId, E2E!Contract!Nullifier
<1>6. Leaf(p).salary = ScriptWage
  BY <1>1
<1> QED
  BY <1>1, <1>3, <1>4, <1>5, <1>6

\* A batch proof shows that the salary is in range and below the root.
LEMMA ProvedFacts ==
    ASSUME NEW p, Proved(p)
    PROVE  /\ p \in 1..MaxPeriod
           /\ ScriptWage \in Nat /\ ScriptWage <= Budget
           /\ Leaf(p) \in Below(p) /\ E2E!Contract!InRange(Leaf(p))
<1>1. p \in 1..MaxPeriod /\ E2E!PayrollProofMade(E2E!PayrollInput(p))
  BY DEF Proved
<1>2. 1 \in 1..BatchSize
  BY DeskBounds
<1>3. /\ E2E!PayrollInput(p).slots[1] = Leaf(p)
      /\ E2E!PayrollInput(p).employeeRoot = Below(p)
  BY <1>2 DEF E2E!PayrollInput, Leaf, Below
<1>4. Leaf(p) \in Below(p) /\ E2E!Contract!InRange(Leaf(p))
  BY <1>1, <1>2, <1>3 DEF E2E!PayrollProofMade
<1>5. ScriptWage < Budget + 1
  BY <1>1, <1>4, LeafFacts DEF E2E!Contract!InRange
<1> QED
  BY <1>1, <1>4, <1>5, ScriptAssumption, DeskBounds

LEMMA E2ECounts ==
    /\ \A S : E2E!Cardinality(S) = Cardinality(S)
    /\ \A S : E2E!Contract!Cardinality(S) = Cardinality(S)
    /\ \A S, amount : E2E!Contract!SumOf(S, amount) = SumOf(S, amount)
<1>1. ASSUME NEW S
      PROVE  E2E!Cardinality(S) = Cardinality(S)
  BY DEF E2E!Cardinality, Cardinality
<1>2. ASSUME NEW S
      PROVE  E2E!Contract!Cardinality(S) = Cardinality(S)
  BY DEF E2E!Contract!Cardinality, Cardinality
<1>3. ASSUME NEW S, NEW amount
      PROVE  E2E!Contract!SumOf(S, amount) = SumOf(S, amount)
  BY <1>2 DEF E2E!Contract!SumOf, E2E!Contract!Units, SumOf, Units
<1> QED
  BY <1>1, <1>2, <1>3

-----------------------------------------------------------------------------
(* What a command does to the contract.                                    *)

ContractInv == ContractKept /\ EscrowKept

LEMMA UnpaidFinite ==
    ASSUME currentPeriod \in Nat
    PROVE  IsFiniteSet(Unpaid) /\ Cardinality(Unpaid) \in Nat
<1>1. IsFiniteSet(1..currentPeriod)
  BY FS_Interval
<1>2. Unpaid \in SUBSET (1..currentPeriod)
  BY DEF Unpaid
<1> QED
  BY <1>1, <1>2, FS_Subset, FS_CardinalityType

LEMMA RootStep ==
    ASSUME ContractInv, NEW root, E2E!Contract!SetEmployeeRoot(root)
    PROVE  /\ ContractInv' /\ UNCHANGED <<currentPeriod, payments, Unpaid>>
           /\ employeeRoot' = root
  BY DEF E2E!Contract!SetEmployeeRoot, E2E!Contract!records, E2E!Contract!ledger,
     ContractInv, ContractKept, EscrowKept, Unpaid

LEMMA CapStep ==
    ASSUME ContractInv, E2E!Contract!SetBudgetCap(Budget)
    PROVE  ContractInv' /\ UNCHANGED <<currentPeriod, payments, employeeRoot, Unpaid>>
  BY DEF E2E!Contract!SetBudgetCap, E2E!Contract!records, E2E!Contract!ledger,
     ContractInv, ContractKept, EscrowKept, Unpaid

LEMMA VerifierStep ==
    ASSUME ContractInv, E2E!Contract!SetWithdrawVerifier("withdraw")
    PROVE  ContractInv' /\ UNCHANGED <<currentPeriod, payments, employeeRoot, Unpaid>>
  BY DEF E2E!Contract!SetWithdrawVerifier, E2E!Contract!records, E2E!Contract!ledger,
     ContractInv, ContractKept, EscrowKept, Unpaid

\* A run adds its period to those still to be paid, and its salary to the escrow.
LEMMA RunStep ==
    ASSUME ContractInv, NEW p, Proved(p),
           E2E!Contract!RunPayroll(Below(p), ScriptWage, p,
                                   {E2E!Contract!CommitmentId(Leaf(p))})
    PROVE  /\ ContractInv' /\ UNCHANGED <<payments, employeeRoot>>
           /\ p = currentPeriod + 1 /\ currentPeriod' = p
           /\ Unpaid' = Unpaid \cup {p} /\ p \notin Unpaid
<1>1. /\ p = currentPeriod + 1 /\ currentPeriod < MaxPeriod /\ currentPeriod' = p
      /\ rootToPeriod' = [rootToPeriod EXCEPT ![Below(p)] = p]
      /\ commitments' = commitments \cup {E2E!Contract!CommitmentId(Leaf(p))}
      /\ UNCHANGED <<employeeRoot, budgetCap, token, verifier, withdrawVerifier,
                     nullifiers, payments>>
      /\ balance' = E2E!Contract!Moved(token, "source", "contract", ScriptWage)
  BY DEF E2E!Contract!RunPayroll, E2E!Contract!RunPayrollAccepts,
         E2E!Contract!RunPayrollStores, E2E!Contract!IsNextPeriod,
         E2E!Contract!MapRoot, E2E!Contract!config
<1>2. currentPeriod \in Nat /\ p \in 1..MaxPeriod /\ MaxPeriod \in Nat
  BY DeskBounds DEF ContractInv, ContractKept, Proved
<1>3. 1..currentPeriod' = (1..currentPeriod) \cup {p} /\ p \notin 1..currentPeriod
  BY <1>1, <1>2
<1>4. ContractKept'
  <2>1. rootToPeriod' \in [E2E!Roots -> Nat]
    BY <1>1, <1>2, LeafFacts DEF ContractInv, ContractKept
  <2>2. \A q \in 1..currentPeriod' : rootToPeriod'[Below(q)] = q
    <3> SUFFICES ASSUME NEW q \in 1..currentPeriod'
                 PROVE  rootToPeriod'[Below(q)] = q
      OBVIOUS
    <3>1. q \in 1..MaxPeriod /\ Below(q) \in E2E!Roots /\ (Below(p) = Below(q) => p = q)
      BY <1>1, <1>2, LeafFacts
    <3> QED
      BY <1>1, <1>3, <3>1 DEF ContractInv, ContractKept
  <2>3. commitments' = {E2E!Contract!CommitmentId(Leaf(q)) : q \in 1..currentPeriod'}
    BY <1>1, <1>3 DEF ContractInv, ContractKept
  <2> QED
    BY <1>1, <1>2, <2>1, <2>2, <2>3 DEF ContractInv, ContractKept
<1>5. Unpaid' = Unpaid \cup {p} /\ p \notin Unpaid
  <2>1. payments[Leaf(p)] = << >>
    BY <1>1, <1>2 DEF ContractInv, EscrowKept
  <2> QED
    BY <1>1, <1>3, <2>1 DEF Unpaid
<1>6. EscrowKept'
  <2>1. (1..currentPeriod') \ Unpaid' = (1..currentPeriod) \ Unpaid
    BY <1>3, <1>5
  <2>2. nullifiers' = {E2E!Contract!Nullifier(Leaf(q)) :
                          q \in (1..currentPeriod') \ Unpaid'}
    BY <1>1, <2>1 DEF ContractInv, EscrowKept
  <2>3. \A q \in 1..MaxPeriod : q > currentPeriod' => payments'[Leaf(q)] = << >>
    BY <1>1, <1>2 DEF ContractInv, EscrowKept
  <2>4. ScriptWage \in Int /\ token = "USDC"
    BY ScriptAssumption DEF ContractInv, ContractKept
  <2>5. /\ balance' \in [{"USDC"} -> [Source \cup {"contract"} -> Int]]
        /\ balance'["USDC"]["contract"] = balance["USDC"]["contract"] + ScriptWage
    BY <1>1, <2>4 DEF E2E!Contract!Moved, E2E!Contract!Accounts, ContractInv, EscrowKept,
       Source
  <2>6. /\ Cardinality(Unpaid') = Cardinality(Unpaid) + 1
        /\ Cardinality(Unpaid) \in Nat
    BY <1>2, <1>5, UnpaidFinite, FS_AddElement
  <2>7. ScriptWage * (Cardinality(Unpaid) + 1) = ScriptWage * Cardinality(Unpaid) + ScriptWage
    BY <2>4, <2>6
  <2>8. balance'["USDC"]["contract"] = ScriptWage * Cardinality(Unpaid')
    BY <2>5, <2>6, <2>7 DEF ContractInv, EscrowKept
  <2> QED
    BY <1>1, <2>2, <2>3, <2>5, <2>8 DEF ContractInv, EscrowKept
<1> QED
  BY <1>1, <1>4, <1>5, <1>6 DEF ContractInv

\* A withdrawal pays a period that was not paid yet, and takes its salary out.
LEMMA WithdrawStep ==
    ASSUME ContractInv, NEW p, Proved(p), NEW r \in Source,
           E2E!Contract!Withdraw(Below(p), Leaf(p), r)
    PROVE  /\ ContractInv' /\ UNCHANGED <<currentPeriod, employeeRoot>>
           /\ p \in Unpaid /\ Unpaid' = Unpaid \ {p}
           /\ payments' = [payments EXCEPT ![Leaf(p)] =
                              << [period |-> p, token |-> "USDC", recipient |-> r] >>]
<1> DEFINE x == [period |-> p, token |-> "USDC", recipient |-> r]
<1>1. /\ p \in 1..MaxPeriod /\ ScriptWage \in Int /\ token = "USDC"
      /\ currentPeriod \in Nat /\ currentPeriod <= MaxPeriod /\ MaxPeriod \in Nat
  BY DeskBounds, ScriptAssumption DEF Proved, ContractInv, ContractKept
<1>2. /\ E2E!Contract!CommitmentId(Leaf(p)) \in commitments
      /\ E2E!Contract!Nullifier(Leaf(p)) \notin nullifiers
      /\ nullifiers' = nullifiers \cup {E2E!Contract!Nullifier(Leaf(p))}
      /\ UNCHANGED <<employeeRoot, budgetCap, token, verifier, withdrawVerifier,
                     currentPeriod, rootToPeriod, commitments>>
  BY DEF E2E!Contract!Withdraw, E2E!Contract!WithdrawAccepts, E2E!Contract!Recorded,
         E2E!Contract!Spent, E2E!Contract!config, E2E!Contract!records
<1>3. p \in 1..currentPeriod
  <2>1. PICK q \in 1..currentPeriod :
           E2E!Contract!CommitmentId(Leaf(p)) = E2E!Contract!CommitmentId(Leaf(q))
    BY <1>2 DEF ContractInv, ContractKept
  <2>2. q \in 1..MaxPeriod
    BY <1>1
  <2> QED
    BY <1>1, <2>1, <2>2, LeafFacts
<1>4. p \in Unpaid /\ payments[Leaf(p)] = << >>
  BY <1>2, <1>3 DEF ContractInv, EscrowKept, Unpaid
<1>5. /\ balance' = E2E!Contract!Moved("USDC", "contract", r, ScriptWage)
      /\ payments' = [payments EXCEPT ![Leaf(p)] = <<x>>]
  <2>1. [l \in E2E!Leaves |-> l.salary][Leaf(p)] = ScriptWage
    BY <1>1, LeafFacts
  <2>2. rootToPeriod[Below(p)] = p
    BY <1>3 DEF ContractInv, ContractKept
  <2>3. Append(payments[Leaf(p)], x) = <<x>>
    BY <1>4
  <2>4. /\ balance' = E2E!Contract!Moved(token, "contract", r,
                                         [l \in E2E!Leaves |-> l.salary][Leaf(p)])
        /\ payments' = [payments EXCEPT ![Leaf(p)] = Append(payments[Leaf(p)],
              [period |-> rootToPeriod[Below(p)], token |-> token, recipient |-> r])]
    BY DEF E2E!Contract!Withdraw
  <2> QED
    BY <1>1, <2>1, <2>2, <2>3, <2>4
<1>6. payments' \in [E2E!Leaves -> Seq(E2E!Contract!Payment)]
  <2>1. x \in E2E!Contract!Payment
    BY <1>1 DEF E2E!Contract!Payment, Source
  <2>2. <<x>> \in Seq(E2E!Contract!Payment)
    BY <2>1
  <2> HIDE DEF x
  <2> QED
    BY <1>1, <1>5, <2>2, LeafFacts DEF ContractInv, EscrowKept
<1>7. \A q \in 1..MaxPeriod :
         payments'[Leaf(q)] = IF q = p THEN <<x>> ELSE payments[Leaf(q)]
  <2> SUFFICES ASSUME NEW q \in 1..MaxPeriod
               PROVE  payments'[Leaf(q)] = IF q = p THEN <<x>> ELSE payments[Leaf(q)]
    OBVIOUS
  <2>1. Leaf(q) \in E2E!Leaves /\ (Leaf(q) = Leaf(p) => q = p)
    BY <1>1, LeafFacts
  <2>2. payments \in [E2E!Leaves -> Seq(E2E!Contract!Payment)]
    BY DEF ContractInv, EscrowKept
  <2> HIDE DEF x
  <2> QED
    BY <1>5, <2>1, <2>2
<1>8. Unpaid' = Unpaid \ {p}
  <2>1. \A q \in 1..currentPeriod : q \in 1..MaxPeriod
    BY <1>1
  <2>2. <<x>> # << >>
    OBVIOUS
  <2> HIDE DEF x
  <2> QED
    BY <1>2, <1>7, <2>1, <2>2 DEF Unpaid
<1>9. EscrowKept'
  <2>1. (1..currentPeriod') \ Unpaid' = ((1..currentPeriod) \ Unpaid) \cup {p}
    BY <1>2, <1>3, <1>8
  <2>2. nullifiers' = {E2E!Contract!Nullifier(Leaf(q)) :
                          q \in (1..currentPeriod') \ Unpaid'}
    BY <1>2, <2>1 DEF ContractInv, EscrowKept
  <2>3. \A q \in 1..MaxPeriod : q > currentPeriod' => payments'[Leaf(q)] = << >>
    <3> HIDE DEF x
    <3> QED
      BY <1>1, <1>2, <1>3, <1>7 DEF ContractInv, EscrowKept
  <2>4. /\ balance' \in [{"USDC"} -> [Source \cup {"contract"} -> Int]]
        /\ balance'["USDC"]["contract"] = balance["USDC"]["contract"] - ScriptWage
    BY <1>1, <1>5 DEF E2E!Contract!Moved, E2E!Contract!Accounts, ContractInv, EscrowKept,
       Source
  <2>5. /\ Cardinality(Unpaid') = Cardinality(Unpaid) - 1
        /\ Cardinality(Unpaid) \in Nat
    BY <1>1, <1>4, <1>8, UnpaidFinite, FS_RemoveElement
  <2>6. ScriptWage * (Cardinality(Unpaid) - 1) = ScriptWage * Cardinality(Unpaid) - ScriptWage
    BY <1>1, <2>5
  <2>7. balance'["USDC"]["contract"] = ScriptWage * Cardinality(Unpaid')
    BY <2>4, <2>5, <2>6 DEF ContractInv, EscrowKept
  <2> QED
    BY <1>6, <2>2, <2>3, <2>4, <2>7 DEF EscrowKept
<1>10. ContractKept'
  BY <1>2 DEF ContractInv, ContractKept
<1> QED
  BY <1>2, <1>4, <1>5, <1>8, <1>9, <1>10 DEF ContractInv

LEMMA ExecutesStep ==
    ASSUME ContractInv, NEW call, Proved(call.period), call.recipient \in Source,
           E2E!Executes(call)
    PROVE  /\ ContractInv'
           /\ \/ /\ call.kind = "set_employee_root"
                 /\ UNCHANGED <<currentPeriod, payments, Unpaid>>
                 /\ employeeRoot' = Below(call.period)
              \/ /\ call.kind = "set_budget_cap"
                 /\ UNCHANGED <<currentPeriod, payments, employeeRoot, Unpaid>>
              \/ /\ call.kind = "run_payroll"
                 /\ UNCHANGED <<payments, employeeRoot>>
                 /\ call.period = currentPeriod + 1 /\ currentPeriod' = call.period
                 /\ Unpaid' = Unpaid \cup {call.period} /\ call.period \notin Unpaid
              \/ /\ call.kind = "withdraw"
                 /\ UNCHANGED <<currentPeriod, employeeRoot>>
                 /\ call.period \in Unpaid /\ Unpaid' = Unpaid \ {call.period}
                 /\ payments' = [payments EXCEPT ![Leaf(call.period)] =
                        << [period    |-> call.period,
                            token     |-> "USDC",
                            recipient |-> call.recipient] >>]
<1>1. CASE call.kind = "set_employee_root"
           /\ E2E!Contract!SetEmployeeRoot(Below(call.period))
  BY <1>1, RootStep
<1>2. CASE call.kind = "set_budget_cap" /\ E2E!Contract!SetBudgetCap(Budget)
  BY <1>2, CapStep
<1>3. CASE call.kind = "run_payroll"
           /\ E2E!Contract!RunPayroll(Below(call.period), ScriptWage, call.period,
                                      {E2E!Contract!CommitmentId(Leaf(call.period))})
  BY <1>3, RunStep
<1>4. CASE call.kind = "withdraw"
           /\ E2E!Contract!Withdraw(Below(call.period), Leaf(call.period), call.recipient)
  BY <1>4, WithdrawStep
<1>5. \/ call.kind = "set_employee_root"
         /\ E2E!Contract!SetEmployeeRoot(Below(call.period))
      \/ call.kind = "set_budget_cap" /\ E2E!Contract!SetBudgetCap(Budget)
      \/ call.kind = "run_payroll"
         /\ E2E!Contract!RunPayroll(Below(call.period), ScriptWage, call.period,
                                    {E2E!Contract!CommitmentId(Leaf(call.period))})
      \/ call.kind = "withdraw"
         /\ E2E!Contract!Withdraw(Below(call.period), Leaf(call.period), call.recipient)
  BY DEF E2E!Executes, E2E!PayrollInput, E2E!WithdrawInput, E2E!Contract!CommitmentId,
         Below, Leaf
<1> QED
  BY <1>1, <1>2, <1>3, <1>4, <1>5

-----------------------------------------------------------------------------
(* The steps of the scripts.                                               *)

\* What one script's command shows of the others.
LEMMA NoticedFacts ==
    ASSUME script \in [Scripts -> States], NEW s \in Scripts, NEW at \in Places,
           script' = E2E!Noticed(s, at)
    PROVE  /\ script' \in [Scripts -> States]
           /\ \A t \in Scripts :
                 /\ script'[t].period = script[t].period
                 /\ script'[t].recipient = script[t].recipient
                 /\ t # s => script'[t].at = script[t].at
                 /\ t # s /\ script'[t].alone => script[t].at = "start"
           /\ script'[s].at = at /\ script'[s].alone = script[s].alone
<1>1. \A t \in Scripts : script[t] \in States
  OBVIOUS
<1>2. \A t \in Scripts :
         /\ script'[t] \in States
         /\ script'[t].period = script[t].period
         /\ script'[t].recipient = script[t].recipient
         /\ t # s => script'[t].at = script[t].at
         /\ t # s /\ script'[t].alone => script[t].at = "start"
  BY <1>1 DEF E2E!Noticed, States
<1>3. script'[s].at = at /\ script'[s].alone = script[s].alone
  BY <1>1 DEF E2E!Noticed, States
<1>4. script' \in [Scripts -> States]
  <2>1. script' = [t \in Scripts |-> script'[t]]
    BY DEF E2E!Noticed
  <2> QED
    BY <1>2, <2>1
<1> QED
  BY <1>2, <1>3, <1>4

LEMMA CommandInv ==
    ASSUME ScriptInv, NEW s \in Scripts, E2E!Command(s)
    PROVE  ScriptInv'
<1> DEFINE p    == script[s].period
           call == E2E!Called(s)
           at   == E2E!After(script[s].at)
<1>1. /\ call.period = p /\ call.kind = script[s].at /\ call.recipient = script[s].recipient
      /\ script \in [Scripts -> States] /\ Proved(p) /\ call.recipient \in Source
      /\ \A t \in Scripts : script[t] \in States
      /\ E2E!Executes(call) /\ ContractInv
  BY DEF E2E!Called, E2E!Command, E2E!Sending, ScriptInv, ScriptTypes, States, ContractInv
<1>2. /\ script' = E2E!Noticed(s, at)
      /\ undecided' \subseteq undecided
  BY DEF E2E!Command
<1> HIDE DEF call
<1>3. /\ ContractInv'
      /\ \/ /\ script[s].at = "set_employee_root"
            /\ UNCHANGED <<currentPeriod, payments, Unpaid>>
            /\ employeeRoot' = Below(p)
         \/ /\ script[s].at = "set_budget_cap"
            /\ UNCHANGED <<currentPeriod, payments, employeeRoot, Unpaid>>
         \/ /\ script[s].at = "run_payroll"
            /\ UNCHANGED <<payments, employeeRoot>>
            /\ p = currentPeriod + 1 /\ currentPeriod' = p
            /\ Unpaid' = Unpaid \cup {p} /\ p \notin Unpaid
         \/ /\ script[s].at = "withdraw"
            /\ UNCHANGED <<currentPeriod, employeeRoot>>
            /\ p \in Unpaid /\ Unpaid' = Unpaid \ {p}
            /\ payments' = [payments EXCEPT ![Leaf(p)] =
                   << [period    |-> p,
                       token     |-> "USDC",
                       recipient |-> script[s].recipient] >>]
  BY <1>1, ExecutesStep
<1>4. at \in Places /\ at # "start" /\ at # "failed"
      /\ (script[s].at = "set_employee_root" => at = "set_budget_cap")
      /\ (script[s].at = "set_budget_cap" => at = "run_payroll")
      /\ (script[s].at = "run_payroll" => at = "prove")
      /\ (script[s].at = "withdraw" => at = "done")
  BY <1>3 DEF E2E!After, Places
<1> HIDE DEF at
<1>5. /\ script' \in [Scripts -> States]
      /\ \A t \in Scripts :
            /\ script'[t].period = script[t].period
            /\ script'[t].recipient = script[t].recipient
            /\ t # s => script'[t].at = script[t].at
            /\ t # s /\ script'[t].alone => script[t].at = "start"
      /\ script'[s].at = at /\ script'[s].alone = script[s].alone
  BY <1>1, <1>2, <1>4, NoticedFacts
<1>6. ScriptTypes'
  <2>1. \A t \in Scripts : E2E!Running(t)' => Proved(script[t].period)
    BY <1>1, <1>5 DEF E2E!Running, ScriptInv, ScriptTypes
  <2> QED
    BY <1>2, <1>5, <2>1 DEF ScriptInv, ScriptTypes
<1>7. AloneInv'
  BY <1>3, <1>4, <1>5 DEF ScriptInv, AloneInv
<1>8. p \in 1..MaxPeriod /\ currentPeriod \in Nat /\ currentPeriod' \in Nat
  BY <1>1, <1>3, DeskBounds DEF Proved, ContractInv, ContractKept
<1>9. ClaimsInv'
  <2>1. \A t \in Scripts : t # s => (Claims(t)' <=> Claims(t))
    BY <1>5 DEF Claims
  <2>2. /\ \A t \in Scripts : Claims(t) => script[t].period \in Unpaid
        /\ \A t, u \in Scripts :
              t # u /\ Claims(t) /\ Claims(u) => script[t].period # script[u].period
        /\ \A c \in undecided : c.kind = "withdraw" =>
              /\ c.period \in 1..currentPeriod
              /\ \A t \in Scripts : Claims(t) => script[t].period # c.period
    BY DEF ScriptInv, ClaimsInv
  <2>3. CASE script[s].at \in {"set_employee_root", "set_budget_cap"}
    <3>1. ~Claims(s) /\ ~Claims(s)'
      BY <1>4, <1>5, <2>3 DEF Claims
    <3> QED
      BY <1>2, <1>3, <1>5, <2>1, <2>2, <2>3, <3>1 DEF ClaimsInv
  <2>4. CASE script[s].at = "run_payroll"
    <3>1. /\ p = currentPeriod + 1 /\ currentPeriod' = p
          /\ Unpaid' = Unpaid \cup {p} /\ p \notin Unpaid /\ ~Claims(s)
      BY <1>3, <2>4 DEF Claims
    <3>2. p \notin 1..currentPeriod /\ \A q \in 1..currentPeriod : q \in 1..currentPeriod'
      BY <1>8, <3>1
    <3> HIDE DEF p
    <3>3. /\ \A t \in Scripts : Claims(t)' => script'[t].period \in Unpaid'
          /\ \A t \in Scripts : t # s /\ Claims(t)' => script'[t].period # p
          /\ script'[s].period = p
      BY <1>5, <2>1, <2>2, <3>1 DEF p
    <3>4. \A t, u \in Scripts :
             t # u /\ Claims(t)' /\ Claims(u)' => script'[t].period # script'[u].period
      BY <1>5, <2>1, <2>2, <3>3
    <3>5. \A c \in undecided' : c.kind = "withdraw" =>
              /\ c.period \in 1..currentPeriod'
              /\ \A t \in Scripts : Claims(t)' => script'[t].period # c.period
      BY <1>2, <1>5, <2>1, <2>2, <3>2, <3>3
    <3> QED
      BY <3>3, <3>4, <3>5 DEF ClaimsInv
  <2>5. CASE script[s].at = "withdraw"
    <3>1. /\ currentPeriod' = currentPeriod /\ Unpaid' = Unpaid \ {p}
          /\ Claims(s) /\ ~Claims(s)'
      BY <1>3, <1>4, <1>5, <2>5 DEF Claims
    <3> QED
      BY <1>2, <1>5, <2>1, <2>2, <3>1 DEF ClaimsInv
  <2> QED
    BY <1>3, <2>3, <2>4, <2>5
<1>10. DoneInv'
  <2> SUFFICES ASSUME NEW t \in Scripts, script'[t].at = "done"
               PROVE  /\ script'[t].period \in 1..MaxPeriod
                      /\ payments'[Leaf(script'[t].period)] =
                            << [period    |-> script'[t].period,
                                token     |-> "USDC",
                                recipient |-> script'[t].recipient] >>
    BY DEF DoneInv
  <2>1. CASE t # s
    <3>1. /\ script[t].period \in 1..MaxPeriod
          /\ payments[Leaf(script[t].period)] =
                << [period    |-> script[t].period,
                    token     |-> "USDC",
                    recipient |-> script[t].recipient] >>
      BY <1>5, <2>1 DEF ScriptInv, DoneInv
    <3>2. CASE script[s].at = "withdraw"
      <4>1. payments[Leaf(p)] = << >>
        BY <1>3, <3>2 DEF Unpaid
      <4>2. Leaf(script[t].period) # Leaf(p)
        BY <3>1, <4>1
      <4>3. /\ payments \in [E2E!Leaves -> Seq(E2E!Contract!Payment)]
            /\ Leaf(script[t].period) \in E2E!Leaves
        BY <3>1, LeafFacts DEF ScriptInv, EscrowKept
      <4>4. payments'[Leaf(script[t].period)] = payments[Leaf(script[t].period)]
        BY <1>3, <3>2, <4>2, <4>3
      <4> QED
        BY <1>5, <3>1, <4>4
    <3>3. CASE script[s].at # "withdraw"
      BY <1>3, <1>5, <3>1, <3>3
    <3> QED
      BY <3>2, <3>3
  <2>2. CASE t = s
    <3>1. script[s].at = "withdraw"
      BY <1>3, <1>4, <1>5, <2>2
    <3>2. payments \in [E2E!Leaves -> Seq(E2E!Contract!Payment)] /\ Leaf(p) \in E2E!Leaves
      BY <1>8, LeafFacts DEF ScriptInv, EscrowKept
    <3> QED
      BY <1>3, <1>5, <1>8, <2>2, <3>1, <3>2
  <2> QED
    BY <2>1, <2>2
<1> QED
  BY <1>3, <1>6, <1>7, <1>9, <1>10 DEF ScriptInv, ContractInv

LEMMA AppliedLaterInv ==
    ASSUME ScriptInv, NEW call \in undecided, E2E!AppliedLater(call)
    PROVE  ScriptInv'
<1> DEFINE p == call.period
<1>1. /\ script \in [Scripts -> States] /\ \A t \in Scripts : script[t] \in States
      /\ Proved(p) /\ call.recipient \in Source
      /\ E2E!Executes(call) /\ ContractInv /\ undecided' \subseteq undecided
      /\ script' = [t \in Scripts |->
                       [script[t] EXCEPT !.alone = @ /\ script[t].at = "start"]]
  BY DEF E2E!AppliedLater, ScriptInv, ScriptTypes, ContractInv
<1>2. /\ ContractInv'
      /\ \/ UNCHANGED <<currentPeriod, payments, Unpaid>>
         \/ /\ UNCHANGED payments
            /\ p = currentPeriod + 1 /\ currentPeriod' = p
            /\ Unpaid' = Unpaid \cup {p}
         \/ /\ call.kind = "withdraw" /\ UNCHANGED currentPeriod
            /\ p \in Unpaid /\ Unpaid' = Unpaid \ {p}
            /\ payments' = [payments EXCEPT ![Leaf(p)] =
                   << [period    |-> p,
                       token     |-> "USDC",
                       recipient |-> call.recipient] >>]
  BY <1>1, ExecutesStep
<1>3. \A t \in Scripts :
         /\ script'[t] \in States /\ script'[t].at = script[t].at
         /\ script'[t].period = script[t].period
         /\ script'[t].recipient = script[t].recipient
         /\ script'[t].alone => script[t].at = "start"
  BY <1>1 DEF States
<1>4. ScriptTypes'
  <2>1. script' \in [Scripts -> States]
    BY <1>1, <1>3
  <2> QED
    BY <1>1, <1>3, <2>1 DEF ScriptInv, ScriptTypes, E2E!Running
<1>5. AloneInv'
  BY <1>3 DEF AloneInv
<1>6. p \in 1..MaxPeriod /\ currentPeriod \in Nat
  BY <1>1 DEF Proved, ContractInv, ContractKept
<1> HIDE DEF p
<1>7. ClaimsInv'
  <2>1. /\ \A t \in Scripts : Claims(t)' <=> Claims(t)
        /\ \A q \in 1..currentPeriod : q \in 1..currentPeriod'
    BY <1>2, <1>3, <1>6 DEF Claims
  <2>2. \A t \in Scripts : Claims(t) => script[t].period \in Unpaid'
    BY <1>2 DEF ScriptInv, ClaimsInv, p
  <2>3. /\ \A t, u \in Scripts :
              t # u /\ Claims(t) /\ Claims(u) => script[t].period # script[u].period
        /\ \A c \in undecided : c.kind = "withdraw" =>
              /\ c.period \in 1..currentPeriod
              /\ \A t \in Scripts : Claims(t) => script[t].period # c.period
    BY DEF ScriptInv, ClaimsInv
  <2>4. ASSUME NEW c \in undecided', c.kind = "withdraw"
        PROVE  /\ c.period \in 1..currentPeriod'
               /\ \A t \in Scripts : Claims(t)' => script'[t].period # c.period
    <3>1. c \in undecided
      BY <1>1
    <3>2. /\ c.period \in 1..currentPeriod
          /\ \A t \in Scripts : Claims(t) => script[t].period # c.period
      BY <2>3, <2>4, <3>1
    <3> QED
      BY <1>3, <2>1, <3>2
  <2>5. \A t, u \in Scripts :
           t # u /\ Claims(t)' /\ Claims(u)' => script'[t].period # script'[u].period
    BY <1>3, <2>1, <2>3
  <2> QED
    BY <1>3, <2>1, <2>2, <2>4, <2>5 DEF ClaimsInv
<1>8. DoneInv'
  <2> SUFFICES ASSUME NEW t \in Scripts, script[t].at = "done"
               PROVE  /\ script[t].period \in 1..MaxPeriod
                      /\ payments'[Leaf(script[t].period)] =
                            << [period    |-> script[t].period,
                                token     |-> "USDC",
                                recipient |-> script[t].recipient] >>
    BY <1>3 DEF DoneInv
  <2>1. /\ script[t].period \in 1..MaxPeriod
        /\ payments[Leaf(script[t].period)] =
              << [period    |-> script[t].period,
                  token     |-> "USDC",
                  recipient |-> script[t].recipient] >>
    BY DEF ScriptInv, DoneInv
  <2>2. /\ payments \in [E2E!Leaves -> Seq(E2E!Contract!Payment)]
        /\ Leaf(script[t].period) \in E2E!Leaves
    BY <2>1, LeafFacts DEF ScriptInv, EscrowKept
  <2>3. p \in Unpaid => payments[Leaf(p)] = << >>
    BY DEF Unpaid
  <2>4. p \in Unpaid => Leaf(script[t].period) # Leaf(p)
    <3>1. payments[Leaf(script[t].period)] # << >>
      BY <2>1
    <3> QED
      BY <2>3, <3>1
  <2>5. payments'[Leaf(script[t].period)] = payments[Leaf(script[t].period)]
    BY <1>2, <2>2, <2>4
  <2> QED
    BY <2>1, <2>5
<1> QED
  BY <1>2, <1>4, <1>5, <1>7, <1>8 DEF ScriptInv, ContractInv

LEMMA ReadPeriodInv ==
    ASSUME ScriptInv, NEW s \in Scripts, NEW recipient \in Source,
           E2E!ReadPeriod(s, recipient)
    PROVE  ScriptInv'
<1>1. /\ script \in [Scripts -> States] /\ UNCHANGED <<contract, undecided>>
      /\ currentPeriod < MaxPeriod /\ currentPeriod \in Nat /\ MaxPeriod \in Nat
      /\ E2E!PayrollProofMade(E2E!PayrollInput(currentPeriod + 1))
  BY DeskBounds DEF E2E!ReadPeriod, E2E!NextPeriod, ScriptInv, ScriptTypes, ContractKept,
     E2E!contract, contract
<1>2. UNCHANGED <<employeeRoot, budgetCap, token, verifier, withdrawVerifier,
                  currentPeriod, rootToPeriod, commitments, nullifiers, balance, payments>>
  BY <1>1 DEF contract
<1>3. PICK alone \in BOOLEAN :
         script' = [script EXCEPT ![s] = [at |-> "set_employee_root",
                                          period |-> currentPeriod + 1,
                                          recipient |-> recipient, alone |-> alone]]
  BY DEF E2E!ReadPeriod, E2E!NextPeriod
<1>4. Proved(currentPeriod + 1) /\ currentPeriod + 1 \in 0..MaxPeriod
  BY <1>1 DEF Proved
<1>5. /\ script' \in [Scripts -> States]
      /\ \A t \in Scripts \ {s} : script'[t] = script[t]
      /\ script'[s].at = "set_employee_root" /\ script'[s].period = currentPeriod + 1
  BY <1>1, <1>3, <1>4 DEF States, Places
<1>6. ScriptTypes'
  BY <1>1, <1>4, <1>5 DEF ScriptInv, ScriptTypes, E2E!Running
<1>7. ContractKept' /\ EscrowKept'
  BY <1>2 DEF ScriptInv, ContractKept, EscrowKept, Unpaid
<1>8. AloneInv'
  BY <1>2, <1>5 DEF ScriptInv, AloneInv
<1>9. ClaimsInv'
  <2>1. UNCHANGED Unpaid
    BY <1>2 DEF Unpaid
  <2>2. \A t \in Scripts :
           Claims(t)' => Claims(t) /\ script'[t].period = script[t].period
    BY <1>5 DEF Claims
  <2> QED
    BY <1>1, <1>2, <2>1, <2>2 DEF ScriptInv, ClaimsInv
<1>10. DoneInv'
  BY <1>2, <1>5 DEF ScriptInv, DoneInv
<1> QED
  BY <1>6, <1>7, <1>8, <1>9, <1>10 DEF ScriptInv

\* A script proves its withdrawal, fails, or leaves its transaction behind.
LEMMA MovedOnInv ==
    ASSUME ScriptInv, NEW s \in Scripts, NEW at \in {"withdraw", "failed"},
           E2E!Running(s),
           script' = [script EXCEPT ![s].at = at], UNCHANGED contract,
           at = "withdraw" => script[s].at = "prove",
           \/ undecided' = undecided
           \/ at = "failed" /\ undecided' = undecided \cup {E2E!Called(s)}
    PROVE  ScriptInv'
<1>1. UNCHANGED <<employeeRoot, budgetCap, token, verifier, withdrawVerifier,
                  currentPeriod, rootToPeriod, commitments, nullifiers, balance, payments>>
  BY DEF contract
<1>2. script \in [Scripts -> States] /\ Proved(script[s].period)
  BY DEF ScriptInv, ScriptTypes
<1>3. /\ script' \in [Scripts -> States]
      /\ \A t \in Scripts :
            /\ script'[t].period = script[t].period
            /\ script'[t].recipient = script[t].recipient
            /\ script'[t].alone = script[t].alone
            /\ t # s => script'[t].at = script[t].at
      /\ script'[s].at = at
  BY <1>2 DEF States, Places
<1>4. LET call == E2E!Called(s)
      IN  /\ call.period = script[s].period /\ call.kind = script[s].at
          /\ call.recipient = script[s].recipient
  BY DEF E2E!Called
<1>5. ScriptTypes'
  <2>1. \A c \in undecided' : Proved(c.period) /\ c.recipient \in Source
    BY <1>2, <1>4 DEF ScriptInv, ScriptTypes, States
  <2>2. \A t \in Scripts : E2E!Running(t)' => Proved(script'[t].period)
    BY <1>2, <1>3 DEF ScriptInv, ScriptTypes, E2E!Running
  <2> QED
    BY <1>3, <2>1, <2>2 DEF ScriptTypes
<1>6. ContractKept' /\ EscrowKept'
  BY <1>1 DEF ScriptInv, ContractKept, EscrowKept, Unpaid
<1>7. AloneInv'
  BY <1>1, <1>3 DEF ScriptInv, AloneInv
<1>8. ClaimsInv'
  <2>1. UNCHANGED Unpaid
    BY <1>1 DEF Unpaid
  <2>2. \A t \in Scripts : Claims(t)' => Claims(t)
    BY <1>3 DEF Claims
  <2>3. /\ \A t \in Scripts : Claims(t) => script[t].period \in Unpaid
        /\ \A t, u \in Scripts :
              t # u /\ Claims(t) /\ Claims(u) => script[t].period # script[u].period
        /\ \A c \in undecided : c.kind = "withdraw" =>
              /\ c.period \in 1..currentPeriod
              /\ \A t \in Scripts : Claims(t) => script[t].period # c.period
    BY DEF ScriptInv, ClaimsInv
  <2>4. ASSUME NEW c \in undecided', c.kind = "withdraw"
        PROVE  /\ c.period \in 1..currentPeriod'
               /\ \A t \in Scripts : Claims(t)' => script'[t].period # c.period
    <3>1. CASE c \in undecided
      BY <1>1, <1>3, <2>2, <2>3, <2>4, <3>1
    <3>2. CASE c = E2E!Called(s) /\ at = "failed"
      <4>1. Claims(s) /\ c.period = script[s].period /\ ~Claims(s)'
        BY <1>3, <1>4, <2>4, <3>2 DEF Claims
      <4>2. script[s].period \in 1..currentPeriod
        BY <2>3, <4>1 DEF Unpaid
      <4> QED
        BY <1>1, <1>3, <2>2, <2>3, <4>1, <4>2
    <3> QED
      BY <3>1, <3>2
  <2>5. /\ \A t \in Scripts : Claims(t)' => script'[t].period \in Unpaid'
        /\ \A t, u \in Scripts :
              t # u /\ Claims(t)' /\ Claims(u)' => script'[t].period # script'[u].period
    BY <1>3, <2>1, <2>2, <2>3
  <2> QED
    BY <2>4, <2>5 DEF ClaimsInv
<1>9. DoneInv'
  BY <1>1, <1>3 DEF ScriptInv, DoneInv
<1> QED
  BY <1>5, <1>6, <1>7, <1>8, <1>9 DEF ScriptInv

LEMMA CompleteDeploymentInv ==
    ASSUME ScriptInv, E2E!CompleteDeployment
    PROVE  ScriptInv'
<1>1. /\ ContractInv' /\ UNCHANGED <<currentPeriod, payments, employeeRoot, Unpaid>>
      /\ UNCHANGED <<script, undecided>>
  BY VerifierStep DEF E2E!CompleteDeployment, ScriptInv, ContractInv
<1>2. ScriptTypes' /\ AloneInv' /\ ClaimsInv' /\ DoneInv'
  BY <1>1 DEF ScriptInv, ScriptTypes, E2E!Running, AloneInv, ClaimsInv, Claims, DoneInv
<1> QED
  BY <1>1, <1>2 DEF ScriptInv, ContractInv

-----------------------------------------------------------------------------
(* The invariant holds, and what follows from it.                          *)

LEMMA ScriptInitInv ==
    ASSUME E2E!E2EInit
    PROVE  ScriptInv
<1>1. /\ budgetCap = Budget /\ token = "USDC" /\ verifier = "batch"
      /\ withdrawVerifier = None /\ currentPeriod = 0 /\ commitments = {}
      /\ rootToPeriod = [r \in E2E!Roots |-> 0] /\ nullifiers = {}
      /\ balance = [t \in {"USDC"} |->
                       [a \in E2E!Contract!Accounts |-> IF a = "source" THEN Funds ELSE 0]]
      /\ payments = [l \in E2E!Leaves |-> << >>]
      /\ script = [s \in Scripts |-> E2E!NotStarted] /\ undecided = {}
  BY DEF E2E!E2EInit, E2E!Contract!Init
<1>2. 1..0 = {} /\ 0 \in 0..MaxPeriod /\ Funds \in Nat
  BY DeskBounds, DeskAssumption
<1>3. \A s \in Scripts : script[s] \in States /\ script[s].at = "start"
  BY <1>1, <1>2 DEF E2E!NotStarted, States, Places, Source
<1>4. ScriptTypes /\ AloneInv /\ ClaimsInv /\ DoneInv
  BY <1>1, <1>3 DEF ScriptTypes, E2E!Running, AloneInv, ClaimsInv, Claims, DoneInv
<1>5. ContractKept
  BY <1>1, <1>2 DEF ContractKept
<1>6. Unpaid = {}
  BY <1>1, <1>2 DEF Unpaid
<1>7. ScriptWage * Cardinality(Unpaid) = 0
  <2>1. Cardinality(Unpaid) = 0
    BY <1>6, FS_EmptySet
  <2> QED
    BY <2>1, ScriptAssumption
<1>8. EscrowKept
  <2>1. \A p \in 1..MaxPeriod : payments[Leaf(p)] = << >>
    BY <1>1, LeafFacts
  <2>2. << >> \in Seq(E2E!Contract!Payment)
    OBVIOUS
  <2>3. payments \in [E2E!Leaves -> Seq(E2E!Contract!Payment)]
    BY <1>1, <2>2
  <2>4. nullifiers = {E2E!Contract!Nullifier(Leaf(p)) : p \in (1..currentPeriod) \ Unpaid}
    BY <1>1, <1>2
  <2>5. /\ balance \in [{"USDC"} -> [Source \cup {"contract"} -> Int]]
        /\ balance["USDC"]["contract"] = 0
    BY <1>1, <1>2 DEF E2E!Contract!Accounts, Source
  <2> QED
    BY <1>7, <2>1, <2>3, <2>4, <2>5 DEF EscrowKept
<1> QED
  BY <1>4, <1>5, <1>8 DEF ScriptInv

LEMMA ScriptNextInv ==
    ASSUME ScriptInv, [E2E!E2ENext]_<<contract, script, undecided>>
    PROVE  ScriptInv'
<1>1. CASE UNCHANGED <<contract, script, undecided>>
  <2>1. UNCHANGED <<employeeRoot, budgetCap, token, verifier, withdrawVerifier,
                    currentPeriod, rootToPeriod, commitments, nullifiers, balance,
                    payments, script, undecided>>
    BY <1>1 DEF contract
  <2>2. ScriptTypes' /\ ContractKept' /\ EscrowKept'
    BY <2>1 DEF ScriptInv, ScriptTypes, E2E!Running, ContractKept, EscrowKept, Unpaid
  <2>3. AloneInv' /\ ClaimsInv' /\ DoneInv'
    BY <2>1 DEF ScriptInv, AloneInv, ClaimsInv, Claims, Unpaid, DoneInv
  <2> QED
    BY <2>2, <2>3 DEF ScriptInv
<1>2. ASSUME NEW s \in Scripts, NEW recipient \in Source, E2E!ReadPeriod(s, recipient)
      PROVE  ScriptInv'
  BY <1>2, ReadPeriodInv
<1>3. ASSUME NEW s \in Scripts, E2E!ProveWithdraw(s) \/ E2E!Fails(s) \/ E2E!TimesOut(s)
      PROVE  ScriptInv'
  <2>1. CASE E2E!ProveWithdraw(s)
    <3>1. E2E!Running(s)
      BY <2>1 DEF E2E!ProveWithdraw, E2E!Running
    <3> QED
      BY <2>1, <3>1, MovedOnInv DEF E2E!ProveWithdraw, E2E!contract, contract
  <2>2. CASE E2E!Fails(s)
    BY <2>2, MovedOnInv DEF E2E!Fails, E2E!contract, contract
  <2>3. CASE E2E!TimesOut(s)
    BY <2>3, MovedOnInv DEF E2E!TimesOut, E2E!Sending, E2E!contract, contract
  <2> QED
    BY <1>3, <2>1, <2>2, <2>3
<1>4. ASSUME NEW s \in Scripts, E2E!Command(s)
      PROVE  ScriptInv'
  BY <1>4, CommandInv
<1>5. ASSUME NEW call \in undecided, E2E!AppliedLater(call)
      PROVE  ScriptInv'
  BY <1>5, AppliedLaterInv
<1>6. CASE E2E!CompleteDeployment
  BY <1>6, CompleteDeploymentInv
<1> QED
  BY <1>1, <1>2, <1>3, <1>4, <1>5, <1>6 DEF E2E!E2ENext, Source

\* What the contract asks of a batch proof is what the script's proof shows.
LEMMA ProvedIsProvable ==
    ASSUME NEW p, Proved(p)
    PROVE  E2E!Contract!BatchProvable(Below(p), ScriptWage)
<1> DEFINE slots  == E2E!PayrollInput(p).slots
           Tree_  == [root \in E2E!Roots |-> root]
           Salary_ == [l \in E2E!Leaves |-> l.salary]
<1>1. p \in 1..MaxPeriod /\ E2E!PayrollProofMade(E2E!PayrollInput(p))
  BY DEF Proved
<1>2. Below(p) \in E2E!Roots /\ Below(p) \subseteq E2E!Leaves
  BY <1>1, LeafFacts DEF Below, Leaf, E2E!MerkleTree, E2E!Leaves
<1>3. /\ E2E!PayrollInput(p).employeeRoot = Below(p)
      /\ E2E!PayrollInput(p).totalPayrollAmount = ScriptWage
      /\ slots = [i \in 1..BatchSize |-> slots[i]]
  BY DEF E2E!PayrollInput, Below
<1> HIDE DEF slots
<1>4. /\ \A i \in 1..BatchSize : slots[i] \in Below(p) /\ E2E!Contract!InRange(slots[i])
      /\ ScriptWage = E2E!Contract!SumOf(1..BatchSize,
                                         [i \in 1..BatchSize |-> slots[i].salary])
  BY <1>1, <1>3 DEF E2E!PayrollProofMade, slots
<1>5. slots \in [1..BatchSize -> {l \in Tree_[Below(p)] : E2E!Contract!InRange(l)}]
  BY <1>2, <1>3, <1>4
<1>6. [i \in 1..BatchSize |-> slots[i].salary] = [i \in 1..BatchSize |-> Salary_[slots[i]]]
  BY <1>2, <1>4
<1> QED
  BY <1>4, <1>5, <1>6 DEF E2E!Contract!BatchProvable

LEMMA ScriptSound ==
    ASSUME ScriptInv
    PROVE  E2E!ScriptSucceeds /\ E2E!ScriptsSettle
<1>1. ASSUME NEW s \in Scripts, script[s].at = "run_payroll", script[s].alone,
             balance["USDC"]["source"] >= ScriptWage
      PROVE  E2E!Contract!RunPayrollAccepts(Below(script[s].period), ScriptWage,
                script[s].period, {E2E!Contract!CommitmentId(Leaf(script[s].period))})
  <2> DEFINE p == script[s].period
  <2>1. Proved(p) /\ p = currentPeriod + 1 /\ employeeRoot = Below(p)
    BY <1>1 DEF ScriptInv, ScriptTypes, AloneInv, E2E!Running
  <2>2. ScriptWage <= Budget /\ p \in 1..MaxPeriod /\ currentPeriod < MaxPeriod
    BY <2>1, ProvedFacts, DeskBounds DEF ScriptInv, ContractKept
  <2>3. E2E!Contract!AreNew({E2E!Contract!CommitmentId(Leaf(p))})
    <3>1. ASSUME NEW q \in 1..currentPeriod
          PROVE  E2E!Contract!CommitmentId(Leaf(p)) # E2E!Contract!CommitmentId(Leaf(q))
      <4>1. q \in 1..MaxPeriod /\ q # p
        BY <2>1, <2>2, DeskBounds DEF ScriptInv, ContractKept
      <4> QED
        BY <2>2, <4>1, LeafFacts
    <3> QED
      BY <3>1 DEF E2E!Contract!AreNew, ScriptInv, ContractKept
  <2>4. E2E!Contract!BatchProvable(Below(p), ScriptWage)
    BY <2>1, ProvedIsProvable
  <2>5. E2E!Contract!WithinCap(ScriptWage) /\ E2E!Contract!IsNextPeriod(p)
        /\ E2E!Contract!Covered(token, "source", ScriptWage) /\ verifier = "batch"
    BY <1>1, <2>1, <2>2 DEF E2E!Contract!WithinCap, E2E!Contract!IsNextPeriod,
       E2E!Contract!Covered, ScriptInv, ContractKept
  <2> QED
    BY <2>1, <2>2, <2>3, <2>4, <2>5 DEF E2E!Contract!RunPayrollAccepts
<1>2. ASSUME NEW s \in Scripts, script[s].at = "withdraw", withdrawVerifier # None
      PROVE  E2E!Contract!WithdrawAccepts(Below(script[s].period), Leaf(script[s].period))
  <2> DEFINE p == script[s].period
             Salary_ == [l \in E2E!Leaves |-> l.salary]
             Tree_   == [root \in E2E!Roots |-> root]
  <2>1. Proved(p) /\ p \in Unpaid /\ p \in 1..currentPeriod /\ withdrawVerifier = "withdraw"
    BY <1>2 DEF ScriptInv, ScriptTypes, ClaimsInv, Claims, ContractKept, E2E!Running, Unpaid
  <2>2. /\ p \in 1..MaxPeriod /\ ScriptWage \in Nat /\ ScriptWage <= Budget
        /\ Leaf(p) \in Below(p) /\ E2E!Contract!InRange(Leaf(p))
    BY <2>1, ProvedFacts
  <2>3. Tree_[Below(p)] = Below(p) /\ Salary_[Leaf(p)] = ScriptWage
    BY <2>2, LeafFacts
  <2>4. E2E!Contract!WithdrawProvable(Below(p), E2E!Contract!CommitmentId(Leaf(p)),
                                     E2E!Contract!Nullifier(Leaf(p)), Salary_[Leaf(p)])
    BY <2>2, <2>3 DEF E2E!Contract!WithdrawProvable
  <2>5. E2E!Contract!KnownRoot(Below(p)) /\ E2E!Contract!Recorded(Leaf(p))
    BY <2>1 DEF E2E!Contract!KnownRoot, E2E!Contract!Recorded, ScriptInv, ContractKept
  <2>6. ~E2E!Contract!Spent(Leaf(p))
    <3>1. ASSUME NEW q \in (1..currentPeriod) \ Unpaid
          PROVE  E2E!Contract!Nullifier(Leaf(p)) # E2E!Contract!Nullifier(Leaf(q))
      <4>1. q \in 1..MaxPeriod /\ q # p
        BY <2>1, DeskBounds DEF ScriptInv, ContractKept
      <4> QED
        BY <2>2, <4>1, LeafFacts
    <3> QED
      BY <3>1 DEF E2E!Contract!Spent, ScriptInv, EscrowKept
  <2>7. E2E!Contract!Covered(token, "contract", Salary_[Leaf(p)])
    <3>1. IsFiniteSet(Unpaid) /\ Cardinality(Unpaid) \in Nat
      BY UnpaidFinite DEF ScriptInv, ContractKept
    <3>2. Cardinality(Unpaid) >= 1
      BY <2>1, <3>1, FS_EmptySet
    <3>3. ScriptWage * Cardinality(Unpaid) >= ScriptWage
      BY <2>2, <3>1, <3>2
    <3> QED
      BY <2>3, <3>3 DEF E2E!Contract!Covered, ScriptInv, EscrowKept, ContractKept
  <2> QED
    BY <2>1, <2>2, <2>3, <2>4, <2>5, <2>6, <2>7 DEF E2E!Contract!WithdrawAccepts
<1>3. E2E!ScriptSucceeds
  BY <1>1, <1>2 DEF E2E!ScriptSucceeds, Below, Leaf
<1>4. E2E!ScriptsSettle
  <2>1. \A s \in Scripts :
           script[s].at = "done" =>
              /\ Len(payments[Leaf(script[s].period)]) = 1
              /\ payments[Leaf(script[s].period)][1].period = script[s].period
              /\ payments[Leaf(script[s].period)][1].recipient = script[s].recipient
    <3>1. \A x : Len(<<x>>) = 1 /\ <<x>>[1] = x
      OBVIOUS
    <3> SUFFICES ASSUME NEW s \in Scripts, script[s].at = "done"
                 PROVE  /\ Len(payments[Leaf(script[s].period)]) = 1
                        /\ payments[Leaf(script[s].period)][1].period = script[s].period
                        /\ payments[Leaf(script[s].period)][1].recipient
                              = script[s].recipient
      OBVIOUS
    <3>2. payments[Leaf(script[s].period)] =
             << [period    |-> script[s].period,
                 token     |-> "USDC",
                 recipient |-> script[s].recipient] >>
      BY DEF ScriptInv, DoneInv
    <3> QED
      BY <3>1, <3>2
  <2>2. balance["USDC"]["contract"] = ScriptWage * E2E!Cardinality(Unpaid)
    BY E2ECounts DEF ScriptInv, EscrowKept
  <2> QED
    BY <2>1, <2>2 DEF E2E!ScriptsSettle, Leaf, Unpaid
<1> QED
  BY <1>3, <1>4

LEMMA ScriptInvariant ==
    AllSpec => [](part = "script" => ScriptInv)
<1>1. AllInit => (part = "script" => ScriptInv)
  BY ScriptInitInv DEF AllInit
<1>2. /\ part = "script" => ScriptInv
      /\ [AllNext]_<<part, vars, script, undecided, timeouts>>
      => (part = "script" => ScriptInv)'
  <2> SUFFICES ASSUME part = "script" => ScriptInv,
                      [AllNext]_<<part, vars, script, undecided, timeouts>>,
                      part' = "script"
               PROVE  ScriptInv'
    OBVIOUS
  <2>1. part = "script" /\ [E2E!E2ENext]_<<contract, script, undecided>>
    BY DEF AllNext, vars
  <2> QED
    BY <2>1, ScriptNextInv
<1> QED
  BY <1>1, <1>2, PTL DEF AllSpec

\* Whatever earlier scripts left behind when they were cut short or given up on,
\* a script that has the contract to itself gets its payroll accepted, one that
\* got it accepted can withdraw, pays one salary once, and leaves nothing behind.
THEOREM ScriptsAlwaysSettle ==
    AllSpec => []ScriptsSettle
<1>1. (part = "script" => ScriptInv) => ScriptsSettle
  BY ScriptSound DEF ScriptsSettle
<1> QED
  BY <1>1, ScriptInvariant, PTL

-----------------------------------------------------------------------------
(* Both clients are the employer the payroll contract assumes.             *)

LEMMA ExecutesIsEmployers ==
    ASSUME ContractInv, NEW call, Proved(call.period), call.recipient \in Source,
           E2E!Executes(call)
    PROVE  E2E!Contract!EmployerNext
<1> DEFINE p == call.period
           Salary_ == [l \in E2E!Leaves |-> l.salary]
           Tree_   == [root \in E2E!Roots |-> root]
<1>1. /\ p \in 1..MaxPeriod /\ ScriptWage \in Nat
      /\ Leaf(p) \in Below(p) /\ E2E!Contract!InRange(Leaf(p))
      /\ Below(p) \in E2E!Roots /\ Leaf(p) \in E2E!Leaves
      /\ Tree_[Below(p)] = Below(p) /\ Salary_[Leaf(p)] = ScriptWage
  BY ProvedFacts, LeafFacts
<1>2. CASE E2E!Contract!SetEmployeeRoot(Below(p))
  BY <1>1, <1>2 DEF E2E!Contract!EmployerNext, E2E!Contract!EmployerSettings
<1>3. CASE E2E!Contract!SetBudgetCap(Budget)
  BY <1>3 DEF E2E!Contract!EmployerNext, E2E!Contract!EmployerSettings
<1>4. CASE E2E!Contract!RunPayroll(Below(p), ScriptWage, p,
                                   {E2E!Contract!CommitmentId(Leaf(p))})
  <2>1. E2E!Contract!Total({Leaf(p)}) = ScriptWage
    <3>1. SumOf({Leaf(p)}, Salary_) = ScriptWage
      <4> HIDE DEF Salary_
      <4> QED
        BY <1>1, SumSingleton
    <3> QED
      BY <3>1, E2ECounts DEF E2E!Contract!Total
  <2>2. {Leaf(p)} \in E2E!Contract!Batches
    <3>1. E2E!Contract!Cardinality({Leaf(p)}) <= BatchSize
      <4>1. Cardinality({Leaf(p)}) = 1
        BY FS_Singleton
      <4> QED
        BY <4>1, E2ECounts, DeskBounds
    <3> QED
      BY <1>1, <3>1 DEF E2E!Contract!Batches
  <2>3. {E2E!Contract!CommitmentId(Leaf(p))}
           = {E2E!Contract!CommitmentId(l) : l \in {Leaf(p)}}
    OBVIOUS
  <2>4. p \in 0..MaxPeriod
    BY <1>1
  <2>5. {Leaf(p)} \subseteq {l \in Tree_[Below(p)] : E2E!Contract!InRange(l)}
    BY <1>1
  <2>6. E2E!Contract!PayBatch({Leaf(p)})
    BY <1>1, <1>4, <2>1, <2>3, <2>4, <2>5 DEF E2E!Contract!PayBatch
  <2> QED
    BY <2>2, <2>6 DEF E2E!Contract!EmployerNext
<1>5. CASE E2E!Contract!Withdraw(Below(p), Leaf(p), call.recipient)
  BY <1>1, <1>5 DEF E2E!Contract!EmployerNext, E2E!Contract!Withdrawing, Source
<1>6. \/ E2E!Contract!SetEmployeeRoot(Below(p)) \/ E2E!Contract!SetBudgetCap(Budget)
      \/ E2E!Contract!RunPayroll(Below(p), ScriptWage, p,
                                 {E2E!Contract!CommitmentId(Leaf(p))})
      \/ E2E!Contract!Withdraw(Below(p), Leaf(p), call.recipient)
  BY DEF E2E!Executes, E2E!PayrollInput, E2E!WithdrawInput, E2E!Contract!CommitmentId,
         Below, Leaf
<1> QED
  BY <1>2, <1>3, <1>4, <1>5, <1>6

LEMMA ScriptIsEmployers ==
    ASSUME ScriptInv, [E2E!E2ENext]_<<contract, script, undecided>>
    PROVE  [E2E!Contract!EmployerNext]_contract
<1>1. ASSUME NEW s \in Scripts, E2E!Command(s)
      PROVE  E2E!Contract!EmployerNext
  <2> DEFINE call == E2E!Called(s)
  <2>1. /\ ContractInv /\ E2E!Executes(call)
        /\ Proved(call.period) /\ call.recipient \in Source
    BY <1>1 DEF E2E!Command, E2E!Sending, E2E!Called, ScriptInv, ScriptTypes, States,
       ContractInv
  <2> HIDE DEF call
  <2> QED
    BY <2>1, ExecutesIsEmployers
<1>2. ASSUME NEW call \in undecided, E2E!AppliedLater(call)
      PROVE  E2E!Contract!EmployerNext
  <2>1. /\ ContractInv /\ E2E!Executes(call)
        /\ Proved(call.period) /\ call.recipient \in Source
    BY <1>2 DEF E2E!AppliedLater, ScriptInv, ScriptTypes, ContractInv
  <2> QED
    BY <2>1, ExecutesIsEmployers
<1>3. CASE E2E!CompleteDeployment
  BY <1>3 DEF E2E!CompleteDeployment, E2E!Contract!EmployerNext,
     E2E!Contract!EmployerSettings
<1>4. ASSUME NEW s \in Scripts, NEW recipient \in Source,
             \/ E2E!ReadPeriod(s, recipient) \/ E2E!ProveWithdraw(s)
             \/ E2E!Fails(s) \/ E2E!TimesOut(s)
      PROVE  UNCHANGED contract
  BY <1>4 DEF E2E!ReadPeriod, E2E!ProveWithdraw, E2E!Fails, E2E!TimesOut, E2E!contract,
     contract
<1> QED
  BY <1>1, <1>2, <1>3, <1>4 DEF E2E!E2ENext, Source

\* Whatever either client does, and however late the ledger decides, is what an
\* employer does in module Payroll: an accepted run pays different commitments
\* below the posted root and lists exactly their ids.  So the theorems about the
\* employer's calls hold of the contract behind both.
THEOREM ClientsAreEmployers ==
    AllSpec => AreEmployers
<1> DEFINE DInv == part = "desk" => DeskInv
           SInv == part = "script" => ScriptInv
           Step == [/\ part = "desk"   => [Contract!EmployerNext]_contract
                    /\ part = "script" => [E2E!Contract!EmployerNext]_contract]_contract
           AllStep == [AllNext]_<<part, vars, script, undecided, timeouts>>
           Starts == /\ part = "desk"   => Contract!Init
                     /\ part = "script" => E2E!Contract!Init
<1>1. AllInit => Starts
  BY DEF AllInit, Init, E2E!E2EInit
<1>2. ASSUME DInv, SInv, AllStep
      PROVE  Step
  <2>1. ASSUME part = "desk"
        PROVE  [Contract!EmployerNext]_contract
    <3>1. DeskInv /\ [Next]_vars
      BY <1>2, <2>1 DEF AllNext
    <3> QED
      BY <3>1, DeskIsEmployers
  <2>2. ASSUME part = "script"
        PROVE  [E2E!Contract!EmployerNext]_contract
    <3>1. ScriptInv /\ [E2E!E2ENext]_<<contract, script, undecided>>
      BY <1>2, <2>2 DEF AllNext, vars
    <3> QED
      BY <3>1, ScriptIsEmployers
  <2> QED
    BY <2>1, <2>2
<1>3. AllSpec => []DInv /\ []SInv
  BY DeskInvariant, ScriptInvariant
<1> QED
  BY <1>1, <1>2, <1>3, PTL DEF AllSpec, AreEmployers

=============================================================================
