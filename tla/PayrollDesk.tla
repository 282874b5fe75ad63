---------------------------- MODULE PayrollDesk ----------------------------
(***************************************************************************)
(* The employer's dashboard in front of the payroll contract: the page     *)
(* that builds and posts the employee tree (SetEmployeeRoot.tsx) and the   *)
(* payroll wizard (PayrollWizard.tsx, stores/payrollWizard.ts).            *)
(*                                                                         *)
(* A handler is split where it awaits: the prover and the ledger answer    *)
(* while the employer presses buttons or opens another page.  The wizard's *)
(* step and statuses live in a store that outlives the page; the slots,    *)
(* the proof and what was read from the contract live in the page and are  *)
(* lost when it is left.  The roster of active employees does not change:  *)
(* no page edits it.                                                       *)
(***************************************************************************)
EXTENDS Integers, FiniteSets, Sequences

CONSTANTS
    Employees,    \* the active employees
    Wage,         \* Wage[e]: the salary of e
    Salts,        \* what randomFieldElement can return
    BatchSize,    \* slots of the deployed circuit, and limit of buildMerkleTree
    Budget,
    Funds,        \* the employer's tokens
    MaxPeriod,
    None

VARIABLES
    \* the contract and its token (module Payroll)
    employeeRoot, budgetCap, token, verifier, withdrawVerifier, currentPeriod,
    periods, rootToPeriod, commitments, nullifiers, auditors, balance,
    fundedIn, payments,
    \* the dashboard
    page,         \* "payroll" or "employees"
    wizard,       \* the store: step, employees selected or not, both statuses
    view,         \* the wizard page's own state
    treeRoot,     \* the tree built on the employees page
    fetching,     \* fetchContractState is under way
    proving,      \* the proof being made, or None
    submitting,   \* the submission under way, or None
    sent          \* the transaction sent and not yet decided, or None

\* A tree is determined by the salts its commitments were built with.  The
\* contract is deployed with root 0, the root of no tree.
Draws    == [Employees -> Salts]
ZeroRoot == <<>>
Roots    == Draws \cup {ZeroRoot}

Slots == [employee : Employees, salt : Salts]
Pad   == [employee |-> None, salt |-> None]

SlotsOf(draw) == {[employee |-> e, salt |-> draw[e]] : e \in Employees}

Leaves == Slots \cup {Pad}
Tree   == [root \in Roots |->
             IF root = ZeroRoot THEN {} ELSE SlotsOf(root) \cup {Pad}]
Salary == [l \in Leaves |-> IF l = Pad THEN 0 ELSE Wage[l.employee]]

Contract == INSTANCE Payroll WITH
    SalaryLimit <- Budget + 1,
    Admin <- "admin", Contract <- "contract", Recipients <- {"employee"},
    Auditors <- {}, Tokens <- {"USDC"},
    Verifiers <- {"batch", "withdraw"}, BatchVerifier <- "batch",
    WithdrawCircuit <- "withdraw", NotSet <- None,
    BudgetCaps <- {Budget}, AdminFunds <- Funds, MaxI128 <- Budget

TotalPay == Contract!SumOf(Employees, Wage)

contract == <<employeeRoot, budgetCap, token, verifier, withdrawVerifier,
              currentPeriod, periods, rootToPeriod, commitments, nullifiers,
              auditors, balance, fundedIn, payments>>
desk     == <<page, wizard, view, treeRoot, fetching, proving, submitting, sent>>
vars     == <<contract, desk>>

Proofs == [draw : Draws, period : 1..MaxPeriod + 1]

RootCalls == [kind : {"root"}, root : Draws]
RunCalls  == [kind : {"run"}, root : Draws, period : 1..MaxPeriod + 1,
              ids : SUBSET Contract!CommitmentIds]

Wizards     == [step       : {"review", "proof", "confirm", "submit"},
                selected   : BOOLEAN,
                proof      : {"idle", "generating", "success", "error"},
                mismatch   : BOOLEAN,
                submission : {"idle", "submitting", "success", "error"}]
Views       == [root   : Roots \cup {None},
                period : 0..MaxPeriod,
                slots  : Draws \cup {None},
                proof  : Proofs \cup {None}]
Provings    == [draw : Draws, root : Roots \cup {None}, period : 0..MaxPeriod,
                shown : BOOLEAN]
Submissions == [call : RunCalls, shown : BOOLEAN,
                ledger : {"unsent", "pending", "success", "failed"}]

\* An employee's salary is positive (lib/api/validation.ts), a payroll has
\* somebody to pay, and None is none of the values it stands for the lack of.
ASSUME DeskAssumption ==
    /\ IsFiniteSet(Employees) /\ Employees # {}
    /\ Wage \in [Employees -> Nat \ {0}]
    /\ BatchSize \in Nat \ {0}
    /\ {Budget, Funds, MaxPeriod} \subseteq Nat
    /\ None \notin Employees \cup Roots \cup Proofs \cup Provings \cup Submissions
                     \cup RootCalls \cup RunCalls

TypeOK ==
    /\ page \in {"payroll", "employees"}
    /\ wizard \in Wizards
    /\ view \in Views
    /\ treeRoot \in Draws \cup {None}
    /\ fetching \in BOOLEAN
    /\ proving \in Provings \cup {None}
    /\ submitting \in Submissions \cup {None}
    /\ sent \in RootCalls \cup RunCalls \cup {None}

NewWizard == [step |-> "review", selected |-> FALSE, proof |-> "idle",
              mismatch |-> FALSE, submission |-> "idle"]
NewView   == [root |-> None, period |-> 0, slots |-> None, proof |-> None]

Init ==
    /\ Contract!Init
    /\ employeeRoot = ZeroRoot
    /\ page = "payroll"
    /\ wizard = NewWizard
    /\ view = NewView
    /\ treeRoot = None
    /\ fetching = TRUE
    /\ proving = None
    /\ submitting = None
    /\ sent = None

-----------------------------------------------------------------------------
(* Pages.                                                                  *)

\* Opening another page unmounts the one that is left.  What is under way goes
\* on: it can still write to the store, its writes to the page are lost.  The
\* wizard opens at the step the store has and fetches only in "review".
OpenPage(p) ==
    /\ page # p
    /\ page' = p
    /\ view' = NewView
    /\ treeRoot' = None
    /\ fetching' = (p = "payroll" /\ wizard.step = "review")
    /\ proving' = IF proving = None THEN None
                  ELSE [proving EXCEPT !.shown = FALSE]
    /\ submitting' = IF submitting = None THEN None
                     ELSE [submitting EXCEPT !.shown = FALSE]
    /\ UNCHANGED <<contract, wizard, sent>>

\* Loading the dashboard again: the store starts anew.
Reload ==
    /\ page' = "payroll"
    /\ wizard' = NewWizard
    /\ view' = NewView
    /\ treeRoot' = None
    /\ fetching' = TRUE
    /\ proving' = None
    /\ submitting' = None
    /\ UNCHANGED <<contract, sent>>

-----------------------------------------------------------------------------
(* The employees page.                                                     *)

\* handleBuildTree: slots with salts of its own; only the root is kept.
BuildTree(draw) ==
    /\ page = "employees"
    /\ Cardinality(Employees) <= BatchSize
    /\ treeRoot' = draw
    /\ UNCHANGED <<contract, page, wizard, view, fetching, proving, submitting, sent>>

\* handlePostRoot.  One transaction at a time: a second one would be built on
\* the same sequence number of the employer's account.
PostRoot ==
    /\ page = "employees"
    /\ treeRoot # None
    /\ sent = None
    /\ sent' = [kind |-> "root", root |-> treeRoot]
    /\ UNCHANGED <<contract, page, wizard, view, treeRoot, fetching, proving, submitting>>

-----------------------------------------------------------------------------
(* The wizard.                                                             *)

OnStep(step) == page = "payroll" /\ wizard.step = step

\* The effect on "review" starts a fetch; simulateContractCall reads the
\* contract some time later.  A call whose simulation fails leaves what the
\* page had, an exception forgets the root.
Fetched ==
    [root   : {employeeRoot, view.root}, period : {currentPeriod, view.period},
     slots  : {view.slots}, proof : {view.proof}]
    \cup {[view EXCEPT !.root = None]}

FetchContractState ==
    /\ fetching
    /\ fetching' = FALSE
    /\ view' \in Fetched
    /\ UNCHANGED <<contract, page, wizard, treeRoot, proving, submitting, sent>>

\* handleStartPayroll
StartPayroll ==
    /\ OnStep("review")
    /\ ~wizard.selected
    /\ wizard' = [wizard EXCEPT !.selected = TRUE]
    /\ UNCHANGED <<contract, page, view, treeRoot, fetching, proving, submitting, sent>>

\* The "Continue" button of ReviewStep.
Continue ==
    /\ OnStep("review")
    /\ wizard.selected
    /\ wizard' = [wizard EXCEPT !.step = "proof"]
    /\ UNCHANGED <<contract, page, view, treeRoot, fetching, proving, submitting, sent>>

\* The "Back" buttons of ProofStep and ConfirmStep: only the step changes.
WentBackMutant == [wizard EXCEPT !.step = IF @ = "proof" THEN "review" ELSE "proof",
                                 !.proof = "idle"]
WentBack == [wizard EXCEPT !.step = IF @ = "proof" THEN "review" ELSE "proof"]

Back ==
    /\ OnStep("proof") \/ OnStep("confirm")
    /\ wizard' = WentBack
    /\ fetching' = (fetching \/ wizard'.step = "review")
    /\ UNCHANGED <<contract, page, view, treeRoot, proving, submitting, sent>>

\* ProofStep offers "Generate Proof" when idle and "Retry" after an error.
ProofOffered == OnStep("proof") /\ wizard.proof \in {"idle", "error"}

\* handleGenerateProof up to the prover: new slots with new salts, from which
\* the tree is built; the root and the period are those of the last fetch.
GenerateProof(draw) ==
    /\ ProofOffered
    /\ wizard' = [wizard EXCEPT !.proof = "generating", !.mismatch = FALSE]
    /\ view' = [view EXCEPT !.slots = draw]
    /\ proving' = [draw |-> draw, root |-> view.root, period |-> view.period,
                   shown |-> TRUE]
    /\ UNCHANGED <<contract, page, treeRoot, fetching, submitting, sent>>

\* nextStep of the store, from whatever step it is on by then.
NextOf(step) ==
    CASE step = "review" -> "proof"
      [] step = "proof" -> "confirm"
      [] OTHER -> "submit"

\* "Employee Merkle root mismatch"
RootMismatch == proving.root \notin {None, ZeroRoot, proving.draw}

\* The statement is proved for the next period and the wizard moves on.
ProofMade ==
    /\ proving # None
    /\ ~RootMismatch
    /\ Cardinality(Employees) <= BatchSize
    /\ wizard' = [wizard EXCEPT !.proof = "success", !.step = NextOf(@)]
    /\ view' = IF proving.shown
               THEN [view EXCEPT !.proof = [draw |-> proving.draw,
                                            period |-> proving.period + 1]]
               ELSE view
    /\ proving' = None
    /\ UNCHANGED <<contract, page, treeRoot, fetching, submitting, sent>>

\* A root that differs, or a prover that fails.
ProofFailed ==
    /\ proving # None
    /\ wizard' = [wizard EXCEPT !.proof = "error", !.mismatch = RootMismatch]
    /\ proving' = None
    /\ UNCHANGED <<contract, page, view, treeRoot, fetching, submitting, sent>>

\* ConfirmStep offers "Submit Payroll" unless one is under way, SubmitStep
\* "Retry Submission" after an error.
SubmitOffered ==
    \/ OnStep("confirm") /\ wizard.submission # "submitting"
    \/ OnStep("submit") /\ wizard.submission = "error"

\* The ids listed with the proof: one per slot of the page's salarySlots.
ListedIdsMutant(draw) == {Contract!CommitmentId(l) : l \in SlotsOf(draw) \cup {Pad}}
ListedIds(draw) == {Contract!CommitmentId(l) : l \in SlotsOf(draw)}

\* handleSubmit; without a proof it only shows a message.
SubmitPayroll ==
    /\ SubmitOffered
    /\ view.proof # None
    /\ wizard' = [wizard EXCEPT !.submission = "submitting"]
    /\ submitting' = [call |-> [kind   |-> "run",
                                root   |-> view.proof.draw,
                                period |-> view.proof.period,
                                ids    |-> ListedIds(view.slots)],
                      shown  |-> TRUE,
                      ledger |-> "unsent"]
    /\ UNCHANGED <<contract, page, view, treeRoot, fetching, proving, sent>>

Accepted(call) ==
    Contract!RunPayrollAccepts(call.root, TotalPay, call.period, call.ids)

\* invokeContract: the simulation accepts the call, the wallet signs, the
\* transaction is sent.
SendPayroll ==
    /\ submitting # None
    /\ submitting.ledger = "unsent"
    /\ sent = None
    /\ Accepted(submitting.call)
    /\ sent' = submitting.call
    /\ submitting' = [submitting EXCEPT !.ledger = "pending"]
    /\ UNCHANGED <<contract, page, wizard, view, treeRoot, fetching, proving>>

\* waitForSorobanTransaction sees SUCCESS.
SubmissionConfirmed ==
    /\ submitting # None
    /\ submitting.ledger = "success"
    /\ wizard' = [wizard EXCEPT !.submission = "success", !.step = NextOf(@)]
    /\ submitting' = None
    /\ UNCHANGED <<contract, page, view, treeRoot, fetching, proving, sent>>

\* An upload fails, the simulation or the employer refuses, the transaction
\* fails, or it is not seen in time; in the last case it may still be applied.
SubmissionFailed ==
    /\ submitting # None
    /\ wizard' = [wizard EXCEPT !.submission = "error"]
    /\ submitting' = None
    /\ UNCHANGED <<contract, page, view, treeRoot, fetching, proving, sent>>

\* "Start New Payroll" and "Start Over": the store, not the page's own state.
Reset ==
    /\ OnStep("submit")
    /\ wizard.submission \in {"success", "error"}
    /\ wizard' = NewWizard
    /\ fetching' = TRUE
    /\ UNCHANGED <<contract, page, view, treeRoot, proving, submitting, sent>>

-----------------------------------------------------------------------------
(* The ledger decides the transaction that was sent.                       *)

\* What the submission polling for the transaction will see.
SeenAsMutant(result) ==
    IF submitting # None /\ submitting.ledger = "pending"
    THEN [submitting EXCEPT !.ledger = "success"] ELSE submitting
SeenAs(result) ==
    IF submitting # None /\ submitting.ledger = "pending"
    THEN [submitting EXCEPT !.ledger = result] ELSE submitting

Applied ==
    /\ sent # None
    /\ \/ sent.kind = "root" /\ Contract!SetEmployeeRoot(sent.root)
       \/ /\ sent.kind = "run"
          /\ Contract!RunPayroll(sent.root, TotalPay, sent.period, sent.ids)
    /\ sent' = None
    /\ submitting' = SeenAs("success")
    /\ UNCHANGED <<page, wizard, view, treeRoot, fetching, proving>>

\* It expires, or the contract refuses the call by now.
NotApplied ==
    /\ sent # None
    /\ sent' = None
    /\ submitting' = SeenAs("failed")
    /\ UNCHANGED <<contract, page, wizard, view, treeRoot, fetching, proving>>

-----------------------------------------------------------------------------
Next ==
    \/ \E p \in {"payroll", "employees"} : OpenPage(p)
    \/ Reload
    \/ \E draw \in Draws : BuildTree(draw) \/ GenerateProof(draw)
    \/ PostRoot
    \/ FetchContractState
    \/ StartPayroll \/ Continue \/ Back
    \/ ProofMade \/ ProofFailed
    \/ SubmitPayroll \/ SendPayroll \/ SubmissionConfirmed \/ SubmissionFailed
    \/ Reset
    \/ Applied \/ NotApplied

Spec == Init /\ [][Next]_vars

-----------------------------------------------------------------------------
(* Properties.                                                             *)

\* Every period the dashboard got accepted can be withdrawn to the last
\* salary: it escrows the whole payroll and lists exactly the ids of the
\* commitments below its root that carry a salary, however often the proof
\* was made again or the submission repeated.
EveryPeriodWithdrawable ==
    \A p \in 1..currentPeriod :
        /\ periods[p].totalAmount = TotalPay
        /\ periods[p].commitmentIds =
             {Contract!CommitmentId(l) :
                 l \in {m \in Tree[periods[p].commitmentRoot] : Salary[m] > 0}}

\* The page says "Payroll Submitted" only when the period of its proof is on
\* the ledger.
SuccessIsRecorded ==
    OnStep("submit") /\ wizard.submission = "success" /\ view.proof # None =>
        /\ view.proof.period <= currentPeriod
        /\ periods[view.proof.period].commitmentRoot = view.proof.draw

\* However the employer goes back, leaves the page and returns, no second
\* proof and no second submission is started beside one under way, and the
\* slots of the page stay those of the proof being submitted.
OneAtATime ==
    /\ proving # None => submitting = None /\ ~ProofOffered
    /\ submitting # None => ~ProofOffered /\ ~SubmitOffered

\* What the page shows is so: it reports success only of what is recorded, and
\* while a proof or a submission is under way, on whichever page, it offers no
\* second one.
PageTellsTheTruth == SuccessIsRecorded /\ OneAtATime

\* "Update the on-chain root via set_employee_root before running payroll."
\* (PayrollWizard.tsx:174): a root posted for these employees is accepted.
PostedRootAccepted == ~wizard.mismatch

\* The dashboard is the employer Payroll assumes: whatever is pressed, and
\* whenever the ledger decides, every accepted run pays different commitments
\* below the posted root and lists exactly their ids.  So what holds of the
\* employer's calls (the escrow covers what is owed, nobody is locked out)
\* holds of the contract behind this dashboard.
IsEmployer == Contract!EmployerSpec
=============================================================================
